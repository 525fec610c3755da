----------------------- MODULE RepositoryCache_proofs -----------------------
(***************************************************************************)
(* Proofs about the repository's cache: for all processes, publications,   *)
(* key rotations, failures, kills and power losses, the checkpoint is one  *)
(* whole publication, and trust never goes back unless a publication was   *)
(* cut between its replacement and the sync of the directory.              *)
(***************************************************************************)
EXTENDS RepositoryCache, FiniteSetTheorems, TLAPS

(***************************************************************************)
(* Epochs and copies.                                                      *)
(***************************************************************************)
LEMMA EpochMonotone ==
  ASSUME NEW v \in Nat, NEW w \in Nat, v <= w
  PROVE  Epoch(v) \in Nat /\ Epoch(w) \in Nat /\ Epoch(v) <= Epoch(w)
<1> DEFINE V == {r \in Rotations : r <= v}
           W == {r \in Rotations : r <= w}
<1>1. IsFiniteSet(Rotations)
  <2>1. IsFiniteSet(2 .. MaxVersion)
    BY FS_Interval, BoundAssumption
  <2> QED
    BY <2>1, FS_Subset, RotationAssumption
<1>2. IsFiniteSet(W) /\ V \subseteq W
  <2>1. W \subseteq Rotations
    OBVIOUS
  <2>2. ASSUME NEW r \in Rotations, r <= v
        PROVE  r <= w
    <3>1. r \in Int
      BY RotationAssumption, BoundAssumption
    <3> QED
      BY <2>2, <3>1
  <2> QED
    BY <1>1, <2>1, <2>2, FS_Subset
<1>3. IsFiniteSet(V) /\ Cardinality(V) <= Cardinality(W)
  BY <1>2, FS_Subset
<1>4. Cardinality(V) \in Nat /\ Cardinality(W) \in Nat
  BY <1>2, <1>3, FS_CardinalityType
<1> QED
  BY <1>3, <1>4 DEF Epoch

\* A version signed by the keys of a later epoch is later.
LEMMA LaterEpoch ==
  ASSUME NEW t \in Nat, NEW v \in Nat, Epoch(t) <= Epoch(v), Epoch(t) # Epoch(v)
  PROVE  v >= t
<1> SUFFICES ASSUME v < t PROVE FALSE
  OBVIOUS
<1>1. Epoch(v) \in Nat /\ Epoch(t) \in Nat /\ Epoch(v) <= Epoch(t)
  BY EpochMonotone
<1> QED
  BY <1>1

LEMMA NotOlderFields ==
  ASSUME NEW a \in Copies, NEW b \in Copies
  PROVE  NotOlder(a, b) <=> /\ a.root >= b.root /\ a.timestamp >= b.timestamp
                            /\ a.targets >= b.targets /\ a.delegated >= b.delegated
BY DEF NotOlder, Copies

LEMMA NotOlderTransitive ==
  ASSUME NEW a \in Copies, NEW b \in Copies, NEW c \in Copies, NotOlder(a, b), NotOlder(b, c)
  PROVE  NotOlder(a, c)
<1>1. /\ a.root \in Nat /\ a.timestamp \in Nat /\ a.targets \in Nat /\ a.delegated \in Nat
      /\ b.root \in Nat /\ b.timestamp \in Nat /\ b.targets \in Nat /\ b.delegated \in Nat
      /\ c.root \in Nat /\ c.timestamp \in Nat /\ c.targets \in Nat /\ c.delegated \in Nat
  BY BoundAssumption DEF Copies
<1> QED
  BY <1>1, NotOlderFields

LEMMA NotOlderReflexive ==
  ASSUME NEW a \in Copies
  PROVE  NotOlder(a, a)
BY BoundAssumption DEF NotOlder, Copies

LEMMA FreshCopy ==
  Fresh \in Copies /\ Torn \in Copies /\ NoFile \in Files /\ Fresh.root = 1 /\ Fresh.timestamp = 0
  /\ Fresh.targets = 0 /\ Fresh.delegated = 0 /\ Torn.root = 0
BY BoundAssumption DEF Fresh, Torn, NoFile, Copies, Files

(***************************************************************************)
(* The inductive invariant.  What a session may rely on depends on where   *)
(* it is: between two roles of the refresh its copy is neither the old nor *)
(* the new publication.                                                    *)
(***************************************************************************)
Coherent(c) ==
  /\ 1 <= c.root /\ c.root <= published /\ c.timestamp <= published
  /\ c.timestamp = c.targets /\ c.delegated <= c.targets
  /\ c.timestamp > 0 => Epoch(c.timestamp) = Epoch(c.root)

NewRoot(c) ==
  /\ 1 <= c.root /\ c.root <= published /\ c.timestamp <= published
  /\ c.timestamp = c.targets /\ c.delegated <= c.targets
  /\ c.timestamp > 0 => Epoch(c.timestamp) <= Epoch(c.root)

NewTimestamp(c) ==
  /\ 1 <= c.root /\ c.root <= published /\ 1 <= c.timestamp /\ c.timestamp <= published
  /\ c.timestamp >= c.targets /\ c.delegated <= c.targets
  /\ Epoch(c.timestamp) = Epoch(c.root)

Loaded == {"root", "timestamp", "targets", "commit", "write", "sync", "replace", "open", "return"}

Session(p) ==
  /\ at[p] \in Loaded => digest[p] = now.copy /\ NotOlder(stage[p], now.copy)
  /\ at[p] \in Loaded \cup {"syncdir"} =>
       IF at[p] = "timestamp" THEN NewRoot(stage[p])
       ELSE IF at[p] = "targets" THEN NewTimestamp(stage[p]) ELSE Coherent(stage[p])
  /\ at[p] \in {"sync", "replace"} => temp.copy = stage[p]
  /\ at[p] = "replace" => temp.synced
  /\ at[p] \in {"syncdir", "open", "return"} => now.copy = stage[p]

FilesInv ==
  /\ now.synced /\ disk.synced
  /\ Coherent(now.copy) /\ Coherent(disk.copy)
  /\ NotOlder(now.copy, disk.copy)
  /\ cut \/ NotOlder(disk.copy, told)
  /\ cut \/ disk = now \/ \E p \in Sessions : at[p] = "syncdir"

CacheInv == TypeOK /\ FilesInv /\ \A p \in Sessions : Session(p)

LEMMA InvInit ==
  ASSUME Init
  PROVE  CacheInv
<1>1. TypeOK
  <2>1. published \in 1 .. MaxVersion /\ losses \in 0 .. MaxLosses /\ cut \in BOOLEAN
    <3>1. published = 1 /\ losses = 0 /\ cut = FALSE
      BY DEF Init
    <3>2. cut \in BOOLEAN
      BY <3>1
    <3> QED
      BY <3>1, <3>2, BoundAssumption
  <2>2. now \in Files /\ disk \in Files /\ temp \in Files /\ told \in Copies
    BY FreshCopy DEF Init, Files
  <2>3. /\ at \in [Sessions -> Points] /\ asked \in [Sessions -> BOOLEAN]
        /\ stage \in [Sessions -> Copies] /\ digest \in [Sessions -> Copies]
    BY FreshCopy DEF Init, Points
  <2>4. holder = Nobody /\ \A p \in Sessions : at[p] = "off" /\ p # Nobody
    BY SessionAssumption DEF Init
  <2> QED
    BY <2>1, <2>2, <2>3, <2>4 DEF TypeOK
<1>2. FilesInv
  BY FreshCopy, NotOlderReflexive DEF Init, FilesInv, Coherent
<1>3. ASSUME NEW p \in Sessions PROVE Session(p)
  BY DEF Init, Session, Loaded
<1> QED
  BY <1>1, <1>2, <1>3 DEF CacheInv

\* While one session is open, all others are off.
LEMMA Alone ==
  ASSUME TypeOK, NEW p \in Sessions, NEW q \in Sessions, q # p, at[p] # "off"
  PROVE  at[q] = "off"
BY DEF TypeOK

\* A session that is off relies on nothing.
LEMMA OffSession ==
  ASSUME NEW p \in Sessions, at[p] = "off"
  PROVE  Session(p)
BY DEF Session, Loaded

\* A step of one session while all others are off.
LEMMA StepOfOne ==
  ASSUME CacheInv, NEW p \in Sessions, NEW to, at' = [at EXCEPT ![p] = to],
         \A q \in Sessions : q # p => at[q] = "off",
         TypeOK', FilesInv', Session(p)'
  PROVE  CacheInv'
<1>1. ASSUME NEW q \in Sessions, q # p PROVE Session(q)'
  <2>1. at'[q] = "off"
    BY <1>1 DEF CacheInv, TypeOK
  <2> QED
    BY <2>1 DEF Session, Loaded
<1> QED
  BY <1>1 DEF CacheInv

(***************************************************************************)
(* The steps of a session.                                                 *)
(***************************************************************************)
LEMMA EnterStep ==
  ASSUME CacheInv, NEW p \in Sessions, Enter(p)
  PROVE  CacheInv'
<1>1. /\ at[p] = "off" /\ at' = [at EXCEPT ![p] = "load"] /\ holder = Nobody /\ holder' = p
      /\ temp' = NoFile /\ UNCHANGED <<published, now, disk, cut, stage, digest, asked, told, losses>>
  BY DEF Enter, Goto, World
<1>2. \A q \in Sessions : at[q] = "off"
  BY <1>1, SessionAssumption DEF CacheInv, TypeOK
<1>3. TypeOK'
  BY <1>1, <1>2, FreshCopy, SessionAssumption DEF CacheInv, TypeOK, Points
<1>4. FilesInv'
  BY <1>1, <1>2 DEF CacheInv, FilesInv, Coherent
<1>5. Session(p)'
  BY <1>1 DEF CacheInv, TypeOK, Session, Loaded
<1> QED
  BY <1>1, <1>2, <1>3, <1>4, <1>5, StepOfOne

LEMMA LoadStep ==
  ASSUME CacheInv, NEW p \in Sessions, Load(p)
  PROVE  CacheInv'
<1>1. /\ at[p] = "load" /\ at' = [at EXCEPT ![p] = "root"]
      /\ stage' = [stage EXCEPT ![p] = now.copy] /\ digest' = [digest EXCEPT ![p] = now.copy]
      /\ UNCHANGED <<published, now, disk, temp, holder, cut, asked, told, losses>>
  BY DEF Load, Goto, World, cacheVars, lockVars
<1>2. \A q \in Sessions : q # p => at[q] = "off"
  BY <1>1, Alone DEF CacheInv
<1>3. TypeOK' /\ now.copy \in Copies /\ stage'[p] = now.copy /\ digest'[p] = now.copy
  BY <1>1 DEF CacheInv, TypeOK, Points, Files
<1>4. FilesInv'
  BY <1>1, <1>2 DEF CacheInv, TypeOK, FilesInv, Coherent
<1>5. Session(p)'
  <2>1. at'[p] = "root" /\ Coherent(stage[p])' /\ NotOlder(stage'[p], now'.copy)
    BY <1>1, <1>3, NotOlderReflexive DEF CacheInv, TypeOK, FilesInv, Coherent
  <2> QED
    BY <1>1, <1>3, <2>1 DEF Session, Loaded
<1> QED
  BY <1>1, <1>2, <1>3, <1>4, <1>5, StepOfOne

\* A step that only changes the private copy, to a newer one.
LEMMA RefreshStep ==
  ASSUME CacheInv, NEW p \in Sessions, NEW from \in Loaded, NEW to \in Loaded, Goto(p, from, to),
         NEW c \in Copies, stage' = [stage EXCEPT ![p] = c], NotOlder(c, stage[p]),
         to \notin {"sync", "replace", "open", "return"},
         IF to = "timestamp" THEN NewRoot(c) ELSE IF to = "targets" THEN NewTimestamp(c) ELSE Coherent(c),
         asked' \in [Sessions -> BOOLEAN],
         UNCHANGED <<cacheVars, lockVars, digest, World>>
  PROVE  CacheInv'
<1>1. /\ at[p] = from /\ from # "off" /\ at' = [at EXCEPT ![p] = to] /\ to # "off" /\ to \in Points
      /\ UNCHANGED <<published, now, disk, temp, holder, cut, digest, told, losses>>
  BY DEF Goto, World, cacheVars, lockVars, Loaded, Points
<1>2. \A q \in Sessions : q # p => at[q] = "off"
  BY <1>1, Alone DEF CacheInv
<1>3. TypeOK' /\ stage'[p] = c /\ at'[p] = to
  BY <1>1 DEF CacheInv, TypeOK
<1>4. FilesInv'
  BY <1>1, <1>2 DEF CacheInv, TypeOK, FilesInv, Coherent, Loaded
<1>5. Session(p)'
  <2>1. digest'[p] = now'.copy /\ NotOlder(stage'[p], now'.copy)
    <3>1. digest[p] = now.copy /\ NotOlder(stage[p], now.copy)
      BY <1>1 DEF CacheInv, Session
    <3>2. stage[p] \in Copies /\ now.copy \in Copies
      BY DEF CacheInv, TypeOK, Files
    <3> QED
      BY <1>1, <1>3, <3>1, <3>2, NotOlderTransitive
  <2>2. IF to = "timestamp" THEN NewRoot(stage[p])' ELSE IF to = "targets" THEN NewTimestamp(stage[p])'
        ELSE Coherent(stage[p])'
    BY <1>1, <1>3 DEF NewRoot, NewTimestamp, Coherent
  <2> QED
    BY <1>3, <2>1, <2>2 DEF Session, Loaded
<1> QED
  BY <1>1, <1>2, <1>3, <1>4, <1>5, StepOfOne

LEMMA RefreshRootStep ==
  ASSUME CacheInv, NEW p \in Sessions, RefreshRoot(p)
  PROVE  CacheInv'
<1> DEFINE old == stage[p]
<1>1. PICK v \in old.root .. published : stage' = [stage EXCEPT ![p].root = v]
  BY DEF RefreshRoot
<1> DEFINE c == [old EXCEPT !.root = v]
<1>2. at[p] = "root" /\ old \in Copies /\ Coherent(old) /\ published \in 1 .. MaxVersion
  BY DEF RefreshRoot, Goto, CacheInv, TypeOK, Session, Loaded
<1>3. /\ old.root \in Nat /\ old.timestamp \in Nat /\ old.targets \in Nat /\ old.delegated \in Nat
      /\ v \in Nat /\ old.root <= v /\ v <= published /\ v \in 0 .. MaxVersion
  BY <1>1, <1>2, BoundAssumption DEF Copies
<1>4. /\ c \in Copies /\ c.root = v /\ c.timestamp = old.timestamp /\ c.targets = old.targets
      /\ c.delegated = old.delegated /\ stage' = [stage EXCEPT ![p] = c]
  BY <1>1, <1>2, <1>3 DEF Copies, CacheInv, TypeOK
<1> HIDE DEF c
<1>5. NotOlder(c, old)
  BY <1>2, <1>3, <1>4, NotOlderFields
<1>6. NewRoot(c)
  <2>1. Epoch(old.root) <= Epoch(v) /\ Epoch(old.root) \in Nat /\ Epoch(v) \in Nat
    BY <1>3, EpochMonotone
  <2> QED
    BY <1>2, <1>3, <1>4, <2>1 DEF Coherent, NewRoot
<1>7. asked' \in [Sessions -> BOOLEAN]
  BY DEF RefreshRoot, CacheInv, TypeOK
<1> HIDE DEF old
<1> QED
  BY <1>4, <1>5, <1>6, <1>7, RefreshStep DEF RefreshRoot, old, Loaded

LEMMA RefreshTimestampStep ==
  ASSUME CacheInv, NEW p \in Sessions, RefreshTimestamp(p)
  PROVE  CacheInv'
<1> DEFINE old == stage[p]
<1>1. PICK v \in Signed(old.root) : /\ old.timestamp \in Signed(old.root) => v >= old.timestamp
                                    /\ stage' = [stage EXCEPT ![p].timestamp = v]
  BY DEF RefreshTimestamp
<1> DEFINE c == [old EXCEPT !.timestamp = v]
<1>2. at[p] = "timestamp" /\ old \in Copies /\ NewRoot(old) /\ published \in 1 .. MaxVersion
  BY DEF RefreshTimestamp, Goto, CacheInv, TypeOK, Session, Loaded
<1>3. /\ old.root \in Nat /\ old.timestamp \in Nat /\ old.targets \in Nat /\ old.delegated \in Nat
      /\ v \in Nat /\ 1 <= v /\ v <= published /\ v \in 0 .. MaxVersion /\ Epoch(v) = Epoch(old.root)
  BY <1>1, <1>2, BoundAssumption DEF Copies, Signed
<1>4. /\ c \in Copies /\ c.timestamp = v /\ c.root = old.root /\ c.targets = old.targets
      /\ c.delegated = old.delegated /\ stage' = [stage EXCEPT ![p] = c]
  BY <1>1, <1>2, <1>3 DEF Copies, CacheInv, TypeOK
<1>5. v >= old.timestamp
  <2>1. CASE old.timestamp = 0
    BY <1>3, <2>1
  <2>2. CASE old.timestamp > 0 /\ Epoch(old.timestamp) = Epoch(old.root)
    BY <1>1, <1>2, <1>3, <2>2 DEF Signed, NewRoot
  <2>3. CASE old.timestamp > 0 /\ Epoch(old.timestamp) # Epoch(old.root)
    BY <1>2, <1>3, <2>3, LaterEpoch DEF NewRoot
  <2> QED
    BY <1>3, <2>1, <2>2, <2>3
<1> HIDE DEF c
<1>6. NotOlder(c, old)
  BY <1>2, <1>3, <1>4, <1>5, NotOlderFields
<1>7. NewTimestamp(c)
  BY <1>2, <1>3, <1>4, <1>5 DEF NewRoot, NewTimestamp
<1>8. asked' \in [Sessions -> BOOLEAN]
  BY DEF RefreshTimestamp, CacheInv, TypeOK
<1> HIDE DEF old
<1> QED
  BY <1>4, <1>6, <1>7, <1>8, RefreshStep DEF RefreshTimestamp, old, Loaded

LEMMA RefreshTargetsStep ==
  ASSUME CacheInv, NEW p \in Sessions, RefreshTargets(p)
  PROVE  CacheInv'
<1> DEFINE old == stage[p]
           c   == [old EXCEPT !.targets = old.timestamp]
<1>1. at[p] = "targets" /\ old \in Copies /\ NewTimestamp(old)
  BY DEF RefreshTargets, Goto, CacheInv, TypeOK, Session, Loaded
<1>2. old.root \in Nat /\ old.timestamp \in Nat /\ old.targets \in Nat /\ old.delegated \in Nat
  BY <1>1, BoundAssumption DEF Copies
<1>3. /\ c \in Copies /\ c.timestamp = old.timestamp /\ c.root = old.root /\ c.targets = old.timestamp
      /\ c.delegated = old.delegated /\ stage' = [stage EXCEPT ![p] = c]
  BY <1>1, <1>2 DEF RefreshTargets, Copies, CacheInv, TypeOK
<1> HIDE DEF c
<1>4. NotOlder(c, old) /\ Coherent(c)
  BY <1>1, <1>2, <1>3, NotOlderFields DEF NewTimestamp, Coherent
<1>5. asked' \in [Sessions -> BOOLEAN]
  BY DEF RefreshTargets, CacheInv, TypeOK
<1> HIDE DEF old
<1> QED
  BY <1>3, <1>4, <1>5, RefreshStep DEF RefreshTargets, old, Loaded

LEMMA TargetStep ==
  ASSUME CacheInv, NEW p \in Sessions, Target(p)
  PROVE  CacheInv'
<1> DEFINE old == stage[p]
<1>1. PICK v \in {old.delegated, old.targets} : stage' = [stage EXCEPT ![p].delegated = v]
  BY DEF Target
<1> DEFINE c == [old EXCEPT !.delegated = v]
<1>2. at[p] = "open" /\ old \in Copies /\ Coherent(old)
  BY DEF Target, Goto, CacheInv, TypeOK, Session, Loaded
<1>3. /\ old.root \in Nat /\ old.timestamp \in Nat /\ old.targets \in Nat /\ old.delegated \in Nat
      /\ v \in 0 .. MaxVersion /\ old.delegated <= v /\ v <= old.targets
  BY <1>1, <1>2, BoundAssumption DEF Copies, Coherent
<1>4. /\ c \in Copies /\ c.timestamp = old.timestamp /\ c.root = old.root /\ c.targets = old.targets
      /\ c.delegated = v /\ stage' = [stage EXCEPT ![p] = c]
  BY <1>1, <1>2, <1>3 DEF Copies, CacheInv, TypeOK
<1> HIDE DEF c
<1>5. NotOlder(c, old) /\ Coherent(c)
  BY <1>2, <1>3, <1>4, NotOlderFields DEF Coherent
<1>6. asked' \in [Sessions -> BOOLEAN]
  BY DEF Target, CacheInv, TypeOK
<1> HIDE DEF old
<1> QED
  BY <1>4, <1>5, <1>6, RefreshStep DEF Target, old, Loaded

\* A step of _commit_checkpoint that changes no file and no copy.
LEMMA CompareStep ==
  ASSUME CacheInv, NEW p \in Sessions, Compare(p)
  PROVE  CacheInv'
<1> DEFINE to == IF stage[p] = digest[p] THEN Back(p) ELSE "write"
<1>1. /\ at[p] = "commit" /\ at' = [at EXCEPT ![p] = to]
      /\ UNCHANGED <<published, now, disk, temp, holder, cut, stage, digest, asked, told, losses>>
  BY DEF Compare, Goto, World, cacheVars, lockVars
<1>2. /\ to \in {"write", "open", "return"} /\ (to # "write" => stage[p] = digest[p])
  BY DEF Back
<1> HIDE DEF to
<1>3. \A q \in Sessions : q # p => at[q] = "off"
  BY <1>1, Alone DEF CacheInv
<1>4. TypeOK' /\ at'[p] = to
  BY <1>1, <1>2 DEF CacheInv, TypeOK, Points
<1>5. FilesInv'
  BY <1>1, <1>3, <1>4 DEF CacheInv, TypeOK, FilesInv, Coherent
<1>6. Session(p)'
  <2>1. digest[p] = now.copy /\ NotOlder(stage[p], now.copy) /\ Coherent(stage[p])
    BY <1>1 DEF CacheInv, Session, Loaded
  <2>2. Coherent(stage[p])'
    BY <1>1, <2>1 DEF Coherent
  <2>3. NotOlder(stage[p], now.copy)'
    BY <1>1, <2>1 DEF NotOlder
  <2> QED
    BY <1>1, <1>2, <1>4, <2>1, <2>2, <2>3 DEF Session, Loaded
<1> QED
  BY <1>1, <1>3, <1>4, <1>5, <1>6, StepOfOne

LEMMA WriteStep ==
  ASSUME CacheInv, NEW p \in Sessions, Write(p)
  PROVE  CacheInv'
<1>1. /\ at[p] = "write" /\ at' = [at EXCEPT ![p] = "sync"]
      /\ temp' = [copy |-> stage[p], synced |-> FALSE]
      /\ UNCHANGED <<published, now, disk, holder, cut, stage, digest, asked, told, losses>>
  BY DEF Write, Goto, World, lockVars
<1>2. \A q \in Sessions : q # p => at[q] = "off"
  BY <1>1, Alone DEF CacheInv
<1>3. temp' \in Files /\ temp'.copy = stage[p]
  BY <1>1 DEF CacheInv, TypeOK, Files
<1>4. TypeOK' /\ at'[p] = "sync"
  BY <1>1, <1>3 DEF CacheInv, TypeOK, Points
<1>5. FilesInv'
  BY <1>1, <1>2, <1>4 DEF CacheInv, TypeOK, FilesInv, Coherent
<1>6. Session(p)'
  <2>1. digest[p] = now.copy /\ NotOlder(stage[p], now.copy) /\ Coherent(stage[p])
    BY <1>1 DEF CacheInv, Session, Loaded
  <2>2. Coherent(stage[p])' /\ NotOlder(stage[p], now.copy)'
    BY <1>1, <2>1 DEF Coherent, NotOlder
  <2> QED
    BY <1>1, <1>3, <1>4, <2>1, <2>2 DEF Session, Loaded
<1> QED
  BY <1>1, <1>2, <1>4, <1>5, <1>6, StepOfOne

LEMMA SyncStep ==
  ASSUME CacheInv, NEW p \in Sessions, Sync(p)
  PROVE  CacheInv'
<1>1. /\ at[p] = "sync" /\ at' = [at EXCEPT ![p] = "replace"]
      /\ temp' = [temp EXCEPT !.synced = TRUE]
      /\ UNCHANGED <<published, now, disk, holder, cut, stage, digest, asked, told, losses>>
  BY DEF Sync, Goto, World, lockVars
<1>2. \A q \in Sessions : q # p => at[q] = "off"
  BY <1>1, Alone DEF CacheInv
<1>3. temp' \in Files /\ temp'.copy = temp.copy /\ temp'.synced
  BY <1>1 DEF CacheInv, TypeOK, Files
<1>4. TypeOK' /\ at'[p] = "replace"
  BY <1>1, <1>3 DEF CacheInv, TypeOK, Points
<1>5. FilesInv'
  BY <1>1, <1>2, <1>4 DEF CacheInv, TypeOK, FilesInv, Coherent
<1>6. Session(p)'
  <2>1. /\ digest[p] = now.copy /\ NotOlder(stage[p], now.copy) /\ Coherent(stage[p])
        /\ temp.copy = stage[p]
    BY <1>1 DEF CacheInv, Session, Loaded
  <2>2. Coherent(stage[p])' /\ NotOlder(stage[p], now.copy)'
    BY <1>1, <2>1 DEF Coherent, NotOlder
  <2> QED
    BY <1>1, <1>3, <1>4, <2>1, <2>2 DEF Session, Loaded
<1> QED
  BY <1>1, <1>2, <1>4, <1>5, <1>6, StepOfOne

LEMMA ReplaceStep ==
  ASSUME CacheInv, NEW p \in Sessions, Replace(p)
  PROVE  CacheInv'
<1>1. /\ at[p] = "replace" /\ at' = [at EXCEPT ![p] = "syncdir"]
      /\ now' = temp /\ temp' = NoFile
      /\ UNCHANGED <<published, disk, holder, cut, stage, digest, asked, told, losses>>
  BY DEF Replace, Goto, World, lockVars
<1>2. \A q \in Sessions : q # p => at[q] = "off"
  BY <1>1, Alone DEF CacheInv
<1>3. TypeOK' /\ at'[p] = "syncdir"
  BY <1>1, FreshCopy DEF CacheInv, TypeOK, Points
<1>4. NotOlder(stage[p], now.copy) /\ Coherent(stage[p]) /\ temp.copy = stage[p] /\ temp.synced
  BY <1>1 DEF CacheInv, Session, Loaded
<1>5. now'.copy = stage[p] /\ now'.synced /\ Coherent(stage[p])' /\ Coherent(now.copy)'
  BY <1>1, <1>4 DEF Coherent
<1>6. NotOlder(now.copy, disk.copy)'
  <2>1. NotOlder(now.copy, disk.copy)
    BY DEF CacheInv, FilesInv
  <2>2. stage[p] \in Copies /\ now.copy \in Copies /\ disk.copy \in Copies
    BY DEF CacheInv, TypeOK, Files
  <2>3. NotOlder(stage[p], disk.copy)
    BY <1>4, <2>1, <2>2, NotOlderTransitive
  <2> QED
    BY <1>1, <1>5, <2>3
<1>7. FilesInv'
  BY <1>1, <1>3, <1>5, <1>6 DEF CacheInv, FilesInv, Coherent
<1>8. Session(p)'
  BY <1>1, <1>3, <1>5 DEF Session, Loaded
<1> QED
  BY <1>1, <1>2, <1>3, <1>7, <1>8, StepOfOne

LEMMA SyncDirectoryStep ==
  ASSUME CacheInv, NEW p \in Sessions, SyncDirectory(p)
  PROVE  CacheInv'
<1> DEFINE to == Back(p)
<1>1. /\ at[p] = "syncdir" /\ at' = [at EXCEPT ![p] = to]
      /\ disk' = now /\ digest' = [digest EXCEPT ![p] = stage[p]]
      /\ UNCHANGED <<published, now, temp, holder, cut, stage, asked, told, losses>>
  BY DEF SyncDirectory, Goto, World, lockVars
<1>2. to \in {"open", "return"}
  BY DEF Back
<1> HIDE DEF to
<1>3. \A q \in Sessions : q # p => at[q] = "off"
  BY <1>1, Alone DEF CacheInv
<1>4. TypeOK' /\ at'[p] = to /\ digest'[p] = stage[p]
  BY <1>1, <1>2 DEF CacheInv, TypeOK, Points
<1>5. now.copy = stage[p] /\ Coherent(stage[p])
  BY <1>1 DEF CacheInv, Session, Loaded
<1>6. now.copy \in Copies /\ disk.copy \in Copies /\ told \in Copies
  BY DEF CacheInv, TypeOK, Files
<1>7. NotOlder(now.copy, now.copy)
  BY <1>6, NotOlderReflexive
<1>8. FilesInv'
  <2>1. cut \/ NotOlder(now.copy, told)
    BY <1>6, NotOlderTransitive DEF CacheInv, FilesInv
  <2> QED
    BY <1>1, <1>7, <2>1 DEF CacheInv, FilesInv, Coherent, NotOlder
<1>9. Session(p)'
  <2>1. Coherent(stage[p])' /\ NotOlder(stage[p], now.copy)'
    BY <1>1, <1>5, <1>7 DEF Coherent, NotOlder
  <2> QED
    BY <1>1, <1>2, <1>4, <1>5, <2>1 DEF Session, Loaded
<1> QED
  BY <1>1, <1>3, <1>4, <1>8, <1>9, StepOfOne

\* What target returns is what the checkpoint says.
LEMMA Returned ==
  ASSUME CacheInv, NEW p \in Sessions, Return(p)
  PROVE  /\ told' = now.copy /\ cut' = cut /\ (cut \/ disk = now)
         /\ (cut \/ NotOlder(now.copy, told))
<1>1. at[p] = "return" /\ told' = stage[p] /\ cut' = cut
  BY DEF Return, Goto, lockVars
<1>2. stage[p] = now.copy
  BY <1>1 DEF CacheInv, Session
<1>3. \A q \in Sessions : at[q] # "syncdir"
  BY <1>1, Alone DEF CacheInv
<1>4. cut \/ disk = now
  BY <1>3 DEF CacheInv, FilesInv
<1> QED
  BY <1>1, <1>2, <1>4 DEF CacheInv, FilesInv

LEMMA ReturnStep ==
  ASSUME CacheInv, NEW p \in Sessions, Return(p)
  PROVE  CacheInv'
<1>1. /\ at[p] = "return" /\ at' = [at EXCEPT ![p] = "open"]
      /\ told' = stage[p] /\ asked' = [asked EXCEPT ![p] = FALSE]
      /\ UNCHANGED <<published, now, disk, temp, holder, cut, stage, digest, losses>>
  BY DEF Return, Goto, cacheVars, lockVars
<1>2. \A q \in Sessions : q # p => at[q] = "off"
  BY <1>1, Alone DEF CacheInv
<1>3. TypeOK' /\ at'[p] = "open"
  BY <1>1 DEF CacheInv, TypeOK, Points
<1>4. now.copy \in Copies /\ NotOlder(now.copy, now.copy)
  BY NotOlderReflexive DEF CacheInv, TypeOK, Files
<1>5. FilesInv'
  <2>1. told' = now.copy /\ (cut \/ disk = now)
    BY Returned
  <2> QED
    BY <1>1, <1>4, <2>1 DEF CacheInv, FilesInv, Coherent, NotOlder
<1>6. Session(p)'
  <2>1. /\ digest[p] = now.copy /\ NotOlder(stage[p], now.copy) /\ Coherent(stage[p])
        /\ now.copy = stage[p]
    BY <1>1 DEF CacheInv, Session, Loaded
  <2>2. Coherent(stage[p])' /\ NotOlder(stage[p], now.copy)'
    BY <1>1, <2>1 DEF Coherent, NotOlder
  <2> QED
    BY <1>1, <1>3, <2>1, <2>2 DEF Session, Loaded
<1> QED
  BY <1>1, <1>2, <1>3, <1>5, <1>6, StepOfOne

(***************************************************************************)
(* Failures, kills, power losses, and the repository.                      *)
(***************************************************************************)
LEMMA FailStep ==
  ASSUME CacheInv, NEW p \in Sessions, Fail(p)
  PROVE  CacheInv'
<1>1. /\ at[p] # "off" /\ at' = [at EXCEPT ![p] = "failed"]
      /\ temp' = (IF at[p] \in {"sync", "replace"} THEN NoFile ELSE temp)
      /\ cut' = (cut \/ at[p] = "syncdir")
      /\ UNCHANGED <<published, now, disk, holder, stage, digest, asked, told, losses>>
  BY DEF Fail, World
<1>2. \A q \in Sessions : q # p => at[q] = "off"
  BY <1>1, Alone DEF CacheInv
<1>3. temp' \in Files /\ cut' \in BOOLEAN
  BY <1>1, FreshCopy DEF CacheInv, TypeOK
<1>4. TypeOK' /\ at'[p] = "failed"
  BY <1>1, <1>3 DEF CacheInv, TypeOK, Points
<1>5. FilesInv'
  BY <1>1, <1>2 DEF CacheInv, FilesInv, Coherent, NotOlder
<1>6. Session(p)'
  BY <1>4 DEF Session, Loaded
<1> QED
  BY <1>1, <1>2, <1>4, <1>5, <1>6, StepOfOne

LEMMA EndStep ==
  ASSUME CacheInv, NEW p \in Sessions, at[p] # "off", End(p),
         cut' = (cut \/ at[p] = "syncdir"), UNCHANGED <<cacheVars, World>>
  PROVE  CacheInv'
<1>1. /\ at' = [at EXCEPT ![p] = "off"] /\ holder' = Nobody
      /\ stage' = [stage EXCEPT ![p] = Fresh] /\ digest' = [digest EXCEPT ![p] = Fresh]
      /\ asked' = [asked EXCEPT ![p] = FALSE]
      /\ UNCHANGED <<published, now, disk, temp, told, losses>>
  BY DEF End, World, cacheVars
<1>2. \A q \in Sessions : q # p => at[q] = "off"
  BY Alone DEF CacheInv
<1>3. cut' \in BOOLEAN
  BY DEF CacheInv, TypeOK
<1>4. TypeOK' /\ at'[p] = "off"
  <2>1. \A q \in Sessions : at'[q] = "off" /\ q # Nobody
    BY <1>1, <1>2, SessionAssumption DEF CacheInv, TypeOK
  <2> QED
    BY <1>1, <1>3, <2>1, FreshCopy DEF CacheInv, TypeOK, Points
<1>5. FilesInv'
  BY <1>1, <1>2 DEF CacheInv, FilesInv, Coherent, NotOlder
<1>6. Session(p)'
  BY <1>4 DEF Session, Loaded
<1> QED
  BY <1>1, <1>2, <1>4, <1>5, <1>6, StepOfOne

\* A file that has been synced survives as it is.
LEMMA KeptSynced ==
  ASSUME NEW f \in Files, f.synced
  PROVE  Kept(f) = f
BY DEF Kept, Files

LEMMA KeptType ==
  ASSUME NEW f \in Files
  PROVE  Kept(f) \in Files
BY FreshCopy DEF Kept, Files

LEMMA PowerLossStep ==
  ASSUME CacheInv, PowerLoss
  PROVE  CacheInv'
<1>1. PICK f \in {now, disk} : now' = Kept(f) /\ disk' = Kept(f)
  BY DEF PowerLoss
<1>2. /\ losses \in 0 .. MaxLosses /\ losses < MaxLosses /\ losses' = losses + 1
      /\ temp' \in {NoFile, Kept(temp)} /\ holder' = Nobody
      /\ at' = [q \in Sessions |-> "off"] /\ asked' = [q \in Sessions |-> FALSE]
      /\ stage' = [q \in Sessions |-> Fresh] /\ digest' = [q \in Sessions |-> Fresh]
      /\ UNCHANGED <<published, told, cut>>
  BY DEF PowerLoss, CacheInv, TypeOK
<1>3. f \in Files /\ f.synced /\ Coherent(f.copy)
  BY DEF CacheInv, TypeOK, FilesInv
<1>4. now' = f /\ disk' = f
  BY <1>1, <1>3, KeptSynced
<1>5. TypeOK'
  <2>1. losses' \in 0 .. MaxLosses
    BY <1>2, BoundAssumption
  <2>2. temp' \in Files
    BY <1>2, FreshCopy, KeptType DEF CacheInv, TypeOK
  <2>3. \A q \in Sessions : at'[q] = "off" /\ q # Nobody
    BY <1>2, SessionAssumption
  <2> QED
    BY <1>2, <1>3, <1>4, <2>1, <2>2, <2>3, FreshCopy DEF CacheInv, TypeOK, Points
<1>6. FilesInv'
  <2>1. cut \/ NotOlder(f.copy, told)
    <3>1. now.copy \in Copies /\ disk.copy \in Copies /\ told \in Copies
      BY DEF CacheInv, TypeOK, Files
    <3> QED
      BY <3>1, NotOlderTransitive DEF CacheInv, FilesInv
  <2>2. NotOlder(f.copy, f.copy)
    BY <1>3, NotOlderReflexive DEF Files
  <2> QED
    BY <1>2, <1>3, <1>4, <2>1, <2>2 DEF FilesInv, Coherent, NotOlder
<1>7. ASSUME NEW q \in Sessions PROVE Session(q)'
  BY <1>2 DEF Session, Loaded
<1> QED
  BY <1>5, <1>6, <1>7 DEF CacheInv

LEMMA PublishStep ==
  ASSUME CacheInv, Publish
  PROVE  CacheInv'
<1>1. /\ published \in 1 .. MaxVersion /\ published < MaxVersion /\ published' = published + 1
      /\ UNCHANGED <<now, disk, temp, holder, cut, at, stage, digest, asked, told, losses>>
  BY DEF Publish, CacheInv, TypeOK, cacheVars, lockVars
<1>2. published' \in 1 .. MaxVersion /\ published <= published'
  BY <1>1, BoundAssumption
<1>3. TypeOK'
  BY <1>1, <1>2 DEF CacheInv, TypeOK
<1>4. ASSUME NEW c \in Copies
      PROVE  /\ Coherent(c) => /\ 1 <= c.root /\ c.root <= published' /\ c.timestamp <= published'
                               /\ c.timestamp = c.targets /\ c.delegated <= c.targets
                               /\ (c.timestamp > 0 => Epoch(c.timestamp) = Epoch(c.root))
             /\ NewRoot(c) => /\ 1 <= c.root /\ c.root <= published' /\ c.timestamp <= published'
                              /\ c.timestamp = c.targets /\ c.delegated <= c.targets
                              /\ (c.timestamp > 0 => Epoch(c.timestamp) <= Epoch(c.root))
             /\ NewTimestamp(c) => /\ 1 <= c.root /\ c.root <= published'
                                   /\ 1 <= c.timestamp /\ c.timestamp <= published'
                                   /\ c.timestamp >= c.targets /\ c.delegated <= c.targets
                                   /\ Epoch(c.timestamp) = Epoch(c.root)
  <2>1. c.root \in Int /\ c.timestamp \in Int
    BY BoundAssumption DEF Copies
  <2> QED
    BY <1>1, <2>1 DEF Coherent, NewRoot, NewTimestamp
<1>5. FilesInv'
  <2>1. now.copy \in Copies /\ disk.copy \in Copies
    BY DEF CacheInv, TypeOK, Files
  <2> QED
    BY <1>1, <1>4, <2>1 DEF CacheInv, FilesInv, Coherent, NotOlder
<1>6. ASSUME NEW q \in Sessions PROVE Session(q)'
  <2>1. stage[q] \in Copies /\ Session(q)
    BY DEF CacheInv, TypeOK
  <2>2. /\ Coherent(stage[q]) => Coherent(stage[q])'
        /\ NewRoot(stage[q]) => NewRoot(stage[q])'
        /\ NewTimestamp(stage[q]) => NewTimestamp(stage[q])'
    BY <1>1, <1>4, <2>1 DEF Coherent, NewRoot, NewTimestamp
  <2>3. NotOlder(stage[q], now.copy) => NotOlder(stage[q], now.copy)'
    BY <1>1 DEF NotOlder
  <2> QED
    BY <1>1, <2>1, <2>2, <2>3 DEF Session
<1> QED
  BY <1>3, <1>5, <1>6 DEF CacheInv

LEMMA StutterStep ==
  ASSUME CacheInv, UNCHANGED vars
  PROVE  CacheInv'
<1>1. UNCHANGED <<published, now, disk, temp, holder, cut, at, stage, digest, asked, told, losses>>
  BY DEF vars, cacheVars, lockVars
<1>2. TypeOK'
  BY <1>1 DEF CacheInv, TypeOK
<1>3. FilesInv'
  BY <1>1 DEF CacheInv, FilesInv, Coherent, NotOlder
<1>4. ASSUME NEW q \in Sessions PROVE Session(q)'
  BY <1>1 DEF CacheInv, Session, Coherent, NewRoot, NewTimestamp, NotOlder
<1> QED
  BY <1>2, <1>3, <1>4 DEF CacheInv

LEMMA InvStep ==
  ASSUME CacheInv, [Next]_vars
  PROVE  CacheInv'
<1>1. ASSUME NEW p \in Sessions, Close(p)
      PROVE  CacheInv'
  <2>1. at[p] # "off" /\ End(p) /\ cut' = (cut \/ at[p] = "syncdir") /\ UNCHANGED <<cacheVars, World>>
    <3>1. at[p] \in {"open", "failed"} /\ End(p) /\ cut' = cut /\ UNCHANGED <<cacheVars, World>>
      BY <1>1 DEF Close
    <3>2. cut' = (cut \/ at[p] = "syncdir")
      BY <3>1 DEF CacheInv, TypeOK
    <3> QED
      BY <3>1, <3>2
  <2> QED
    BY <2>1, EndStep
<1>2. ASSUME NEW p \in Sessions, Kill(p)
      PROVE  CacheInv'
  BY <1>2, EndStep DEF Kill
<1> QED
  BY <1>1, <1>2, EnterStep, LoadStep, RefreshRootStep, RefreshTimestampStep, RefreshTargetsStep,
     CompareStep, WriteStep, SyncStep, ReplaceStep, SyncDirectoryStep, TargetStep, ReturnStep,
     FailStep, PowerLossStep, PublishStep, StutterStep DEF Next

\* The invariant holds in every reachable state.
THEOREM CacheInvariant == Spec => []CacheInv
BY InvInit, InvStep, PTL DEF Spec

\* Every variable stays in its range, and a session has writer.lock exactly as
\* long as it is open (__enter__, close).
THEOREM TypeCorrect == Spec => []TypeOK
BY CacheInvariant, PTL DEF CacheInv

\* Whatever _commit_checkpoint was interrupted by, checkpoint.json is one whole
\* publication, now and after a power loss.
THEOREM CheckpointComplete == Spec => []CheckpointIsComplete
<1>1. ASSUME CacheInv
      PROVE  CheckpointIsComplete
  <2>1. ASSUME NEW f \in {now, disk}
        PROVE  LET c == Kept(f).copy
               IN  /\ c # Torn
                   /\ c.timestamp = c.targets /\ c.delegated <= c.targets
                   /\ c.timestamp > 0 => Epoch(c.timestamp) = Epoch(c.root)
    <3>1. Kept(f) = f /\ Coherent(f.copy)
      BY <1>1, KeptSynced DEF CacheInv, TypeOK, FilesInv
    <3>2. f.copy # Torn
      BY <3>1, FreshCopy DEF Coherent
    <3> QED
      BY <3>1, <3>2 DEF Coherent
  <2> QED
    BY <2>1 DEF CheckpointIsComplete
<1> QED
  BY <1>1, CacheInvariant, PTL

\* As long as no publication was cut before its last sync, the trust that a target
\* was returned under survives every power loss.
THEOREM TrustDurable == Spec => []TrustIsDurable
<1>1. ASSUME CacheInv
      PROVE  TrustIsDurable
  <2>1. Kept(now) = now /\ Kept(disk) = disk
    BY <1>1, KeptSynced DEF CacheInv, TypeOK, FilesInv
  <2>2. now.copy \in Copies /\ disk.copy \in Copies /\ told \in Copies
    BY <1>1 DEF CacheInv, TypeOK, Files
  <2>3. cut \/ (NotOlder(disk.copy, told) /\ NotOlder(now.copy, told))
    BY <1>1, <2>2, NotOlderTransitive DEF CacheInv, FilesInv
  <2> QED
    BY <2>1, <2>3 DEF TrustIsDurable
<1> QED
  BY <1>1, CacheInvariant, PTL

\* target never returns under an older role than before, whatever mirrors answer
\* (as long as no publication was cut before its last sync).
THEOREM NoRollback == Spec => NeverRollsBack
<1>1. ASSUME CacheInv, [Next]_vars
      PROVE  [cut' \/ NotOlder(told', told)]_vars
  <2>1. CASE UNCHANGED vars
    BY <2>1
  <2>2. CASE told' = told
    <3>1. NotOlder(told, told)
      BY <1>1, NotOlderReflexive DEF CacheInv, TypeOK
    <3> QED
      BY <2>2, <3>1
  <2>3. ASSUME NEW p \in Sessions, Return(p)
        PROVE  cut' \/ NotOlder(told', told)
    <3>1. told' = now.copy /\ cut' = cut /\ (cut \/ disk = now) /\ (cut \/ NotOlder(now.copy, told))
      BY <1>1, <2>3, Returned
    <3> QED
      BY <3>1
  <2>4. CASE \E p \in Sessions : \/ Enter(p) \/ Load(p) \/ RefreshRoot(p) \/ RefreshTimestamp(p)
                                 \/ RefreshTargets(p) \/ Compare(p) \/ Write(p) \/ Sync(p) \/ Replace(p)
                                 \/ SyncDirectory(p) \/ Target(p) \/ Fail(p) \/ Close(p) \/ Kill(p)
    <3>1. told' = told
      BY <2>4 DEF Enter, Load, RefreshRoot, RefreshTimestamp, RefreshTargets, Compare, Write, Sync,
                  Replace, SyncDirectory, Target, Fail, Close, Kill, World
    <3> QED
      BY <2>2, <3>1
  <2>5. CASE PowerLoss \/ Publish
    BY <2>2, <2>5 DEF PowerLoss, Publish
  <2> QED
    BY <1>1, <2>1, <2>3, <2>4, <2>5 DEF Next
<1> QED
  BY <1>1, CacheInvariant, PTL DEF NeverRollsBack, Spec
=============================================================================
