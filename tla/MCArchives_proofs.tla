--------------------------- MODULE MCArchives_proofs ---------------------------
(***************************************************************************)
(* What is proved of the programs that MCArchives runs: the authentication *)
(* of a copy of the archive that is being updated, the commands on a media *)
(* directory, and the archive observer; for any publications and sources,  *)
(* any commands, archives and files, any clients, and any bounds.          *)
(***************************************************************************)
EXTENDS MCArchives, TLAPS

(***************************************************************************)
(* The authentication.                                                     *)
(***************************************************************************)

\* What has been read by the time the verification has come so far.
Joined ==
  /\ at \in {"packages", "deb", "release again", "sources", "members", "answer"} => release # Chain!Broken
  /\ at \in {"deb", "release again", "sources", "members", "answer"} =>
       packages = release /\ Binary[release] = asked
  /\ at \in {"sources", "members", "answer"} => again = release
  /\ at \in {"members", "answer"} => sources = release /\ SourceOf[asked] \in Sources[release]
  /\ at = "answer" => files = Members

LEMMA JoinedInit == Chain!Init => Joined
  BY DEF Chain!Init, Joined

LEMMA JoinedStep ==
  ASSUME Joined, Chain!Next \/ UNCHANGED <<chain, shared>>
  PROVE  Joined'
<1>1. CASE Chain!Call \/ Chain!Return \/ Chain!Refuse
  BY <1>1 DEF Chain!Call, Chain!Return, Chain!Refuse, Chain!Goto, Joined
<1>2. CASE Chain!ReadRelease
  BY <1>2 DEF Chain!ReadRelease, Chain!Goto, Joined
<1>3. CASE Chain!ReadPackages
  BY <1>3 DEF Chain!ReadPackages, Chain!Goto, Joined
<1>4. CASE Chain!ReadDeb
  BY <1>4 DEF Chain!ReadDeb, Chain!Goto, Chain!read, Joined
<1>5. CASE Chain!ReadReleaseAgain
  BY <1>5 DEF Chain!ReadReleaseAgain, Chain!Goto, Joined
<1>6. CASE Chain!ReadSources
  BY <1>6 DEF Chain!ReadSources, Chain!Goto, Joined
<1>7. ASSUME NEW m \in Members, Chain!HashMember(m) PROVE Joined'
  BY <1>7 DEF Chain!HashMember, Joined
<1>8. CASE (\E l \in Chain!Listings : Chain!Update(l)) \/ Chain!Break \/ Chain!Repair \/ UNCHANGED <<chain, shared>>
  <2>1. UNCHANGED <<at, asked, release, again, packages, sources, files>>
    BY <1>8 DEF Chain!Update, Chain!Break, Chain!Repair, Chain!read, chain, shared
  <2> QED
    BY <2>1 DEF Joined
<1> QED
  BY <1>1, <1>2, <1>3, <1>4, <1>5, <1>6, <1>7, <1>8 DEF Chain!Next, Chain!Verify

\* A source manifest joins a binary and a source that one and the same Release names, although
\* the files are read one after the other from a copy that changes (verify_source).
THEOREM OneReleaseIsJoined == MCSpec => []OneRelease
<1>1. MCInit => (program = "chain" => Joined)
  BY JoinedInit DEF MCInit
<1>2. (program = "chain" => Joined) /\ [MCNext]_<<program, vars, shared, chain, media, parsers>>
        => (program = "chain" => Joined)'
  <2> SUFFICES ASSUME program = "chain" => Joined, [MCNext]_<<program, vars, shared, chain, media, parsers>>,
                      program' = "chain"
               PROVE  Joined'
    OBVIOUS
  <2>1. program = "chain" /\ (Chain!Next \/ UNCHANGED <<chain, shared>>)
    BY DEF MCNext
  <2> QED
    BY <2>1, JoinedStep
<1>3. (program = "chain" => Joined) => OneRelease
  BY DEF Joined, OneRelease, Chain!OneRelease
<1> QED
  BY <1>1, <1>2, <1>3, PTL DEF MCSpec

-----------------------------------------------------------------------------
(***************************************************************************)
(* The media directory.                                                    *)
(***************************************************************************)

\* What a command has read of the directory that holds it now, or whose token is stale.
Reading(p) == at[p] = "read" =>
  \A f \in Media!Files :
    /\ body[p][f] # Absent /\ f < seen[p] => f \in stale[p] \/ body[p][f] = member[f]
    /\ body[p][f] = Absent => Media!Directory \in stale[p] \/ member[f] = Absent

\* The same, of the moment when all was read.
Looking(p) ==
  /\ at[p] = "same directory" => seen[p] = 1
  /\ at[p] \in {"names again", "same directory"} =>
       \A f \in Media!Files :
         /\ body[p][f] # Absent => f \in stale[p] \/ body[p][f] = moment[p][f]
         /\ body[p][f] = Absent => Media!Directory \in stale[p] \/ moment[p][f] = Absent

\* And of the files that are left to look at again.
Comparing(p) == at[p] = "same files" =>
  \A f \in Media!Files :
    body[p][f] = moment[p][f] \/ (body[p][f] # Absent /\ f >= seen[p] /\ f \in stale[p])

\* A command that has looked at everything twice has read one moment of the directory.
Compared(p) ==
  at[p] \in {"same toc", "create", "write", "sync", "replace", "sync directory", "answer"} \/ temp[p] # "none" =>
    body[p] = moment[p]

\* A temporary file gets its name only after its sync.
Synced(p) ==
  /\ at[p] \in {"off", "toc", "directory", "names", "read"} => temp[p] = "none"
  /\ temp[p] = "torn" => at[p] = "write"
  /\ temp[p] = "written" => at[p] = "sync"
  /\ at[p] = "replace" => temp[p] = "synced"

History == member \in past /\ Media!Nothing \in past /\ \A p \in Commands : moment[p] \in past

Command(p) == Reading(p) /\ Looking(p) /\ Comparing(p) /\ Compared(p) /\ Synced(p)

MediaInv ==
  /\ Media!TypeOK
  /\ \A p \in Commands : Command(p)
  /\ History /\ Media!IndexIsTrue

\* The other commands are where they were, with what they had read.
Others(p) == \A q \in Commands : q # p =>
  /\ at'[q] = at[q] /\ body'[q] = body[q] /\ seen'[q] = seen[q]
  /\ temp'[q] = temp[q] /\ stale'[q] = stale[q] /\ moment'[q] = moment[q]

LEMMA MediaFacts ==
  /\ LastFile \in Nat \ {0} /\ MaxChanges \in Nat /\ MaxLosses \in Nat
  /\ Media!Nothing \in Media!Contents /\ \A f \in Media!Files : Media!Nothing[f] = Absent
  /\ Media!Files = 1 .. LastFile /\ Media!Directory = 0 /\ Media!Toc = LastFile + 1
  BY OtherAssumptions
     DEF Media!ValueAssumption, Media!BoundAssumption, Media!Nothing, Media!Contents, Media!Files, Media!Directory,
         Media!Toc

\* A step of one command leaves the others as they are.
LEMMA OneCommand ==
  ASSUME MediaInv, NEW p \in Commands, Others(p), UNCHANGED <<member, past>>,
         Media!TypeOK', Command(p)', moment'[p] \in past, Media!IndexIsTrue'
  PROVE  MediaInv'
<1>1. \A q \in Commands : Command(q)'
  <2> SUFFICES ASSUME NEW q \in Commands, q # p PROVE Command(q)'
    OBVIOUS
  <2>1. Command(q)
    BY DEF MediaInv
  <2>2. /\ at'[q] = at[q] /\ body'[q] = body[q] /\ seen'[q] = seen[q]
        /\ temp'[q] = temp[q] /\ stale'[q] = stale[q] /\ moment'[q] = moment[q] /\ member' = member
    BY DEF Others
  <2>3. Media!Directory' = Media!Directory /\ Media!Files' = Media!Files
    BY DEF Media!Directory, Media!Files
  <2>4. Reading(q)' /\ Looking(q)'
    BY <2>1, <2>2, <2>3 DEF Command, Reading, Looking
  <2>5. Comparing(q)' /\ Compared(q)' /\ Synced(q)'
    BY <2>1, <2>2, <2>3 DEF Command, Comparing, Compared, Synced
  <2> QED
    BY <2>4, <2>5 DEF Command
<1>2. History'
  <2>1. Media!Nothing' = Media!Nothing
    BY DEF Media!Nothing
  <2> QED
    BY <2>1 DEF MediaInv, History, Others
<1> QED
  BY <1>1, <1>2 DEF MediaInv

\* The first steps: a lock, the index, and the directory's token.
LEMMA BeginStep ==
  ASSUME MediaInv, NEW p \in Commands, Media!Open(p) \/ Media!ReadToc(p) \/ Media!StatDirectory(p)
  PROVE  MediaInv'
<1> USE MediaFacts
<1>1. /\ at[p] \in {"off", "toc", "directory"}
      /\ \E to \in {"toc", "directory", "names"} : at' = [at EXCEPT ![p] = to]
      /\ \E m \in {"list", "index"} : mode' = [mode EXCEPT ![p] = m]
      /\ \E o \in Media!Contents \cup {Absent} : old' = [old EXCEPT ![p] = o]
      /\ \E t \in SUBSET Media!Tokens : stale' = [stale EXCEPT ![p] = t]
      /\ UNCHANGED <<member, past, changes, toc, disk, losses, body, seen, temp, moment>>
  <2> USE DEF MediaInv, Media!TypeOK
  <2>1. /\ mode = [mode EXCEPT ![p] = mode[p]] /\ mode[p] \in {"list", "index"}
        /\ old = [old EXCEPT ![p] = old[p]] /\ old[p] \in Media!Contents \cup {Absent}
        /\ stale = [stale EXCEPT ![p] = stale[p]] /\ stale[p] \in SUBSET Media!Tokens
    OBVIOUS
  <2>2. CASE Media!Open(p)
    BY <2>1, <2>2 DEF Media!Open, Media!Goto, Media!media, Media!index, Media!reading
  <2>3. CASE Media!ReadToc(p)
    BY <2>1, <2>3 DEF Media!ReadToc, Media!Goto, Media!Fresh, Media!media, Media!index
  <2>4. CASE Media!StatDirectory(p)
    BY <2>1, <2>4 DEF Media!StatDirectory, Media!Goto, Media!Fresh, Media!media, Media!index, Media!reading
  <2> QED
    BY <2>2, <2>3, <2>4
<1>2. Media!TypeOK'
  <2> USE DEF MediaInv, Media!TypeOK
  <2>1. at' \in [Commands -> Media!Stages]
    BY <1>1 DEF Media!Stages
  <2>2. mode' \in [Commands -> {"list", "index"}]
    BY <1>1
  <2>3. old' \in [Commands -> Media!Contents \cup {Absent}]
    BY <1>1
  <2>4. stale' \in [Commands -> SUBSET Media!Tokens]
    BY <1>1
  <2> QED
    BY <1>1, <2>1, <2>2, <2>3, <2>4
<1>3. Others(p)
  BY <1>1 DEF Others, MediaInv, Media!TypeOK
<1>4. at'[p] \in {"toc", "directory", "names"}
  BY <1>1 DEF MediaInv, Media!TypeOK
<1>5. Command(p)'
  BY <1>1, <1>4 DEF MediaInv, Command, Reading, Looking, Comparing, Compared, Synced
<1>6. moment'[p] \in past /\ Media!IndexIsTrue'
  BY <1>1 DEF MediaInv, History, Media!IndexIsTrue
<1> QED
  BY <1>1, <1>2, <1>3, <1>5, <1>6, OneCommand

LEMMA BeyondAll ==
  ASSUME NEW n \in Nat, NEW s \in 1 .. n + 1, s \notin 1 .. n
  PROVE  \A f \in 1 .. n : f < s
  OBVIOUS

\* The names, and then the files, one by one.
LEMMA ReadStep ==
  ASSUME MediaInv, NEW p \in Commands, Media!ListNames(p) \/ Media!Read(p) \/ Media!HaveRead(p)
  PROVE  MediaInv'
<1> USE MediaFacts
<1>1. CASE Media!ListNames(p)
  <2>1. /\ at[p] = "names" /\ at' = [at EXCEPT ![p] = "read"]
        /\ body' = [body EXCEPT ![p] = member] /\ seen' = [seen EXCEPT ![p] = 1]
        /\ UNCHANGED <<member, past, changes, toc, disk, losses, mode, old, temp, stale, moment>>
    BY <1>1 DEF Media!ListNames, Media!Goto, Media!media, Media!index
  <2>2. Media!TypeOK'
    <3> USE DEF MediaInv, Media!TypeOK
    <3>1. at' \in [Commands -> Media!Stages]
      BY <2>1 DEF Media!Stages
    <3>2. body' \in [Commands -> Media!Contents]
      BY <2>1
    <3>3. seen' \in [Commands -> 1 .. LastFile + 1]
      BY <2>1
    <3> QED
      BY <2>1, <3>1, <3>2, <3>3
  <2>3. Others(p)
    BY <2>1 DEF Others, MediaInv, Media!TypeOK
  <2>4. at'[p] = "read" /\ body'[p] = member /\ seen'[p] = 1 /\ temp[p] = "none"
    BY <2>1 DEF MediaInv, Media!TypeOK, Command, Synced
  <2>5. Command(p)'
    BY <2>1, <2>4 DEF Command, Reading, Looking, Comparing, Compared, Synced
  <2>6. moment'[p] \in past /\ Media!IndexIsTrue'
    BY <2>1 DEF MediaInv, History, Media!IndexIsTrue
  <2> QED
    BY <2>1, <2>2, <2>3, <2>5, <2>6, OneCommand
<1>2. CASE Media!Read(p)
  <2> DEFINE f == seen[p]
  <2>1. /\ at[p] = "read" /\ f \in Media!Files /\ seen' = [seen EXCEPT ![p] = f + 1]
        /\ UNCHANGED <<member, past, changes, toc, disk, losses, at, mode, old, temp, moment>>
    BY <1>2 DEF Media!Read, Media!media, Media!index
  <2>2. \/ /\ body[p][f] # Absent /\ member[f] # Absent
           /\ body' = [body EXCEPT ![p] = [body[p] EXCEPT ![f] = member[f]]]
           /\ stale' = [stale EXCEPT ![p] = stale[p] \ {f}]
        \/ body[p][f] = Absent /\ body' = body /\ stale' = stale
    BY <1>2, <2>1 DEF Media!Read, Media!Names, Media!Fresh, MediaInv, Media!TypeOK
  <2> HIDE DEF f
  <2>3. body[p] \in Media!Contents /\ member \in Media!Contents /\ stale[p] \in SUBSET Media!Tokens
    BY DEF MediaInv, Media!TypeOK
  <2>4. /\ body'[p] \in Media!Contents /\ stale'[p] \in SUBSET Media!Tokens
        /\ \A g \in Media!Files : g # f => body'[p][g] = body[p][g] /\ (g \in stale[p] => g \in stale'[p])
        /\ Media!Directory \in stale[p] => Media!Directory \in stale'[p]
        /\ body[p][f] = Absent => body'[p][f] = Absent
        /\ body[p][f] # Absent => body'[p][f] # Absent /\ body'[p][f] = member[f]
    <3>1. CASE body' = body /\ stale' = stale /\ body[p][f] = Absent
      BY <2>3, <3>1
    <3>2. CASE /\ body[p][f] # Absent /\ member[f] # Absent
               /\ body' = [body EXCEPT ![p] = [body[p] EXCEPT ![f] = member[f]]]
               /\ stale' = [stale EXCEPT ![p] = stale[p] \ {f}]
      <4>1. body'[p] = [body[p] EXCEPT ![f] = member[f]] /\ stale'[p] = stale[p] \ {f}
        BY <3>2 DEF MediaInv, Media!TypeOK
      <4>2. [body[p] EXCEPT ![f] = member[f]] \in Media!Contents
        BY <2>1, <2>3 DEF Media!Contents
      <4>3. \A g \in Media!Files : [body[p] EXCEPT ![f] = member[f]][g] = IF g = f THEN member[f] ELSE body[p][g]
        BY <2>3 DEF Media!Contents
      <4>4. Media!Directory # f
        BY <2>1
      <4> QED
        BY <2>1, <2>3, <3>2, <4>1, <4>2, <4>3, <4>4
    <3> QED
      BY <2>2, <3>1, <3>2
  <2>5. Others(p)
    BY <2>1, <2>2 DEF Others, MediaInv, Media!TypeOK
  <2>6. Media!TypeOK'
    <3> USE DEF MediaInv, Media!TypeOK
    <3>1. seen' \in [Commands -> 1 .. LastFile + 1]
      BY <2>1
    <3>2. body' \in [Commands -> Media!Contents]
      BY <2>2, <2>4
    <3>3. stale' \in [Commands -> SUBSET Media!Tokens]
      BY <2>2, <2>4
    <3> QED
      BY <2>1, <3>1, <3>2, <3>3
  <2>7. seen'[p] = f + 1 /\ at'[p] = "read" /\ temp[p] = "none"
    BY <2>1 DEF MediaInv, Media!TypeOK, Command, Synced
  <2>8. Reading(p)'
    <3> SUFFICES ASSUME NEW g \in Media!Files
                 PROVE  /\ body'[p][g] # Absent /\ g < seen'[p] => g \in stale'[p] \/ body'[p][g] = member[g]
                        /\ body'[p][g] = Absent => Media!Directory \in stale'[p] \/ member[g] = Absent
      BY <2>1 DEF Reading, Media!Files, Media!Directory
    <3>1. /\ body[p][g] # Absent /\ g < f => g \in stale[p] \/ body[p][g] = member[g]
          /\ body[p][g] = Absent => Media!Directory \in stale[p] \/ member[g] = Absent
      BY <2>1 DEF MediaInv, Command, Reading, f
    <3>2. CASE g = f
      BY <2>4, <3>1, <3>2
    <3>3. CASE g # f
      <4>1. g < seen'[p] => g < f
        BY <2>1, <2>7, <3>3
      <4> QED
        BY <2>4, <3>1, <3>3, <4>1
    <3> QED
      BY <3>2, <3>3
  <2>9. Command(p)'
    BY <2>1, <2>7, <2>8 DEF Command, Looking, Comparing, Compared, Synced
  <2>10. moment'[p] \in past /\ Media!IndexIsTrue'
    BY <2>1 DEF MediaInv, History, Media!IndexIsTrue
  <2> QED
    BY <2>1, <2>5, <2>6, <2>9, <2>10, OneCommand
<1>3. CASE Media!HaveRead(p)
  <2>1. /\ at[p] = "read" /\ at' = [at EXCEPT ![p] = "names again"] /\ seen[p] \notin Media!Files
        /\ moment' = [moment EXCEPT ![p] = member]
        /\ UNCHANGED <<member, past, changes, toc, disk, losses, mode, old, body, seen, temp, stale>>
    BY <1>3 DEF Media!HaveRead, Media!Goto, Media!media, Media!index, Media!reading
  <2>2. Media!TypeOK'
    <3> USE DEF MediaInv, Media!TypeOK
    <3>1. at' \in [Commands -> Media!Stages] /\ moment' \in [Commands -> Media!Contents]
      BY <2>1 DEF Media!Stages
    <3> QED
      BY <2>1, <3>1
  <2>3. Others(p)
    BY <2>1 DEF Others, MediaInv, Media!TypeOK
  <2>4. at'[p] = "names again" /\ moment'[p] = member /\ temp[p] = "none"
    BY <2>1 DEF MediaInv, Media!TypeOK, Command, Synced
  <2>5. \A f \in Media!Files : f < seen[p]
    <3>1. seen[p] \in 1 .. LastFile + 1
      BY DEF MediaInv, Media!TypeOK
    <3> QED
      BY <2>1, <3>1, BeyondAll DEF Media!Files
  <2>6. Looking(p)'
    BY <2>1, <2>4, <2>5 DEF MediaInv, Command, Reading, Looking, Media!Files, Media!Directory
  <2>7. Command(p)'
    BY <2>1, <2>4, <2>6 DEF Command, Reading, Comparing, Compared, Synced
  <2>8. moment'[p] \in past /\ Media!IndexIsTrue'
    BY <2>1, <2>4 DEF MediaInv, History, Media!IndexIsTrue
  <2> QED
    BY <2>1, <2>2, <2>3, <2>7, <2>8, OneCommand
<1> QED
  BY <1>1, <1>2, <1>3

\* A step that moves one command, and gives it another file of its loop or another
\* temporary file, but reads nothing and leaves the directory and the index alone.
Moves(p, to, f, t) ==
  /\ at' = [at EXCEPT ![p] = to] /\ seen' = [seen EXCEPT ![p] = f] /\ temp' = [temp EXCEPT ![p] = t]
  /\ UNCHANGED <<member, past, changes, toc, disk, losses, mode, old, body, stale, moment>>

Turns == {"same directory", "same files", "same toc", "create", "write", "sync", "names again", "replace", "answer"}
Temps  == {"none", "torn", "written", "synced"}

LEMMA MoveStep ==
  ASSUME MediaInv, NEW p \in Commands, NEW to \in Turns, NEW f \in 1 .. LastFile + 1, NEW t \in Temps,
         Moves(p, to, f, t)
  PROVE  /\ at'[p] = to /\ seen'[p] = f /\ temp'[p] = t
         /\ Command(p)' => MediaInv'
<1> USE MediaFacts DEF Moves
<1>1. at'[p] = to /\ seen'[p] = f /\ temp'[p] = t
  BY DEF MediaInv, Media!TypeOK
<1>2. Media!TypeOK'
  <2> USE DEF MediaInv, Media!TypeOK
  <2>1. at' \in [Commands -> Media!Stages]
    BY DEF Media!Stages, Turns
  <2>2. seen' \in [Commands -> 1 .. LastFile + 1]
    OBVIOUS
  <2>3. temp' \in [Commands -> Temps]
    BY DEF Temps
  <2> QED
    BY <2>1, <2>2, <2>3 DEF Temps
<1>3. Others(p)
  BY DEF Others, MediaInv, Media!TypeOK
<1>4. moment'[p] \in past /\ Media!IndexIsTrue'
  BY DEF MediaInv, History, Media!IndexIsTrue
<1> QED
  BY <1>1, <1>2, <1>3, <1>4, OneCommand

\* What a command holds, as the steps below need it.
LEMMA CommandFacts ==
  ASSUME MediaInv, NEW p \in Commands
  PROVE  /\ seen = [seen EXCEPT ![p] = seen[p]] /\ seen[p] \in 1 .. LastFile + 1
         /\ temp = [temp EXCEPT ![p] = temp[p]] /\ temp[p] \in Temps /\ 1 \in 1 .. LastFile + 1
         /\ at = [at EXCEPT ![p] = at[p]] /\ at[p] \in Media!Stages
         /\ body[p] \in Media!Contents /\ moment[p] \in Media!Contents /\ moment[p] \in past
         /\ Command(p)
  BY MediaFacts DEF MediaInv, Media!TypeOK, History, Temps

LEMMA PlaceFacts ==
  /\ "same directory" \in Turns /\ "same files" \in Turns /\ "same toc" \in Turns /\ "create" \in Turns
  /\ "write" \in Turns /\ "sync" \in Turns /\ "names again" \in Turns /\ "replace" \in Turns
  /\ "answer" \in Turns /\ "none" \in Temps /\ "torn" \in Temps /\ "written" \in Temps /\ "synced" \in Temps
  BY DEF Turns, Temps

\* The names again, and the directory's token.
LEMMA AgainStep ==
  ASSUME MediaInv, NEW p \in Commands, Media!NamesAgain(p) \/ Media!SameDirectory(p)
  PROVE  MediaInv'
<1> USE MediaFacts
<1>0. Command(p) /\ seen[p] \in 1 .. LastFile + 1 /\ temp[p] \in Temps /\ 1 \in 1 .. LastFile + 1
      /\ body[p] \in Media!Contents /\ moment[p] \in Media!Contents /\ moment[p] \in past
  BY CommandFacts
<1> USE <1>0
<1>1. CASE Media!NamesAgain(p) /\ temp[p] = "none"
  <2>1. at[p] = "names again" /\ Moves(p, "same directory", 1, temp[p])
    BY <1>1, CommandFacts DEF Media!NamesAgain, Media!Goto, Media!media, Media!index, Moves
  <2>2. at'[p] = "same directory" /\ seen'[p] = 1 /\ temp'[p] = "none" /\ (Command(p)' => MediaInv')
    BY <1>1, <2>1, MoveStep, PlaceFacts
  <2>3. Looking(p)'
    BY <2>1, <2>2 DEF Command, Looking, Moves, Media!Files, Media!Directory
  <2>4. Command(p)'
    BY <2>1, <2>2, <2>3 DEF Command, Reading, Comparing, Compared, Synced, Moves
  <2> QED
    BY <2>2, <2>4
<1>2. CASE Media!NamesAgain(p) /\ temp[p] # "none"
  <2>1. at[p] = "names again" /\ Moves(p, "same files", 1, temp[p])
    BY <1>2, CommandFacts DEF Media!NamesAgain, Media!Goto, Media!media, Media!index, Moves
  <2>2. at'[p] = "same files" /\ seen'[p] = 1 /\ temp'[p] = temp[p] /\ (Command(p)' => MediaInv')
    BY <1>2, <2>1, MoveStep, PlaceFacts
  <2>3. body'[p] = moment'[p]
    BY <1>2, <2>1 DEF Command, Compared, Moves
  <2>4. temp[p] = "synced"
    BY <1>2, <2>1 DEF Command, Synced, Temps
  <2>5. Command(p)'
    BY <2>2, <2>3, <2>4 DEF Command, Reading, Looking, Comparing, Compared, Synced
  <2> QED
    BY <2>2, <2>5
<1>3. CASE Media!SameDirectory(p)
  <2>1. at[p] = "same directory" /\ Media!Directory \notin stale[p] /\ Moves(p, "same files", seen[p], temp[p])
    BY <1>3, CommandFacts DEF Media!SameDirectory, Media!Goto, Media!media, Media!index, Media!reading, Moves
  <2>2. at'[p] = "same files" /\ seen'[p] = seen[p] /\ temp'[p] = temp[p] /\ (Command(p)' => MediaInv')
    BY <2>1, MoveStep, PlaceFacts
  <2>3. seen[p] = 1
    BY <2>1 DEF Command, Looking
  <2>4. \A f \in Media!Files : f >= seen[p]
    BY <2>3 DEF Media!Files
  <2>5. Comparing(p)'
    BY <2>1, <2>2, <2>4 DEF Command, Looking, Comparing, Moves, Media!Files
  <2>6. Command(p)'
    BY <2>1, <2>2, <2>5 DEF Command, Reading, Looking, Compared, Synced, Moves
  <2> QED
    BY <2>2, <2>6
<1> QED
  BY <1>1, <1>2, <1>3

\* The token of every file that has been read; what differs from the moment is found.
LEMMA FilesStep ==
  ASSUME MediaInv, NEW p \in Commands, Media!SameFiles(p)
  PROVE  MediaInv'
<1> USE MediaFacts
<1>0. Command(p) /\ seen[p] \in 1 .. LastFile + 1 /\ temp[p] \in Temps /\ 1 \in 1 .. LastFile + 1
      /\ body[p] \in Media!Contents /\ moment[p] \in Media!Contents /\ moment[p] \in past
  BY CommandFacts
<1> USE <1>0
<1>1. at[p] = "same files" /\ Comparing(p)
  BY DEF Media!SameFiles, Command
<1>2. CASE seen[p] \in Media!Files
  <2>1. (body[p][seen[p]] # Absent => seen[p] \notin stale[p]) /\ Moves(p, "same files", seen[p] + 1, temp[p])
    BY <1>1, <1>2, CommandFacts DEF Media!SameFiles, Media!Names, Media!media, Media!index, Moves
  <2>2. seen[p] + 1 \in 1 .. LastFile + 1
    BY <1>2
  <2>3. at'[p] = "same files" /\ seen'[p] = seen[p] + 1 /\ temp'[p] = temp[p] /\ (Command(p)' => MediaInv')
    BY <2>1, <2>2, MoveStep, PlaceFacts
  <2>4. Comparing(p)'
    <3> SUFFICES ASSUME NEW f \in Media!Files
                 PROVE  body[p][f] = moment[p][f] \/ (body[p][f] # Absent /\ f >= seen[p] + 1 /\ f \in stale[p])
      BY <2>1, <2>3 DEF Comparing, Moves, Media!Files
    <3>1. body[p][f] = moment[p][f] \/ (body[p][f] # Absent /\ f >= seen[p] /\ f \in stale[p])
      BY <1>1 DEF Comparing
    <3>2. f # seen[p] /\ f >= seen[p] => f >= seen[p] + 1
      OBVIOUS
    <3> QED
      BY <2>1, <3>1, <3>2
  <2>5. Command(p)'
    BY <1>1, <2>1, <2>3, <2>4 DEF Command, Reading, Looking, Compared, Synced, Moves
  <2> QED
    BY <2>3, <2>5
<1>3. CASE seen[p] \notin Media!Files
  <2>1. Moves(p, "same toc", seen[p], temp[p])
    BY <1>1, <1>3, CommandFacts DEF Media!SameFiles, Media!media, Media!index, Moves
  <2>2. at'[p] = "same toc" /\ temp'[p] = temp[p] /\ (Command(p)' => MediaInv')
    BY <2>1, MoveStep, PlaceFacts
  <2>3. \A f \in Media!Files : ~(f >= seen[p])
    BY <1>3
  <2>4. \A f \in Media!Files : body[p][f] = moment[p][f]
    BY <1>1, <2>3 DEF Comparing
  <2>5. body[p] = moment[p]
    <3>1. body[p] \in [Media!Files -> Archives \cup {Absent}] /\ moment[p] \in [Media!Files -> Archives \cup {Absent}]
      BY DEF Media!Contents
    <3> QED
      BY <2>4, <3>1
  <2>6. Command(p)'
    BY <1>1, <2>1, <2>2, <2>5 DEF Command, Reading, Looking, Comparing, Compared, Synced, Moves
  <2> QED
    BY <2>2, <2>6
<1> QED
  BY <1>2, <1>3

\* The index again, and the steps of the temporary file.
LEMMA WriteStep ==
  ASSUME MediaInv, NEW p \in Commands,
         Media!SameToc(p) \/ Media!Create(p) \/ Media!Write(p) \/ Media!Sync(p)
  PROVE  MediaInv'
<1> USE MediaFacts
<1>0. Command(p) /\ seen[p] \in 1 .. LastFile + 1 /\ temp[p] \in Temps /\ 1 \in 1 .. LastFile + 1
      /\ body[p] \in Media!Contents /\ moment[p] \in Media!Contents /\ moment[p] \in past
  BY CommandFacts
<1> USE <1>0
<1>1. body[p] = moment[p]
  BY DEF Media!SameToc, Media!Create, Media!Write, Media!Sync, Media!Goto, Command, Compared
<1>2. CASE Media!SameToc(p)
  <2>1. temp[p] \in {"none", "synced"}
    BY <1>2 DEF Media!SameToc, Command, Synced, Temps
  <2>2. PICK to \in {"answer", "create", "replace"} :
          Moves(p, to, seen[p], temp[p]) /\ (to = "replace" => temp[p] # "none")
    BY <1>2, CommandFacts DEF Media!SameToc, Media!media, Media!index, Media!reading, Moves
  <2>3. at'[p] = to /\ temp'[p] = temp[p] /\ (Command(p)' => MediaInv')
    BY <2>2, MoveStep, PlaceFacts
  <2>4. Command(p)'
    BY <1>1, <2>1, <2>2, <2>3 DEF Command, Reading, Looking, Comparing, Compared, Synced, Moves
  <2> QED
    BY <2>3, <2>4
<1>3. CASE Media!Create(p)
  <2>1. Moves(p, "write", seen[p], "torn")
    BY <1>3, CommandFacts DEF Media!Create, Media!Goto, Media!media, Media!index, Media!reading, Moves
  <2>2. at'[p] = "write" /\ temp'[p] = "torn" /\ (Command(p)' => MediaInv')
    BY <2>1, MoveStep, PlaceFacts
  <2>3. Command(p)'
    BY <1>1, <2>1, <2>2 DEF Command, Reading, Looking, Comparing, Compared, Synced, Moves
  <2> QED
    BY <2>2, <2>3
<1>4. CASE Media!Write(p)
  <2>1. Moves(p, "sync", seen[p], "written")
    BY <1>4, CommandFacts DEF Media!Write, Media!Goto, Media!media, Media!index, Media!reading, Moves
  <2>2. at'[p] = "sync" /\ temp'[p] = "written" /\ (Command(p)' => MediaInv')
    BY <2>1, MoveStep, PlaceFacts
  <2>3. Command(p)'
    BY <1>1, <2>1, <2>2 DEF Command, Reading, Looking, Comparing, Compared, Synced, Moves
  <2> QED
    BY <2>2, <2>3
<1>5. CASE Media!Sync(p)
  <2>1. Moves(p, "names again", seen[p], "synced")
    BY <1>5, CommandFacts DEF Media!Sync, Media!Goto, Media!media, Media!index, Media!reading, Moves
  <2>2. at'[p] = "names again" /\ temp'[p] = "synced" /\ (Command(p)' => MediaInv')
    BY <2>1, MoveStep, PlaceFacts
  <2>3. body'[p] = moment'[p]
    BY <1>1, <2>1 DEF Moves
  <2>4. Command(p)'
    BY <2>2, <2>3 DEF Command, Reading, Looking, Comparing, Compared, Synced
  <2> QED
    BY <2>2, <2>4
<1> QED
  BY <1>2, <1>3, <1>4, <1>5

\* The index gets its name, and then for good: it is what the command has compared.
LEMMA ReplaceStep ==
  ASSUME MediaInv, NEW p \in Commands, Media!Replace(p) \/ Media!SyncDirectory(p)
  PROVE  MediaInv'
<1> USE MediaFacts
<1>0. Command(p) /\ seen[p] \in 1 .. LastFile + 1 /\ temp[p] \in Temps /\ 1 \in 1 .. LastFile + 1
      /\ body[p] \in Media!Contents /\ moment[p] \in Media!Contents /\ moment[p] \in past
  BY CommandFacts
<1> USE <1>0
<1>1. CASE Media!Replace(p)
  <2>1. /\ at[p] = "replace" /\ at' = [at EXCEPT ![p] = "sync directory"] /\ temp' = [temp EXCEPT ![p] = "none"]
        /\ toc' = body[p] /\ (temp[p] = "synced" => disk' = disk)
        /\ UNCHANGED <<member, past, changes, losses, mode, old, body, seen, stale, moment>>
    BY <1>1 DEF Media!Replace, Media!Goto, Media!media, Media!reading
  <2>2. temp[p] = "synced" /\ body[p] = moment[p] /\ toc' = moment[p] /\ disk' = disk
    BY <2>1 DEF Command, Synced, Compared
  <2>3. Media!TypeOK'
    <3> USE DEF MediaInv, Media!TypeOK
    <3>1. at' \in [Commands -> Media!Stages]
      BY <2>1 DEF Media!Stages
    <3>2. temp' \in [Commands -> {"none", "torn", "written", "synced"}]
      BY <2>1
    <3>3. toc' \in Media!Contents /\ disk' = disk
      BY <2>2
    <3> QED
      BY <2>1, <3>1, <3>2, <3>3
  <2>4. Others(p) /\ at'[p] = "sync directory" /\ temp'[p] = "none"
    BY <2>1 DEF Others, MediaInv, Media!TypeOK
  <2>5. Command(p)'
    BY <2>1, <2>2, <2>4 DEF Command, Reading, Looking, Comparing, Compared, Synced
  <2>6. moment'[p] \in past /\ Media!IndexIsTrue'
    BY <2>1, <2>2 DEF MediaInv, Media!IndexIsTrue
  <2> QED
    BY <2>1, <2>3, <2>4, <2>5, <2>6, OneCommand
<1>2. CASE Media!SyncDirectory(p)
  <2>1. /\ at[p] = "sync directory" /\ at' = [at EXCEPT ![p] = "answer"] /\ disk' = toc
        /\ UNCHANGED <<member, past, changes, toc, losses, mode, old, body, seen, temp, stale, moment>>
    BY <1>2 DEF Media!SyncDirectory, Media!Goto, Media!media, Media!reading
  <2>2. Media!TypeOK'
    <3> USE DEF MediaInv, Media!TypeOK
    <3>1. at' \in [Commands -> Media!Stages]
      BY <2>1 DEF Media!Stages
    <3> QED
      BY <2>1, <3>1
  <2>3. Others(p) /\ at'[p] = "answer"
    BY <2>1 DEF Others, MediaInv, Media!TypeOK
  <2>4. Command(p)'
    BY <2>1, <2>3 DEF Command, Reading, Looking, Comparing, Compared, Synced
  <2>5. moment'[p] \in past /\ Media!IndexIsTrue'
    BY <2>1 DEF MediaInv, Media!IndexIsTrue
  <2> QED
    BY <2>1, <2>2, <2>3, <2>4, <2>5, OneCommand
<1> QED
  BY <1>1, <1>2

\* Nothing is left of a command that has ended.
LEMMA EndStep ==
  ASSUME MediaInv, NEW p \in Commands, Media!Return(p) \/ Media!Raise(p)
  PROVE  MediaInv'
<1> USE MediaFacts
<1>1. /\ at' = [at EXCEPT ![p] = "off"] /\ mode' = [mode EXCEPT ![p] = "list"]
      /\ old' = [old EXCEPT ![p] = Absent] /\ body' = [body EXCEPT ![p] = Media!Nothing]
      /\ seen' = [seen EXCEPT ![p] = 1] /\ temp' = [temp EXCEPT ![p] = "none"]
      /\ stale' = [stale EXCEPT ![p] = {}] /\ moment' = [moment EXCEPT ![p] = Media!Nothing]
      /\ UNCHANGED <<member, past, changes, toc, disk, losses>>
  BY DEF Media!Return, Media!Raise, Media!Forget, Media!media, Media!index
<1>2. Media!TypeOK'
  <2> USE DEF MediaInv, Media!TypeOK
  <2>1. at' \in [Commands -> Media!Stages]
    BY <1>1 DEF Media!Stages
  <2>2. mode' \in [Commands -> {"list", "index"}] /\ old' \in [Commands -> Media!Contents \cup {Absent}]
    BY <1>1
  <2>3. body' \in [Commands -> Media!Contents] /\ moment' \in [Commands -> Media!Contents]
    BY <1>1
  <2>4. seen' \in [Commands -> 1 .. LastFile + 1]
    BY <1>1
  <2>5. temp' \in [Commands -> {"none", "torn", "written", "synced"}] /\ stale' \in [Commands -> SUBSET Media!Tokens]
    BY <1>1
  <2> QED
    BY <1>1, <2>1, <2>2, <2>3, <2>4, <2>5
<1>3. Others(p) /\ at'[p] = "off" /\ temp'[p] = "none" /\ moment'[p] = Media!Nothing
  BY <1>1 DEF Others, MediaInv, Media!TypeOK
<1>4. Command(p)'
  BY <1>3 DEF Command, Reading, Looking, Comparing, Compared, Synced
<1>5. moment'[p] \in past /\ Media!IndexIsTrue'
  BY <1>1, <1>3 DEF MediaInv, History, Media!IndexIsTrue
<1> QED
  BY <1>1, <1>2, <1>3, <1>4, <1>5, OneCommand

\* A writer changes one file: every command's token of it is stale, and the directory's
\* when a name comes or goes.
LEMMA ChangeStep ==
  ASSUME MediaInv, NEW f \in Media!Files, Media!Change(f)
  PROVE  MediaInv'
<1> USE MediaFacts
<1>1. PICK c \in Archives \cup {Absent} :
        /\ member' = [member EXCEPT ![f] = c]
        /\ Media!Notice({f} \cup (IF Absent \in {c, member[f]} THEN {Media!Directory} ELSE {}))
  BY DEF Media!Change
<1>2. /\ changes < MaxChanges /\ changes' = changes + 1 /\ past' = past \cup {member'}
      /\ UNCHANGED <<toc, disk, losses, at, mode, old, body, seen, temp, moment>>
  BY DEF Media!Change, Media!index, Media!reading
<1>3. /\ member \in [Media!Files -> Archives \cup {Absent}] /\ stale \in [Commands -> SUBSET Media!Tokens]
      /\ changes \in 0 .. MaxChanges
  BY DEF MediaInv, Media!TypeOK, Media!Contents
<1>4. /\ member' \in Media!Contents /\ member'[f] = c
      /\ \A g \in Media!Files : g # f => member'[g] = member[g]
  BY <1>1, <1>3 DEF Media!Contents
<1>5. \A q \in Commands : at[q] # "off" =>
        /\ stale[q] \subseteq stale'[q] /\ f \in stale'[q]
        /\ c = Absent \/ member[f] = Absent => Media!Directory \in stale'[q]
  BY <1>1, <1>3 DEF Media!Notice
<1>6. stale' \in [Commands -> SUBSET Media!Tokens]
  <2> DEFINE t == {f} \cup (IF Absent \in {c, member[f]} THEN {Media!Directory} ELSE {})
  <2>1. t \in SUBSET Media!Tokens
    BY DEF Media!Tokens
  <2>2. stale' = [q \in Commands |-> IF at[q] = "off" THEN {} ELSE stale[q] \cup t]
    BY <1>1 DEF Media!Notice
  <2> HIDE DEF t
  <2> QED
    BY <1>3, <2>1, <2>2
<1>7. Media!TypeOK'
  <2>1. changes' \in 0 .. MaxChanges
    BY <1>2, <1>3
  <2>2. past' \subseteq Media!Contents
    BY <1>2, <1>4 DEF MediaInv, Media!TypeOK
  <2> QED
    BY <1>2, <1>4, <1>6, <2>1, <2>2 DEF MediaInv, Media!TypeOK
<1>8. ASSUME NEW q \in Commands PROVE Command(q)'
  <2>1. Command(q) /\ at'[q] = at[q] /\ body'[q] = body[q] /\ seen'[q] = seen[q] /\ temp'[q] = temp[q]
        /\ moment'[q] = moment[q] /\ Media!Directory' = Media!Directory /\ Media!Files' = Media!Files
    BY <1>2 DEF MediaInv, Media!Directory, Media!Files
  <2>2. Reading(q)'
    <3> SUFFICES ASSUME at[q] = "read", NEW g \in Media!Files
                 PROVE  /\ body[q][g] # Absent /\ g < seen[q] => g \in stale'[q] \/ body[q][g] = member'[g]
                        /\ body[q][g] = Absent => Media!Directory \in stale'[q] \/ member'[g] = Absent
      BY <2>1 DEF Reading
    <3>1. /\ body[q][g] # Absent /\ g < seen[q] => g \in stale[q] \/ body[q][g] = member[g]
          /\ body[q][g] = Absent => Media!Directory \in stale[q] \/ member[g] = Absent
      BY <2>1 DEF Command, Reading
    <3>2. /\ stale[q] \subseteq stale'[q] /\ f \in stale'[q]
          /\ c = Absent \/ member[f] = Absent => Media!Directory \in stale'[q]
      BY <1>5
    <3>3. CASE g = f
      BY <1>4, <3>1, <3>2, <3>3
    <3>4. CASE g # f
      BY <1>4, <3>1, <3>2, <3>4
    <3> QED
      BY <3>3, <3>4
  <2>3. Looking(q)'
    BY <1>5, <2>1 DEF Command, Looking
  <2>4. Comparing(q)'
    BY <1>5, <2>1 DEF Command, Comparing
  <2>5. Compared(q)' /\ Synced(q)'
    BY <2>1 DEF Command, Compared, Synced
  <2> QED
    BY <2>2, <2>3, <2>4, <2>5 DEF Command
<1>9. History' /\ Media!IndexIsTrue'
  <2>1. Media!Nothing' = Media!Nothing
    BY DEF Media!Nothing
  <2> QED
    BY <1>2, <2>1 DEF MediaInv, History, Media!IndexIsTrue
<1> QED
  BY <1>7, <1>8, <1>9 DEF MediaInv

\* Somebody replaces the index, or removes it, without the lock.
LEMMA TamperStep ==
  ASSUME MediaInv, Media!Tamper
  PROVE  MediaInv'
<1> USE MediaFacts
<1>1. /\ changes < MaxChanges /\ changes' = changes + 1 /\ toc' \in {Absent, Unknown} /\ disk' = toc'
      /\ stale' = [q \in Commands |-> IF at[q] = "off" THEN {} ELSE stale[q] \cup {Media!Toc, Media!Directory}]
      /\ UNCHANGED <<member, past, losses, at, mode, old, body, seen, temp, moment>>
  BY DEF Media!Tamper, Media!Notice, Media!reading
<1>2. stale \in [Commands -> SUBSET Media!Tokens] /\ changes \in 0 .. MaxChanges
  BY DEF MediaInv, Media!TypeOK
<1>3. \A q \in Commands : at[q] # "off" => stale[q] \subseteq stale'[q]
  BY <1>1, <1>2
<1>4. stale' \in [Commands -> SUBSET Media!Tokens]
  BY <1>1, <1>2 DEF Media!Tokens
<1>5. Media!TypeOK'
  <2>1. changes' \in 0 .. MaxChanges
    BY <1>1, <1>2
  <2> QED
    BY <1>1, <1>4, <2>1 DEF MediaInv, Media!TypeOK
<1>6. ASSUME NEW q \in Commands PROVE Command(q)'
  <2>1. Command(q) /\ at'[q] = at[q] /\ body'[q] = body[q] /\ seen'[q] = seen[q] /\ temp'[q] = temp[q]
        /\ moment'[q] = moment[q] /\ member' = member
        /\ Media!Directory' = Media!Directory /\ Media!Files' = Media!Files
    BY <1>1 DEF MediaInv, Media!Directory, Media!Files
  <2>2. Reading(q)'
    BY <1>3, <2>1 DEF Command, Reading
  <2>3. Looking(q)'
    BY <1>3, <2>1 DEF Command, Looking
  <2>4. Comparing(q)'
    BY <1>3, <2>1 DEF Command, Comparing
  <2>5. Compared(q)' /\ Synced(q)'
    BY <2>1 DEF Command, Compared, Synced
  <2> QED
    BY <2>2, <2>3, <2>4, <2>5 DEF Command
<1>7. History' /\ Media!IndexIsTrue'
  <2>1. Media!Nothing' = Media!Nothing
    BY DEF Media!Nothing
  <2> QED
    BY <1>1, <2>1 DEF MediaInv, History, Media!IndexIsTrue
<1> QED
  BY <1>5, <1>6, <1>7 DEF MediaInv

\* The machine starts again, with either index.
LEMMA PowerStep ==
  ASSUME MediaInv, Media!PowerLoss
  PROVE  MediaInv'
<1> USE MediaFacts
<1>1. /\ losses < MaxLosses /\ losses' = losses + 1 /\ toc' \in {toc, disk} /\ disk' = toc'
      /\ at' = [q \in Commands |-> "off"] /\ mode' = [q \in Commands |-> "list"]
      /\ old' = [q \in Commands |-> Absent] /\ body' = [q \in Commands |-> Media!Nothing]
      /\ seen' = [q \in Commands |-> 1] /\ temp' = [q \in Commands |-> "none"]
      /\ stale' = [q \in Commands |-> {}] /\ moment' = [q \in Commands |-> Media!Nothing]
      /\ UNCHANGED <<member, past, changes>>
  BY DEF Media!PowerLoss, Media!media
<1>2. Media!TypeOK'
  <2> USE DEF MediaInv, Media!TypeOK
  <2>1. at' \in [Commands -> Media!Stages]
    BY <1>1 DEF Media!Stages
  <2>2. mode' \in [Commands -> {"list", "index"}] /\ old' \in [Commands -> Media!Contents \cup {Absent}]
    BY <1>1
  <2>3. body' \in [Commands -> Media!Contents] /\ moment' \in [Commands -> Media!Contents]
    BY <1>1
  <2>4. seen' \in [Commands -> 1 .. LastFile + 1]
    BY <1>1
  <2>5. temp' \in [Commands -> {"none", "torn", "written", "synced"}]
    BY <1>1
  <2>6. stale' \in [Commands -> SUBSET Media!Tokens]
    BY <1>1
  <2>7. losses' \in 0 .. MaxLosses
    BY <1>1
  <2>8. {toc', disk'} \subseteq Media!Contents \cup {Absent, Unknown, Torn}
    BY <1>1
  <2> QED
    BY <1>1, <2>1, <2>2, <2>3, <2>4, <2>5, <2>6, <2>7, <2>8
<1>3. ASSUME NEW q \in Commands PROVE Command(q)'
  <2>1. at'[q] = "off" /\ temp'[q] = "none"
    BY <1>1
  <2> QED
    BY <2>1 DEF Command, Reading, Looking, Comparing, Compared, Synced
<1>4. History' /\ Media!IndexIsTrue'
  <2>1. Media!Nothing' = Media!Nothing
    BY DEF Media!Nothing
  <2> QED
    BY <1>1, <2>1 DEF MediaInv, History, Media!IndexIsTrue
<1> QED
  BY <1>2, <1>3, <1>4 DEF MediaInv

LEMMA MediaInit == Media!Init => MediaInv
<1> SUFFICES ASSUME Media!Init PROVE MediaInv
  OBVIOUS
<1> USE MediaFacts
<1>1. Media!TypeOK
  BY DEF Media!Init, Media!TypeOK, Media!Stages
<1>2. ASSUME NEW q \in Commands PROVE Command(q)
  <2>1. at[q] = "off" /\ temp[q] = "none"
    BY DEF Media!Init
  <2> QED
    BY <2>1 DEF Command, Reading, Looking, Comparing, Compared, Synced
<1>3. History /\ Media!IndexIsTrue
  BY DEF Media!Init, History, Media!IndexIsTrue
<1> QED
  BY <1>1, <1>2, <1>3 DEF MediaInv

LEMMA MediaStep ==
  ASSUME MediaInv, Media!Next \/ UNCHANGED <<shared, media>>
  PROVE  MediaInv'
<1>1. ASSUME NEW p \in Commands, Media!Inspect(p) PROVE MediaInv'
  <2>1. CASE Media!Open(p) \/ Media!ReadToc(p) \/ Media!StatDirectory(p)
    BY <2>1, BeginStep
  <2>2. CASE Media!ListNames(p) \/ Media!Read(p) \/ Media!HaveRead(p)
    BY <2>2, ReadStep
  <2>3. CASE Media!NamesAgain(p) \/ Media!SameDirectory(p)
    BY <2>3, AgainStep
  <2>4. CASE Media!SameFiles(p)
    BY <2>4, FilesStep
  <2>5. CASE Media!SameToc(p) \/ Media!Create(p) \/ Media!Write(p) \/ Media!Sync(p)
    BY <2>5, WriteStep
  <2>6. CASE Media!Replace(p) \/ Media!SyncDirectory(p)
    BY <2>6, ReplaceStep
  <2>7. CASE Media!Return(p) \/ Media!Raise(p)
    BY <2>7, EndStep
  <2> QED
    BY <1>1, <2>1, <2>2, <2>3, <2>4, <2>5, <2>6, <2>7 DEF Media!Inspect
<1>2. CASE UNCHANGED <<shared, media>>
  <2>1. UNCHANGED <<at, member, toc, disk, mode, old, body, seen, temp, stale, moment, past, changes, losses>>
    BY <1>2 DEF shared, media
  <2>2. /\ Media!Nothing' = Media!Nothing /\ Media!Files' = Media!Files /\ Media!Directory' = Media!Directory
        /\ Media!Contents' = Media!Contents /\ Media!Tokens' = Media!Tokens /\ Media!Stages' = Media!Stages
    BY DEF Media!Nothing, Media!Files, Media!Directory, Media!Contents, Media!Tokens, Media!Stages, Media!Toc
  <2>3. Media!TypeOK'
    BY <2>1, <2>2 DEF MediaInv, Media!TypeOK
  <2>4. ASSUME NEW p \in Commands PROVE Command(p)'
    <3>1. Reading(p)' /\ Looking(p)'
      BY <2>1, <2>2 DEF MediaInv, Command, Reading, Looking
    <3>2. Comparing(p)' /\ Compared(p)' /\ Synced(p)'
      BY <2>1, <2>2 DEF MediaInv, Command, Comparing, Compared, Synced
    <3> QED
      BY <3>1, <3>2 DEF Command
  <2>5. History' /\ Media!IndexIsTrue'
    BY <2>1, <2>2 DEF MediaInv, History, Media!IndexIsTrue
  <2> QED
    BY <2>3, <2>4, <2>5 DEF MediaInv
<1> QED
  BY <1>1, <1>2, ChangeStep, TamperStep, PowerStep DEF Media!Next

LEMMA MediaAlone == MCSpec => [](program = "media" => MediaInv)
<1>1. MCInit => (program = "media" => MediaInv)
  BY MediaInit DEF MCInit
<1>2. (program = "media" => MediaInv) /\ [MCNext]_<<program, vars, shared, chain, media, parsers>>
        => (program = "media" => MediaInv)'
  <2> SUFFICES ASSUME program = "media" => MediaInv, [MCNext]_<<program, vars, shared, chain, media, parsers>>,
                      program' = "media"
               PROVE  MediaInv'
    OBVIOUS
  <2>1. program = "media" /\ (Media!Next \/ UNCHANGED <<shared, media>>)
    BY DEF MCNext
  <2> QED
    BY <2>1, MediaStep
<1> QED
  BY <1>1, <1>2, PTL DEF MCSpec

\* The listing that a command gives, and the index that it writes, are what the directory held,
\* all of it at one moment, whatever is added, replaced and removed meanwhile (_scan and _unchanged).
THEOREM ListingsAreOneMoment == MCSpec => []ListingIsOneMoment
<1>1. (program = "media" => MediaInv) => ListingIsOneMoment
  BY DEF MediaInv, Command, Compared, ListingIsOneMoment, Media!ListingIsOneMoment
<1> QED
  BY <1>1, MediaAlone, PTL

\* The index that is found, now and after a power loss, is whole and was true (inspect).
THEOREM TheIndexIsTrue == MCSpec => []IndexIsTrue
<1>1. (program = "media" => MediaInv) => IndexIsTrue
  BY DEF MediaInv, IndexIsTrue
<1> QED
  BY <1>1, MediaAlone, PTL

--------------------------------------------------------------------------------
(***************************************************************************)
(* The observer, for every set of clients, every history of its            *)
(* configuration and every bound.  The strengthening says what the service *)
(* knows at each stage: which of its readings of the clock stand for which *)
(* dates, and that the site's files only move on.                          *)
(***************************************************************************)

Judged   == {"verify", "revalidate", "refresh", "revalidated", "sign", "again", "refreshAgain", "issue", "deliver"}
Checked  == {"sign", "again", "refreshAgain", "issue", "deliver"}
Signed   == {"again", "refreshAgain", "issue", "deliver"}
Verified == {"revalidate", "refresh", "revalidated"}

ReadBefore(r, s)   == r.config <= s.config /\ r.keyring <= s.keyring
SignedBefore(r, s) == r.signedConfig <= s.config /\ r.signedKeyring <= s.keyring
ReadThenSigned(r)  == r.config <= r.signedConfig /\ r.keyring <= r.signedKeyring

\* What the dates of the service's evidence are known to bound.
Known ==
  LET r == service
  IN  /\ service.at \in Judged => r.epoch >= Floor[r.config]
      /\ service.at = "verify" => r.created <= service.from
      /\ service.at \in Verified => r.created <= service.after
      /\ service.at \in Checked => Supported(r)

\* The files that were read or stood at the signature are not newer than those that stand.
Read ==
  LET r == service
  IN  /\ service.at # "idle" => r.config <= site.config
      /\ service.at \notin {"idle", "request"} => ReadBefore(r, site)
      /\ service.at \in Signed => ReadThenSigned(r) /\ SignedBefore(r, site)

Bound == service.at # "idle" => service.for \in Clients

IInv == TypeOK /\ Known /\ Read /\ Bound /\ EvidenceOutlivesReceipt /\ SignedUnderStandingFiles
-----------------------------------------------------------------------------
USE ObserverAssumption

LEMMA IdleType == Idle \in Services
  BY DEF Idle, Services, Times, Versions, Stages

LEMMA InitInv == Init => IInv
<1> SUFFICES ASSUME Init PROVE IInv
  OBVIOUS
<1>1. TypeOK
  BY IdleType DEF Init, TypeOK, Times, Sites, Versions
<1>2. Known /\ Read /\ Bound /\ EvidenceOutlivesReceipt /\ SignedUnderStandingFiles
  BY DEF Init, Known, Read, Bound, EvidenceOutlivesReceipt, SignedUnderStandingFiles, Idle, Judged, Checked, Signed, Verified
<1> QED BY <1>1, <1>2 DEF IInv

\* A step of the service that leaves clock, site and clients alone keeps the invariant
\* if what the service knows afterwards is so.
LEMMA StepInv ==
  ASSUME IInv, UNCHANGED <<World, client, answer>>, service' \in Services, Known', Read', Bound'
  PROVE  IInv'
  BY DEF IInv, TypeOK, World, EvidenceOutlivesReceipt, SignedUnderStandingFiles, Supported, Standing

\* A reading of the clock changes the stage, the reading and the history of readings.
LEMMA AtFacts ==
  ASSUME service \in Services, clock \in Times, NEW stage \in Stages
  PROVE  /\ At(stage) \in Services /\ At(stage).at = stage /\ At(stage).from = clock
         /\ At(stage).for = service.for /\ At(stage).config = service.config /\ At(stage).keyring = service.keyring /\ At(stage).after = service.after
         /\ At(stage).epoch = service.epoch /\ At(stage).metadata = service.metadata /\ At(stage).created = service.created /\ At(stage).policy = service.policy
         /\ At(stage).archive = service.archive /\ At(stage).checked = service.checked /\ At(stage).expires = service.expires /\ At(stage).signedConfig = service.signedConfig
         /\ At(stage).signedKeyring = service.signedKeyring
<1>1. (IF clock > service.peak THEN clock ELSE service.peak) \in Times
  BY DEF Services, Times
<1>2. (service.back \/ clock < service.peak) \in BOOLEAN
  OBVIOUS
<1> QED BY <1>1, <1>2 DEF At, Services

LEMMA AcceptInv == IInv /\ Accept => IInv'
<1> SUFFICES ASSUME IInv, Accept PROVE IInv'
  OBVIOUS
<1>1. PICK c \in Clients : Step("idle", [Idle EXCEPT !.at = "request", !.for = c, !.config = site.config])
  BY DEF Accept
<1>2. UNCHANGED <<World, client, answer>> /\ site \in Sites
  BY <1>1 DEF Step, IInv, TypeOK
<1>3. service' \in Services /\ service'.at = "request" /\ service'.for = c /\ service'.config = site.config
  BY <1>1, <1>2, IdleType DEF Step, Services, Sites, Stages, Idle
<1>4. Known' /\ Bound'
  BY <1>3 DEF Known, Bound, Judged, Checked, Verified
<1>5. Read'
  BY <1>2, <1>3 DEF Read, Signed, World, Sites, Versions
<1> QED BY <1>2, <1>3, <1>4, <1>5, StepInv

LEMMA ReceiveInv == IInv /\ Receive => IInv'
<1> SUFFICES ASSUME IInv, Receive PROVE IInv'
  OBVIOUS
<1>1. /\ UNCHANGED <<World, client, answer>> /\ service.at = "request"
      /\ service \in Services /\ site \in Sites /\ Read /\ Bound
  BY DEF Receive, Step, IInv, TypeOK
<1>2. /\ service' \in Services /\ service'.at = "session" /\ service'.for = service.for
      /\ service'.config = service.config /\ service'.keyring = site.keyring
  BY <1>1 DEF Receive, Step, Services, Sites, Stages
<1>3. Known' /\ Bound'
  BY <1>1, <1>2 DEF Known, Bound, Judged, Checked, Verified
<1>4. Read'
  BY <1>1, <1>2 DEF Read, Signed, ReadBefore, World, Sites, Versions
<1> QED BY <1>1, <1>2, <1>3, <1>4, StepInv

LEMMA OpenSessionInv == IInv /\ OpenSession => IInv'
<1> SUFFICES ASSUME IInv, OpenSession PROVE IInv'
  OBVIOUS
<1>1. PICK t \in Times : Step("session", [service EXCEPT !.at = "policy", !.metadata = t])
  BY DEF OpenSession
<1>2. /\ UNCHANGED <<World, client, answer>> /\ service.at = "session"
      /\ service \in Services /\ Read /\ Bound
  BY <1>1 DEF Step, IInv, TypeOK
<1>3. /\ service' \in Services /\ service'.at = "policy" /\ service'.for = service.for
      /\ service'.config = service.config /\ service'.keyring = service.keyring
  BY <1>1, <1>2 DEF Step, Services, Stages
<1>4. Known' /\ Bound'
  BY <1>2, <1>3 DEF Known, Bound, Judged, Checked, Verified
<1>5. Read'
  BY <1>2, <1>3 DEF Read, Signed, ReadBefore, World
<1> QED BY <1>2, <1>3, <1>4, <1>5, StepInv

LEMMA ReadPolicyInv == IInv /\ ReadPolicy => IInv'
<1> SUFFICES ASSUME IInv, ReadPolicy PROVE IInv'
  OBVIOUS
<1> DEFINE went == At("verify")
<1>1. PICK e \in 0 .. MaxEpoch, created, expiry \in Times :
        /\ e >= Floor[service.config] /\ created <= clock
        /\ Step("policy", [went EXCEPT !.epoch = e, !.created = created, !.policy = expiry])
  BY DEF ReadPolicy
<1>2. /\ UNCHANGED <<World, client, answer>> /\ service.at = "policy"
      /\ service \in Services /\ clock \in Times /\ Read /\ Bound
  BY <1>1 DEF Step, IInv, TypeOK
<1>3. /\ went \in Services /\ went.at = "verify" /\ went.from = clock /\ went.for = service.for
      /\ went.config = service.config /\ went.keyring = service.keyring
  BY <1>2, AtFacts DEF Stages
<1>4. service' = [went EXCEPT !.epoch = e, !.created = created, !.policy = expiry]
  BY <1>1 DEF Step
<1> HIDE DEF went
<1>5. /\ service' \in Services /\ service'.at = "verify" /\ service'.for = service.for
      /\ service'.config = service.config /\ service'.keyring = service.keyring
      /\ service'.epoch = e /\ service'.created = created /\ service'.from = clock
  BY <1>3, <1>4 DEF Services
<1>6. Known' /\ Bound'
  BY <1>1, <1>2, <1>5 DEF Known, Bound, Judged, Checked, Verified
<1>7. Read'
  BY <1>2, <1>5 DEF Read, Signed, ReadBefore, World
<1> QED BY <1>2, <1>5, <1>6, <1>7, StepInv

LEMMA VerifyInv == IInv /\ Verify => IInv'
<1> SUFFICES ASSUME IInv, Verify PROVE IInv'
  OBVIOUS
<1> DEFINE went == At("revalidate")
<1>1. PICK t \in Times : service.from <= clock /\ Step("verify", [went EXCEPT !.archive = t, !.after = clock])
  BY DEF Verify
<1>2. /\ UNCHANGED <<World, client, answer>> /\ service.at = "verify"
      /\ service \in Services /\ clock \in Times /\ Known /\ Read /\ Bound
  BY <1>1 DEF Step, IInv, TypeOK
<1>3. /\ went \in Services /\ went.at = "revalidate" /\ went.for = service.for
      /\ went.config = service.config /\ went.keyring = service.keyring /\ went.epoch = service.epoch /\ went.created = service.created
  BY <1>2, AtFacts DEF Stages
<1>4. service' = [went EXCEPT !.archive = t, !.after = clock]
  BY <1>1 DEF Step
<1> HIDE DEF went
<1>5. /\ service' \in Services /\ service'.at = "revalidate" /\ service'.for = service.for
      /\ service'.config = service.config /\ service'.keyring = service.keyring
      /\ service'.epoch = service.epoch /\ service'.created = service.created /\ service'.after = clock
  BY <1>2, <1>3, <1>4 DEF Services
<1>6. service.created <= clock /\ service.epoch >= Floor[service.config]
  BY <1>1, <1>2 DEF Known, Judged, Services, Times
<1>7. Known' /\ Bound'
  BY <1>2, <1>5, <1>6 DEF Known, Bound, Judged, Checked, Verified
<1>8. Read'
  BY <1>2, <1>5 DEF Read, Signed, ReadBefore, World
<1> QED BY <1>2, <1>5, <1>7, <1>8, StepInv

\* The stages of the two revalidations and what follows the second: only the stage and
\* the readings of the clock change.
LEMMA PassInv ==
  ASSUME IInv, UNCHANGED <<World, client, answer>>, service' \in Services,
         \/ service.at = "revalidate" /\ service'.at = "refresh"
         \/ service.at = "refresh" /\ service'.at = "revalidated"
         \/ service.at = "again" /\ service'.at = "refreshAgain"
         \/ service.at = "refreshAgain" /\ service'.at = "issue"
         \/ service.at = "issue" /\ service'.at = "deliver",
         service'.for = service.for, service'.config = service.config, service'.keyring = service.keyring, service'.after = service.after,
         service'.epoch = service.epoch, service'.metadata = service.metadata, service'.created = service.created, service'.policy = service.policy,
         service'.archive = service.archive, service'.checked = service.checked, service'.expires = service.expires, service'.signedConfig = service.signedConfig,
         service'.signedKeyring = service.signedKeyring
  PROVE  IInv'
<1>1. Known /\ Read /\ Bound
  BY DEF IInv
<1>2. Known'
  BY <1>1 DEF Known, Judged, Checked, Verified, Supported
<1>3. Read' /\ Bound'
  BY <1>1 DEF Read, Bound, Signed, ReadBefore, SignedBefore, ReadThenSigned, World
<1> QED BY <1>2, <1>3, StepInv

LEMMA Revalidating == IInv /\ (BeginRevalidation \/ Refresh \/ Issue) => IInv'
<1> SUFFICES ASSUME IInv, BeginRevalidation \/ Refresh \/ Issue PROVE IInv'
  OBVIOUS
<1>1. service \in Services /\ clock \in Times
  BY DEF IInv, TypeOK
<1>2. CASE Refresh
  BY <1>1, <1>2, PassInv DEF Refresh, Step, Services, Stages
<1>3. CASE BeginRevalidation \/ Issue
  <2>1. PICK p \in {<<"revalidate", "refresh">>, <<"again", "refreshAgain">>, <<"issue", "deliver">>} : Step(p[1], At(p[2]))
    BY <1>3 DEF BeginRevalidation, Issue
  <2>2. p[2] \in Stages
    BY DEF Stages
  <2>3. service' = At(p[2]) /\ service.at = p[1] /\ UNCHANGED <<World, client, answer>>
    BY <2>1 DEF Step
  <2> QED BY <1>1, <2>2, <2>3, AtFacts, PassInv
<1> QED BY <1>2, <1>3

LEMMA CheckInv == IInv /\ Check => IInv'
<1> SUFFICES ASSUME IInv, Check PROVE IInv'
  OBVIOUS
<1> USE DEF IInv, TypeOK
<1>1. UNCHANGED <<World, client, answer>> /\ service.at = "revalidated"
  BY DEF Check, Step
<1> DEFINE r == service  L == Life[r.config]
           until == Smaller(Until, r.metadata)  expires == Smaller(until, clock + L)
<1>2. r.config \in Versions /\ L \in Nat \ {0} /\ clock \in Times
  BY DEF Services, Versions
<1>3. /\ until \in Times /\ until <= r.policy /\ until <= r.archive /\ until <= r.metadata
      /\ clock < until
  BY <1>2 DEF Check, Step, Smaller, Until, Services, Times
<1>4. expires \in Times /\ expires <= until /\ clock < expires /\ expires <= clock + L
  BY <1>2, <1>3 DEF Smaller, Times
<1>5. r.created <= clock
  BY <1>1, <1>2 DEF Check, Step, Known, Verified, Services, Times
<1> DEFINE went == At("sign")
<1>6. service' = [went EXCEPT !.checked = clock, !.expires = expires]
  BY DEF Check, Step
<1>7. /\ went \in Services /\ went.at = "sign" /\ went.for = r.for /\ went.config = r.config /\ went.keyring = r.keyring
      /\ went.epoch = r.epoch /\ went.created = r.created /\ went.policy = r.policy
      /\ went.archive = r.archive /\ went.metadata = r.metadata
  BY <1>2, AtFacts DEF Stages
<1> HIDE DEF expires, until, went
<1>8. /\ service' \in Services
      /\ service'.at = "sign" /\ service'.for = r.for /\ service'.config = r.config /\ service'.keyring = r.keyring
      /\ service'.epoch = r.epoch /\ service'.created = r.created /\ service'.policy = r.policy
      /\ service'.archive = r.archive /\ service'.metadata = r.metadata
      /\ service'.checked = clock /\ service'.expires = expires
  BY <1>2, <1>4, <1>6, <1>7 DEF Services
<1>9. r.epoch >= Floor[r.config]
  BY <1>1 DEF Known, Judged
<1>10. Supported(service')
  <2>1. /\ r.policy \in Int /\ r.archive \in Int /\ r.metadata \in Int /\ r.created \in Int
        /\ clock \in Int /\ until \in Int /\ expires \in Int /\ L \in Int
    BY <1>2, <1>3, <1>4 DEF Services, Times
  <2>2. /\ expires <= r.policy /\ expires <= r.archive /\ expires <= r.metadata
    BY <1>3, <1>4, <2>1
  <2> QED BY <1>4, <1>5, <1>8, <1>9, <2>2 DEF Supported
<1>11. Known'
  BY <1>8, <1>9, <1>10 DEF Known, Judged, Checked, Verified, Supported
<1>12. Read' /\ Bound'
  BY <1>1, <1>8 DEF Read, Bound, Signed, ReadBefore, World
<1> QED BY <1>1, <1>8, <1>11, <1>12, StepInv

LEMMA SignInv == IInv /\ Sign => IInv'
<1> SUFFICES ASSUME IInv, Sign PROVE IInv'
  OBVIOUS
<1>1. /\ UNCHANGED <<World, client, answer>> /\ service.at = "sign"
      /\ service \in Services /\ site \in Sites /\ Known /\ Read /\ Bound
  BY DEF Sign, Step, IInv, TypeOK
<1>2. service' = [service EXCEPT !.at = "again", !.signedConfig = site.config, !.signedKeyring = site.keyring]
  BY DEF Sign, Step
<1>3. service' \in Services
  BY <1>1, <1>2 DEF Services, Sites, Stages
<1>4. /\ service'.at = "again" /\ service'.signedConfig = site.config /\ service'.signedKeyring = site.keyring
      /\ service'.for = service.for /\ service'.config = service.config /\ service'.keyring = service.keyring /\ service'.epoch = service.epoch
      /\ service'.metadata = service.metadata /\ service'.created = service.created /\ service'.policy = service.policy /\ service'.archive = service.archive
      /\ service'.checked = service.checked /\ service'.expires = service.expires
  BY <1>1, <1>2 DEF Services
<1>5. Known'
  BY <1>1, <1>4 DEF Known, Judged, Checked, Verified, Supported
<1>6. Read' /\ Bound'
  BY <1>1, <1>4 DEF Read, Bound, Signed, ReadBefore, SignedBefore, ReadThenSigned, World, Sites, Versions
<1> QED BY <1>1, <1>3, <1>5, <1>6, StepInv

\* The end of a connection: the receipt that goes out keeps both promises.
LEMMA AnswerInv ==
  ASSUME IInv, service.at # "idle",
         NEW receipt \in Services, NEW state \in {"answered", "refused"}, Answer(state, receipt),
         state = "answered" => Supported(receipt) /\ Standing(receipt)
  PROVE  IInv'
<1> USE DEF IInv, TypeOK
<1>1. service' = Idle /\ UNCHANGED World /\ service.for \in Clients
  BY DEF Answer, Bound
<1>2. TypeOK'
  BY <1>1, IdleType DEF Answer, World
<1>3. Known' /\ Read' /\ Bound'
  BY <1>1 DEF Known, Read, Bound, Idle, Judged, Checked, Signed, Verified
<1>4. \A c \in Clients : client'[c] \in {"answered", "accepted"} =>
        \/ client[c] \in {"answered", "accepted"} /\ answer'[c] = answer[c]
        \/ state = "answered" /\ answer'[c] = receipt
  BY <1>1 DEF Answer
<1>5. EvidenceOutlivesReceipt'
  BY <1>4 DEF EvidenceOutlivesReceipt, Supported
<1>6. SignedUnderStandingFiles'
  BY <1>4 DEF SignedUnderStandingFiles, Standing
<1> QED BY <1>2, <1>3, <1>5, <1>6

LEMMA Answering == IInv /\ (Deliver \/ Reject) => IInv'
<1> SUFFICES ASSUME IInv, Deliver \/ Reject PROVE IInv'
  OBVIOUS
<1>1. CASE Reject
  <2>1. service.at # "idle" /\ Answer("refused", Idle)
    BY <1>1 DEF Reject
  <2> QED BY <2>1, IdleType, AnswerInv
<1>2. CASE Deliver
  <2> DEFINE sent == [service EXCEPT !.from = 0, !.after = 0, !.peak = 0]
  <2>1. service.at = "deliver" /\ service \in Services /\ Answer("answered", sent)
    BY <1>2 DEF Deliver, IInv, TypeOK
  <2>2. sent \in Services
    <3>1. 0 \in Times
      BY DEF Times
    <3> QED BY <2>1, <3>1 DEF Services
  <2>3. Supported(sent)
    <3>1. Supported(service)
      BY <2>1 DEF IInv, Known, Checked
    <3> QED BY <2>1, <3>1 DEF Supported, Services
  <2>4. ReadThenSigned(service) /\ SignedBefore(service, site)
    BY <2>1 DEF IInv, Read, Signed
  <2>5. Standing(service)
    <3>1. /\ service.config \in Int /\ service.keyring \in Int
          /\ service.signedConfig \in Int /\ service.signedKeyring \in Int
      BY <2>1 DEF Services, Versions
    <3>2. site.config = service.config /\ site.keyring = service.keyring
      BY <1>2 DEF Deliver
    <3> QED BY <2>4, <3>1, <3>2 DEF ReadThenSigned, SignedBefore, Standing
  <2>6. Standing(sent)
    BY <2>1, <2>5 DEF Standing, Services
  <2> HIDE DEF sent
  <2> QED BY <2>1, <2>2, <2>3, <2>6, AnswerInv
<1> QED BY <1>1, <1>2

LEMMA ClientInv == ASSUME IInv, NEW c \in Clients, Ask(c) \/ Take(c) \/ Refuse(c) PROVE IInv'
<1> USE DEF IInv, TypeOK
<1>1. UNCHANGED <<World, service>>
  BY DEF Ask, Take, Refuse, World
<1>2. TypeOK'
  BY <1>1, IdleType DEF Ask, Take, Refuse, World
<1>3. Known' /\ Read' /\ Bound'
  BY <1>1 DEF Known, Read, Bound, World, Supported
<1>4. \A d \in Clients : client'[d] \in {"answered", "accepted"} =>
        client[d] \in {"answered", "accepted"} /\ answer'[d] = answer[d]
  BY DEF Ask, Take, Refuse
<1>5. EvidenceOutlivesReceipt' /\ SignedUnderStandingFiles'
  BY <1>4 DEF EvidenceOutlivesReceipt, SignedUnderStandingFiles, Supported, Standing
<1> QED BY <1>2, <1>3, <1>5

LEMMA WorldInv == IInv /\ (Configure \/ Tick \/ SetBack) => IInv'
<1> SUFFICES ASSUME IInv, Configure \/ Tick \/ SetBack PROVE IInv'
  OBVIOUS
<1> USE DEF IInv, TypeOK
<1>1. UNCHANGED <<service, client, answer>>
  BY DEF Configure, Tick, SetBack
<1>2. clock' \in Times /\ reversals' \in 0 .. MaxReversals
  BY DEF Configure, Tick, SetBack, Times
<1>3. site' \in Sites /\ ReadBefore(site, site')
  <2>1. CASE Configure
    <3>1. PICK f \in {"config", "keyring"} : site[f] < LastVersion /\ site' = [site EXCEPT ![f] = @ + 1]
      BY <2>1 DEF Configure
    <3>2. /\ site'.config = IF f = "config" THEN site.config + 1 ELSE site.config
          /\ site'.keyring = IF f = "keyring" THEN site.keyring + 1 ELSE site.keyring
      BY <3>1 DEF Sites
    <3>3. site' = [config |-> site'.config, keyring |-> site'.keyring]
      BY <3>1 DEF Sites
    <3>4. site'.config \in Versions /\ site'.keyring \in Versions
      BY <3>1, <3>2 DEF Sites, Versions
    <3> QED BY <3>2, <3>3, <3>4 DEF Sites, Versions, ReadBefore
  <2>2. CASE Tick \/ SetBack
    BY <2>2 DEF Tick, SetBack, Sites, Versions, ReadBefore
  <2> QED BY <2>1, <2>2
<1>4. Known' /\ Bound' /\ EvidenceOutlivesReceipt' /\ SignedUnderStandingFiles'
  BY <1>1 DEF Known, Bound, EvidenceOutlivesReceipt, SignedUnderStandingFiles, Supported, Standing
<1>5. Read'
  <2> HIDE DEF IInv, TypeOK
  <2>1. Read /\ service \in Services /\ site \in Sites
    BY DEF IInv, TypeOK
  <2>2. /\ service.config \in Int /\ service.keyring \in Int
        /\ service.signedConfig \in Int /\ service.signedKeyring \in Int
    BY <2>1 DEF Services, Versions
  <2>3. /\ site.config \in Int /\ site.keyring \in Int /\ site'.config \in Int /\ site'.keyring \in Int
        /\ site.config <= site'.config /\ site.keyring <= site'.keyring
    BY <1>3, <2>1 DEF Sites, Versions, ReadBefore
  <2>4. service' = service
    BY <1>1
  <2>5. service.config <= site.config => service.config <= site'.config
    BY <2>2, <2>3
  <2>6. ReadBefore(service, site) => ReadBefore(service, site')
    BY <2>2, <2>3 DEF ReadBefore
  <2>7. SignedBefore(service, site) => SignedBefore(service, site')
    BY <2>2, <2>3 DEF SignedBefore
  <2> QED BY <2>1, <2>4, <2>5, <2>6, <2>7 DEF Read, ReadBefore, SignedBefore, ReadThenSigned
<1> QED BY <1>1, <1>2, <1>3, <1>4, <1>5

LEMMA NextInv == IInv /\ [Next]_vars => IInv'
<1> SUFFICES ASSUME IInv, [Next]_vars PROVE IInv'
  OBVIOUS
<1>1. CASE UNCHANGED vars
  BY <1>1 DEF vars, IInv, TypeOK, Known, Read, Bound, EvidenceOutlivesReceipt, SignedUnderStandingFiles, Supported, Standing
<1>2. CASE Next
  BY <1>2, AcceptInv, ReceiveInv, OpenSessionInv, ReadPolicyInv, VerifyInv, Revalidating, CheckInv, SignInv, Answering, ClientInv, WorldInv DEF Next
<1> QED BY <1>1, <1>2

LEMMA Invariant == Spec => []IInv
  BY InitInv, NextInv, PTL DEF Spec
-----------------------------------------------------------------------------
\* Every variable keeps its shape, whatever the clients, versions, clocks and bounds.
THEOREM TypeCorrect == Spec => []TypeOK
<1>1. IInv => TypeOK
  BY DEF IInv
<1> QED BY <1>1, Invariant, PTL

\* No receipt outlives the policy, the Release or a role of the repository it rests on.
THEOREM EvidenceOutlives == Spec => []EvidenceOutlivesReceipt
<1>1. IInv => EvidenceOutlivesReceipt
  BY DEF IInv
<1> QED BY <1>1, Invariant, PTL

\* Every receipt was signed while the files it was issued under stood.
THEOREM StandingFiles == Spec => []SignedUnderStandingFiles
<1>1. IInv => SignedUnderStandingFiles
  BY DEF IInv
<1> QED BY <1>1, Invariant, PTL
=============================================================================
