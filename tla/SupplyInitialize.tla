-------------------------- MODULE SupplyInitialize --------------------------
(***************************************************************************)
(* native/supply_initialize.py: the first provisioning of the supply       *)
(* policy and its rollback floor, by an installer that may fail, be killed *)
(* or lose power between any two system calls, and may be started again,   *)
(* also while another one runs; and the native reader of what it leaves.   *)
(*                                                                         *)
(* Abstractions.  An installer is its inputs: whatever it writes is its    *)
(* own.  The checks of ownership, mode and size are part of reading a      *)
(* file, or one failure (`Fail').                                          *)
(***************************************************************************)
EXTENDS CrashFiles, Sequences

CONSTANTS Installers,   \* the times the tool is started, each with its inputs
          MaxLosses     \* bound on power losses

LossAssumption == MaxLosses \in Nat

VARIABLES
  fs,        \* the file system below /etc/niaos and /var/lib/niaos
  task,      \* what each installer is doing
  step,      \* which system call of it comes next
  verified,  \* history: installers whose staged files the native reader accepted
  seen,      \* history: the pairs of files a reader has accepted in place
  losses     \* power losses so far

vars == <<fs, task, step, verified, seen, losses>>

\* initialize's statements, in order.
Order == <<"look", "attempt", "supply", "trust", "policyPending", "floorPending",
           "policy", "floor", "verify", "publishPolicy", "publishFloor", "reverify",
           "complete", "close", "done">>
Tasks == {Order[i] : i \in 1 .. Len(Order)} \cup {"off", "failed"}

After(t) == LET i == CHOOSE i \in 1 .. Len(Order) : Order[i] = t IN Order[i + 1]

Making     == {"supply", "trust", "policyPending", "floorPending"}
Creating   == {"attempt", "policy", "floor", "complete"}
Publishing == {"publishPolicy", "publishFloor"}
Reading    == {"verify", "reverify"}
Running    == {"look", "close"} \cup Making \cup Creating \cup Publishing \cup Reading

\* The directory in which each name is made, and the target of each publication.
Parent(t) == CASE t \in {"attempt", "complete", "trust"} -> "base"
               [] t = "supply"                    -> "config"
               [] t = "policyPending"             -> "supply"
               [] t = "floorPending"              -> "trust"
               [] t = "policy"                    -> "policyPending"
               [] t = "floor"                     -> "floorPending"
Source(t) == IF t = "publishPolicy" THEN "policyPending" ELSE "floorPending"
Target(t) == IF t = "publishPolicy" THEN "supply" ELSE "trust"
Name(t)   == CASE t = "publishPolicy" -> "policy"
               [] t = "publishFloor"  -> "floor"
               [] OTHER               -> t

First(t) == CASE t \in Creating   -> "create"
              [] t \in Making     -> "mkdir"
              [] t \in Publishing -> "link"
              [] OTHER            -> "go"

Init ==
  /\ fs = Empty
  /\ task = [p \in Installers |-> "off"]
  /\ step = [p \in Installers |-> "go"]
  /\ verified = {} /\ seen = {} /\ losses = 0
-----------------------------------------------------------------------------
\* One system call of p's current task, and what comes next.
Call(p, from, to, after) ==
  /\ step[p] = from
  /\ step' = [step EXCEPT ![p] = to]
  /\ fs' = after
  /\ UNCHANGED <<task, verified, seen, losses>>

\* The last system call of a task.
Last(p, from, after) ==
  /\ step[p] = from
  /\ task' = [task EXCEPT ![p] = After(@)]
  /\ step' = [step EXCEPT ![p] = First(After(task[p]))]
  /\ fs' = after

Start(p) ==
  /\ task[p] = "off"
  /\ task' = [task EXCEPT ![p] = "look"]
  /\ UNCHANGED <<fs, step, verified, seen, losses>>

\* Any trace of an earlier attempt is refused.
Look(p) ==
  /\ task[p] = "look"
  /\ \A t \in {"attempt", "complete", "trust", "supply"} : Absent(fs, Parent(t), t)
  /\ Last(p, "go", fs)
  /\ UNCHANGED <<verified, seen, losses>>

Bug_Overwrites(p) ==
  /\ task[p] \in Creating
  /\ LET t == task[p]  d == Parent(t)  f == <<t, p>> IN
     \/ Call(p, "create", "write", Created(fs, d, t, f))
     \/ Call(p, "write", "sync", Written(fs, f))
     \/ Call(p, "sync", "syncdir", FileSynced(fs, f))
     \/ Last(p, "syncdir", Synced(fs, d)) /\ UNCHANGED <<verified, seen, losses>>

\* create: O_EXCL, the contents, fsync of the file and of its directory.
Create(p) ==
  /\ task[p] \in Creating
  /\ LET t == task[p]  d == Parent(t)  f == <<t, p>> IN
     \/ Absent(fs, d, t) /\ Call(p, "create", "write", Created(fs, d, t, f))
     \/ Call(p, "write", "sync", Written(fs, f))
     \/ Call(p, "sync", "syncdir", FileSynced(fs, f))
     \/ Last(p, "syncdir", Synced(fs, d)) /\ UNCHANGED <<verified, seen, losses>>

\* mkdir, and fsync of the parent.  The new directory is empty when it is synced.
Make(p) ==
  /\ task[p] \in Making
  /\ LET t == task[p]  d == Parent(t) IN
     \/ Absent(fs, d, t) /\ Call(p, "mkdir", "syncdir", Enter(fs, d, t, <<t, p>>))
     \/ Last(p, "syncdir", Synced(fs, d)) /\ UNCHANGED <<verified, seen, losses>>

\* What the native reader accepts under a name: a whole file with a single link.
Accepted(g, d, n) == {f \in Whole(g, d, n) : Links(g, f) = 1}

Bug_VerifiesLater(p) ==
  /\ task[p] \in Reading
  /\ task[p] = "reverify" => /\ Accepted(fs, "supply", "policy") # {}
                             /\ Accepted(fs, "trust", "floor") # {}
  /\ Last(p, "go", fs)
  /\ verified' = IF task[p] = "reverify" THEN verified \cup {p} ELSE verified
  /\ UNCHANGED <<seen, losses>>

\* verify: the observer reads the staged files, and once more those in place.
Verify(p) ==
  /\ task[p] \in Reading
  /\ IF task[p] = "verify"
     THEN /\ Accepted(fs, "policyPending", "policy") # {}
          /\ Accepted(fs, "floorPending", "floor") # {}
     ELSE /\ Accepted(fs, "supply", "policy") # {}
          /\ Accepted(fs, "trust", "floor") # {}
  /\ Last(p, "go", fs)
  /\ verified' = verified \cup {p}
  /\ UNCHANGED <<seen, losses>>

Bug_KeepsSource(p) ==
  /\ task[p] \in Publishing
  /\ LET s == Source(task[p])  d == Target(task[p])  n == Name(task[p]) IN
     \/ Absent(fs, d, n) /\ Call(p, "link", "sync", Enter(fs, d, n, <<n, p>>))
     \/ Call(p, "sync", "unlink", Synced(fs, d))
     \/ Call(p, "unlink", "resync", Remove(fs, s, n))
     \/ Last(p, "resync", Synced(fs, d)) /\ UNCHANGED <<verified, seen, losses>>

\* publish: a link that replaces nothing, durable before the staged one goes.
Publish(p) ==
  /\ task[p] \in Publishing
  /\ LET s == Source(task[p])  d == Target(task[p])  n == Name(task[p]) IN
     \/ Absent(fs, d, n) /\ Call(p, "link", "sync", Enter(fs, d, n, <<n, p>>))
     \/ Call(p, "sync", "unlink", Synced(fs, d))
     \/ Call(p, "unlink", "syncsource", Remove(fs, s, n))
     \/ Call(p, "syncsource", "resync", Synced(fs, s))
     \/ Last(p, "resync", Synced(fs, d)) /\ UNCHANGED <<verified, seen, losses>>

\* The finally closes the directories; an error of it is not a success (`Fail').
Close(p) ==
  /\ task[p] = "close"
  /\ Last(p, "go", fs)
  /\ UNCHANGED <<verified, seen, losses>>

\* An error, a refusal or a kill: nothing is rolled back.
Fail(p) ==
  /\ task[p] \in Running
  /\ task' = [task EXCEPT ![p] = "failed"]
  /\ UNCHANGED <<fs, step, verified, seen, losses>>

\* A supply observer reads the pair in place.
Observe ==
  /\ \E f \in Accepted(fs, "supply", "policy"), g \in Accepted(fs, "trust", "floor") :
       seen' = seen \cup {<<f, g>>}
  /\ UNCHANGED <<fs, task, step, verified, losses>>

PowerLoss ==
  /\ losses < MaxLosses
  /\ losses' = losses + 1
  /\ fs' \in Crashed(fs)
  /\ task' = [p \in Installers |-> IF task[p] \in Running THEN "failed" ELSE task[p]]
  /\ UNCHANGED <<step, verified, seen>>
-----------------------------------------------------------------------------
Installer(p) == Start(p) \/ Look(p) \/ Create(p) \/ Make(p) \/ Verify(p) \/ Publish(p) \/ Close(p) \/ Fail(p)

Next == (\E p \in Installers : Installer(p)) \/ Observe \/ PowerLoss

Spec == Init /\ [][Next]_vars
-----------------------------------------------------------------------------
Files   == {"attempt", "policy", "floor", "complete"} \cup Making
Entries == [dir : {"base", "config", "supply", "trust", "policyPending", "floorPending"},
            name : Files, file : Files \X Installers]

\* Every variable stays in its range, and at most one installer is past its
\* attempt record.
TypeOK ==
  /\ fs.now \subseteq Entries /\ fs.disk \subseteq Entries
  /\ fs.torn \subseteq Files \X Installers /\ fs.loose \subseteq Files \X Installers
  /\ task \in [Installers -> Tasks]
  /\ step \in [Installers -> {"go", "create", "write", "sync", "syncdir", "mkdir", "link",
                              "unlink", "syncsource", "resync"}]
  /\ verified \subseteq Installers
  /\ seen \subseteq (Files \X Installers) \X (Files \X Installers)
  /\ losses \in 0 .. MaxLosses
  /\ Cardinality({p \in Installers : task[p] \in Running \ {"look", "attempt"}}) <= 1

\* Whatever a reader ever accepts in place, before and after failures and power
\* losses, is one and the same pair, of one installer, whose files the native
\* reader had accepted before anything was published.
ReaderSeesOnePair ==
  /\ Cardinality(seen) <= 1
  /\ \A s \in seen : s[1][2] = s[2][2] /\ s[1][2] \in verified

\* A power loss keeps the order of the effects: none can forget the attempt and
\* keep one of its effects, so a later installer always finds what forbids it to
\* begin, nor keep the floor in place without its policy.
EffectsStayInOrder ==
  \A g \in Crashed(fs) :
    /\ (\E t \in {"supply", "trust", "complete"} : ~Absent(g, Parent(t), t)) => ~Absent(g, "base", "attempt")
    /\ Accepted(g, "trust", "floor") # {} => Accepted(g, "supply", "policy") # {}

\* A completion record, as soon as it can be read at all, and whatever a power
\* loss makes of the rest, stands beside a pair that readers accept; the one of
\* an installer that reported success is taken away by no power loss, and neither
\* is a verified file: it keeps a link, in the staging directory or in place.
CompletionIsLasting ==
  /\ \A g \in Crashed(fs) \cup {fs} :
       Whole(g, "base", "complete") # {}
         => Accepted(g, "supply", "policy") # {} /\ Accepted(g, "trust", "floor") # {}
  /\ \A p \in Installers : task[p] = "done" =>
       \A g \in Crashed(fs) : <<"complete", p>> \in Whole(g, "base", "complete")
  /\ \A p \in verified : \A g \in Crashed(fs) : \A n \in {"policy", "floor"} :
       Links(g, <<n, p>>) >= 1 /\ <<n, p>> \notin g.torn

\* What has been done is lasting: the order of the syncs of supply_initialize.py
\* (110 to 146) holds at every power loss.
PairIsLasting == EffectsStayInOrder /\ CompletionIsLasting
=============================================================================
