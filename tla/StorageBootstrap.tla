-------------------------- MODULE StorageBootstrap --------------------------
(***************************************************************************)
(* native/storage_bootstrap.py and bank_device.py: the installer action    *)
(* that makes the native store and the root bank, once; the commands it    *)
(* runs, which outlive it when it is killed; the mount unit; and the check *)
(* that every start of the root-session service makes first.               *)
(*                                                                         *)
(* Abstractions.  An installer is its inputs (policy, programs, device     *)
(* plan).  Device identity, modes and unit states are part of one failure  *)
(* (`Fail').  The bank's file system is the directory "bank"; the base     *)
(* directory /var/lib/niaos exists.                                        *)
(***************************************************************************)
EXTENDS CrashFiles, Sequences

CONSTANTS Installers,   \* the times the tool is started
          NoInstaller,
          MaxLosses     \* bound on power losses

NobodyAssumption == NoInstaller \notin Installers
LossAssumption   == MaxLosses \in Nat

VARIABLES
  fs,       \* the file systems of the host and of the bank
  task,     \* what each installer is doing
  step,     \* which system call of it comes next
  child,    \* the command that works on the bank, and who started it
  mounted,  \* the bank is mounted
  ro,       \* its superblock is read-only
  store,    \* what the native initializer has made of core/store
  losses    \* power losses so far

bankVars == <<child, mounted, ro, store, losses>>
vars     == <<fs, task, step, bankVars>>

Bug_CompletesFirst == <<"look", "intent", "core", "store", "roots", "native", "dropin", "conf",
                        "mount", "fresh", "rw", "provision", "complete", "readonly", "verify", "done">>

\* initialize_selected's statements, in order; "undo" is its finally after an error.
Order == <<"look", "intent", "core", "store", "roots", "native", "dropin", "conf",
           "mount", "fresh", "rw", "provision", "readonly", "verify", "complete", "done">>
Tasks == {Order[i] : i \in 1 .. Len(Order)} \cup {"off", "undo", "failed"}

After(t) == LET i == CHOOSE i \in 1 .. Len(Order) : Order[i] = t IN Order[i + 1]

Making   == {"core", "store", "roots"}
Creating == {"intent", "complete"}
Writable == {"rw", "provision"}        \* the inner try
Running  == Tasks \ {"off", "done", "failed"}

Parent(t) == CASE t = "store"  -> "core"
               [] t = "dropin" -> "systemd"
               [] t = "conf"   -> "dropin"
               [] t \in {"bank.json", "bank.lock", "lost+found"} -> "bank"
               [] OTHER        -> "base"

First(t) == CASE t \in Creating \cup {"conf"}    -> "create"
              [] t \in Making \cup {"dropin"}    -> "mkdir"
              [] t \in Writable                  -> "spawn"
              [] OTHER                           -> "go"

NoChild == [of |-> NoInstaller, does |-> "none", step |-> "none"]

\* mkfs may have left an empty lost+found.
Init ==
  /\ fs \in {Empty} \cup {[Empty EXCEPT !.now = {e}, !.disk = {e}] :
                            e \in {Entry("bank", "lost+found", <<"lost+found", NoInstaller>>)}}
  /\ task = [p \in Installers |-> "off"]
  /\ step = [p \in Installers |-> "go"]
  /\ child = NoChild
  /\ mounted = FALSE /\ ro = TRUE
  /\ store = "none" /\ losses = 0
-----------------------------------------------------------------------------
\* One system call of p's current task, and what comes next.
Call(p, from, to, after) ==
  /\ step[p] = from
  /\ step' = [step EXCEPT ![p] = to]
  /\ fs' = after
  /\ task' = task

\* The last system call of a task.
Last(p, from, after) ==
  /\ step[p] = from
  /\ task' = [task EXCEPT ![p] = After(@)]
  /\ step' = [step EXCEPT ![p] = First(After(task[p]))]
  /\ fs' = after

Start(p) ==
  /\ task[p] = "off"
  /\ task' = [task EXCEPT ![p] = "look"]
  /\ UNCHANGED <<fs, step, bankVars>>

\* An unmounted bank, no mount override, and no trace of an earlier attempt.
Look(p) ==
  /\ task[p] = "look"
  /\ ~mounted
  /\ \A t \in {"dropin", "core", "roots", "intent", "complete"} : Absent(fs, Parent(t), t)
  /\ Last(p, "go", fs)
  /\ UNCHANGED bankVars

Bug_IntentNotSynced(p) ==
  /\ task[p] \in Creating
  /\ LET t == task[p]  d == Parent(t)  f == <<t, p>> IN
     \/ Absent(fs, d, t) /\ Call(p, "create", "write", Created(fs, d, t, f))
     \/ Call(p, "write", "sync", Written(fs, f))
     \/ Call(p, "sync", "syncdir", FileSynced(fs, f))
     \/ Last(p, "syncdir", IF t = "intent" THEN fs ELSE Synced(fs, d))
  /\ UNCHANGED bankVars

\* record: O_EXCL, the contents, fsync of the file and of its directory.
Record(p) ==
  /\ task[p] \in Creating
  /\ LET t == task[p]  d == Parent(t)  f == <<t, p>> IN
     \/ Absent(fs, d, t) /\ Call(p, "create", "write", Created(fs, d, t, f))
     \/ Call(p, "write", "sync", Written(fs, f))
     \/ Call(p, "sync", "syncdir", FileSynced(fs, f))
     \/ Last(p, "syncdir", Synced(fs, d))
  /\ UNCHANGED bankVars

\* new_directory.
Make(p) ==
  /\ task[p] \in Making
  /\ LET t == task[p]  d == Parent(t) IN
     \/ Absent(fs, d, t) /\ Call(p, "mkdir", "syncdir", Enter(fs, d, t, <<t, p>>))
     \/ Last(p, "syncdir", Synced(fs, d))
  /\ UNCHANGED bankVars

\* The native initializer, then its check, as nia-pkg.
Native(p) ==
  /\ task[p] = "native"
  /\ \/ store = "none" /\ store' = "made" /\ UNCHANGED <<fs, task, step>>
     \/ store = "made" /\ Last(p, "go", fs) /\ store' = "ready"
  /\ UNCHANGED <<child, mounted, ro, losses>>

\* install_mount: both directories are synced only at the end.
InstallMount(p) ==
  /\ \/ /\ task[p] = "dropin"
        /\ Absent(fs, "systemd", "dropin")
        /\ Last(p, "mkdir", Enter(fs, "systemd", "dropin", <<"dropin", p>>))
     \/ /\ task[p] = "conf"
        /\ LET f == <<"conf", p>> IN
           \/ Absent(fs, "dropin", "conf") /\ Call(p, "create", "write", Created(fs, "dropin", "conf", f))
           \/ Call(p, "write", "sync", Written(fs, f))
           \/ Call(p, "sync", "syncdir", FileSynced(fs, f))
           \/ Call(p, "syncdir", "syncparent", Synced(fs, "dropin"))
           \/ Last(p, "syncparent", Synced(fs, "systemd"))
  /\ UNCHANGED bankVars

\* The drop-in that selects the device, as systemd finds it.
Configured(g) == ~Absent(g, "systemd", "dropin") /\ Whole(g, "dropin", "conf") # {}

\* daemon-reload and the start of the mount unit, which mounts read-only.
Mount(p) ==
  /\ task[p] = "mount"
  /\ Configured(fs)
  /\ Last(p, "go", fs)
  /\ mounted' = TRUE
  /\ ro' = IF mounted THEN ro ELSE TRUE
  /\ UNCHANGED <<child, store, losses>>

\* The same unit, started by a service or at boot.
MountUnit ==
  /\ ~mounted
  /\ Configured(fs) /\ ~Absent(fs, "base", "roots")
  /\ mounted' = TRUE /\ ro' = TRUE
  /\ UNCHANGED <<fs, task, step, child, store, losses>>

\* An empty bank, or one with nothing but lost+found.
Fresh(p) ==
  /\ task[p] = "fresh"
  /\ \A e \in fs.now : e.dir = "bank" => e.name = "lost+found"
  /\ Last(p, "go", fs)
  /\ UNCHANGED bankVars

\* The two commands of the inner try are processes of their own.
Spawn(p) ==
  /\ task[p] \in Writable
  /\ step[p] = "spawn"
  /\ child = NoChild
  /\ child' = [of |-> p, does |-> task[p], step |-> IF task[p] = "rw" THEN "remount" ELSE "create"]
  /\ step' = [step EXCEPT ![p] = "await"]
  /\ UNCHANGED <<fs, task, mounted, ro, store, losses>>

\* After `mount -o remount,rw' the empty lost+found goes, not synced.
Reap(p) ==
  /\ task[p] \in Writable
  /\ child.of = p /\ child.step = "exited"
  /\ Last(p, "await", IF task[p] = "rw" THEN Remove(fs, "bank", "lost+found") ELSE fs)
  /\ child' = NoChild
  /\ UNCHANGED <<mounted, ro, store, losses>>

\* The commands themselves, whether or not their installer still waits.
Remount ==
  /\ child.step = "remount"
  /\ ro' = FALSE
  /\ child' = [child EXCEPT !.step = "exited"]
  /\ UNCHANGED <<fs, task, step, mounted, store, losses>>

\* provision_bank: bank.json as a record, then an empty bank.lock.
Provision ==
  /\ child.does = "provision" /\ ~ro
  /\ LET json == <<"bank.json", child.of>>
         Go(to, after) == child' = [child EXCEPT !.step = to] /\ fs' = after
     IN
     \/ child.step = "create" /\ (\A e \in fs.now : e.dir # "bank")
        /\ Go("write", Created(fs, "bank", "bank.json", json))
     \/ child.step = "write" /\ Go("sync", Written(fs, json))
     \/ child.step = "sync" /\ Go("syncdir", FileSynced(fs, json))
     \/ child.step = "syncdir" /\ Go("lock", Synced(fs, "bank"))
     \/ child.step = "lock" /\ Absent(fs, "bank", "bank.lock")
        /\ Go("resync", Enter(fs, "bank", "bank.lock", <<"bank.lock", child.of>>))
     \/ child.step = "resync" /\ Go("exited", Synced(fs, "bank"))
  /\ UNCHANGED <<task, step, mounted, ro, store, losses>>

\* An orphan's exit.
ChildEnds ==
  /\ child # NoChild
  /\ task[child.of] \notin Writable
  /\ child.step = "exited"
  /\ child' = NoChild
  /\ UNCHANGED <<fs, task, step, mounted, ro, store, losses>>

\* Everything that was written goes to disk with a remount to read-only.
Settled == [Synced(fs, "bank") EXCEPT !.loose = {f \in @ : f[1] # "bank.json"}]

\* The finally, after success; after an error see Undo.
Readonly(p) ==
  /\ task[p] = "readonly"
  /\ Last(p, "go", Settled)
  /\ ro' = TRUE
  /\ UNCHANGED <<child, mounted, store, losses>>

\* verify_mount_configuration, and what the kernel says of the mount.
Verify(p) ==
  /\ task[p] = "verify"
  /\ Configured(fs) /\ mounted /\ ro
  /\ Last(p, "go", fs)
  /\ UNCHANGED bankVars

\* An error: outside the inner try nothing is undone; inside it a command that
\* is still running is killed, and the bank remounted.
Fail(p) ==
  /\ task[p] \in Running \ {"undo"}
  /\ task' = [task EXCEPT ![p] = IF @ \in Writable THEN "undo" ELSE "failed"]
  /\ child' = IF child.of = p THEN NoChild ELSE child
  /\ UNCHANGED <<fs, step, mounted, ro, store, losses>>

Undo(p) ==
  /\ task[p] = "undo"
  /\ task' = [task EXCEPT ![p] = "failed"]
  /\ \/ ro' = TRUE /\ fs' = Settled
     \/ ro' = ro /\ fs' = fs
  /\ UNCHANGED <<step, child, mounted, store, losses>>

\* SIGKILL: no finally runs, and the command goes on.
Kill(p) ==
  /\ task[p] \in Running
  /\ task' = [task EXCEPT ![p] = "failed"]
  /\ UNCHANGED <<fs, step, bankVars>>

PowerLoss ==
  /\ losses < MaxLosses
  /\ losses' = losses + 1
  /\ fs' \in Crashed(fs)
  /\ task' = [p \in Installers |-> IF task[p] \in Running THEN "failed" ELSE task[p]]
  /\ child' = NoChild
  /\ mounted' = FALSE /\ ro' = TRUE
  /\ UNCHANGED <<step, store>>
-----------------------------------------------------------------------------
Installer(p) == \/ Start(p) \/ Look(p) \/ Record(p) \/ Make(p) \/ Native(p) \/ InstallMount(p)
                \/ Mount(p) \/ Fresh(p) \/ Spawn(p) \/ Reap(p) \/ Readonly(p) \/ Verify(p)
                \/ Fail(p) \/ Undo(p) \/ Kill(p)

Next == \/ (\E p \in Installers : Installer(p))
        \/ MountUnit \/ Remount \/ Provision \/ ChildEnds \/ PowerLoss

Spec == Init /\ [][Next]_vars

\* check_bank, as far as what is stored decides it: the drop-in, the two records
\* of one installer, and the presence of the bank's files.
Passes(g) ==
  /\ Configured(g)
  /\ \E p \in Installers : <<"intent", p>> \in Whole(g, "base", "intent")
                           /\ <<"complete", p>> \in Whole(g, "base", "complete")
  /\ ~Absent(g, "bank", "bank.json") /\ ~Absent(g, "bank", "bank.lock")
-----------------------------------------------------------------------------
Files == {"intent", "complete", "conf", "dropin", "bank.json", "bank.lock", "lost+found"} \cup Making
Owned == Files \X (Installers \cup {NoInstaller})

\* Every variable stays in its range, and O_EXCL lets one installer past the intent.
TypeOK ==
  /\ fs.now \cup fs.disk \subseteq [dir : {"base", "core", "systemd", "dropin", "bank"},
                                    name : Files, file : Owned]
  /\ fs.torn \cup fs.loose \subseteq Owned
  /\ task \in [Installers -> Tasks]
  /\ step \in [Installers -> {"go", "create", "write", "sync", "syncdir", "mkdir", "syncparent",
                              "spawn", "await"}]
  /\ child \in [of : Installers \cup {NoInstaller}, does : {"none", "rw", "provision"},
                step : {"none", "remount", "create", "write", "sync", "syncdir", "lock",
                        "resync", "exited"}]
  /\ mounted \in BOOLEAN /\ ro \in BOOLEAN
  /\ store \in {"none", "made", "ready"} /\ losses \in 0 .. MaxLosses
  /\ Cardinality({p \in Installers : task[p] \in Running \ {"look", "intent"}}) <= 1

\* No power loss can forget the intent and keep anything that was made after it
\* (the directories, the mount override, the bank's files): the tool never finds
\* a half-made store that looks untouched.
IntentOutlivesEffects ==
  \A g \in Crashed(fs) :
    (\E t \in {"core", "roots", "dropin", "complete", "bank.json", "bank.lock"} : ~Absent(g, Parent(t), t))
      => ~Absent(g, "base", "intent")

\* Whatever passes the check at a start of the root-session service, now or
\* after any power loss, is all there: the store was checked by its own tool,
\* and the bank's record is whole.  A bank that is writable, also one left so by
\* a killed installer or by the command that outlived it, never passes.
CheckedIsWhole ==
  /\ \A g \in Crashed(fs) \cup {fs} :
       Passes(g) => /\ store = "ready"
                    /\ Whole(g, "bank", "bank.json") # {}
                    /\ \A t \in Making : ~Absent(g, Parent(t), t)
  /\ mounted /\ ~ro => ~Passes(fs)

\* An installer that reported success has left a store that passes the check
\* after any power loss.
SuccessIsDurable ==
  \A p \in Installers : task[p] = "done" => \A g \in Crashed(fs) : Passes(g)

\* Neither an attempt nor a success is ever forgotten: the order of the records'
\* syncs and the effects (storage_bootstrap.py:184, 238) holds at every power loss.
NothingIsForgotten == IntentOutlivesEffects /\ SuccessIsDurable
=============================================================================
