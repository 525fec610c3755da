# Specifications of the Niayan native package core

TLA+ models of the parts of this repository that carry state across processes,
crashes and messages, the TLC runs that check them, and TLAPS proofs of the
properties that matter most. Every definition that stands for code is listed in
`PROJECT.json` (`map`) with the lines it translates.

    tlc -workers 2 -config BankSession.cfg MCBankSession.tla
    tlapm BankSession_proofs.tla

## 1. The system

Niayan replaces APT/dpkg with a native package system, Nia. What is in this
repository of it is the privileged Python around a verified core, a C worker,
and the tools that observe archives. A package transaction runs as follows.

* A **client** of the management socket (`native/management_client.py`) sends a
  request; the **management service** (`management_service.py`) forwards it to
  the core, which returns a plan; the user confirms exactly that plan
  (**plan consent**, `plan_consent.py`).
* The **root supervisor** (`root_supervisor.py`) then holds everything the
  transaction depends on in one thread: the consent, two observer processes
  (**operator guard**: is the user still authorized; **supply guard**: is the
  supply policy still current), the private channels to at most two package
  workers (**root handoff**), and the connection to the
  **root-session controller**.
* The controller (`root_session.py`) owns a dedicated filesystem, the **bank**
  (`root_bank.py`). It opens the bank for writing exactly once, has a
  capability-reduced child (`root_session_worker.py`) and an ELF worker
  (`worker/root_extract.c`) extract the root archive into it, under the
  **worker monitor** (`root_worker_monitor.py`), remounts the bank read-only,
  verifies it with a second worker, and holds it frozen
  (`root_freeze.py`) while the client observes it. It is a single process that
  serves one connection after the other; two stop hooks of its service seal the
  bank if it is killed.
* Around it: provisioning of the bank (`storage_bootstrap.py`,
  `bank_device.py`), of the supply state (`supply_initialize.py`) and of the
  archive observer; the signed **repository** cache (`repository.py`); the
  **archive observer**, which verifies an archive under the repository's policy
  and issues receipts that expire (`archive_*.py`); **media** directories and
  their index (`media.py`); the **deferred trigger** reference
  (`tools/debian_trigger*.py`); the tools that authenticate an archive copy
  (`debian_archive_auth.py`), order versions (`debian_semantics.py`) and collect
  a build's sources (`image/collect-sources.py`, `release/complete-sources.py`).

| component | state | operations | talks to |
|---|---|---|---|
| root session | position in `serve_session`, the session, the locals that own descriptors | accept, barrier, open, prepare, seal, freeze, verify, observe, hold, clean up, seal after stop | clients (socket), child (fork/pipe), kernel (remount), systemd |
| bank | superblock read-only flag, seven records and directories, the tree | create/write/fsync, prepare, verify, inspect | controller, child |
| worker monitor | the process group | spawn, done, cancel, wait | child, requester's socket |
| ELF worker | running, writing, done | extract, verify, die | child (parent-death signal) |
| root supervisor | place in an operation, observation ages | prepare, reinspect, finish, wait, close | all of the following |
| session client | phase, peer | prepare, observe, receive, finish, abort | controller |
| handoff channel | phase, received descriptors | receive, complete, close | worker |
| observers | phase, pending request, its time | request, receive, close | helper processes |
| consent | phase | offer, confirm, check, close | the user |
| management service | the connection it serves, its child, the per-user history | accept, read, admit, query, answer, refuse | clients (socket), `catalog_query`'s child, systemd |
| management client | phase of one command, what was told | connect, send, offer, confirm, result | the service, the terminal |
| repository cache | checkpoint, lock, staged roles | enter, refresh, target, revalidate, publish, close | the mirror, readers of the same cache |
| archive observer | one request and what it read for it | accept, session, policy, verify, revalidate, sign, deliver | repository, clock, the site's files, its client |
| provisioning (three programs) | files and directories made so far | one start each, system call by system call | file system, mount unit, readers |
| media | the directory, its index, a lock | list, make the index | writers without the lock |
| archive authentication | the files of one copy | read Release, index, binary, source | the mirror's synchronisation |
| source collection | report, files, position | start, resume, fetch, check, save | network, the operator |
| deferred triggers | pending, awaited, running | activate, start, observe success | the native adapter |

What makes it hard: a power loss or SIGKILL between any two statements; a worker
that is killed but not yet dead, and so keeps a file open or a lock held; a
cancellation from the user, a deadline and an answer that arrive in any order;
authority that is withdrawn between its observation and the effect it allowed;
and the order in which descriptors are released and answers are sent. The
properties that make each component correct are stated with the modules below,
and `PROJECT.json` (`hazards`) lists each hazard at its line.

## 2. Modules

| module | what it is |
|---|---|
| `OneShotBank` | what the bank promises: fresh, open once, then sealed for good; "frozen" is said only of a sealed, whole tree |
| `BankSession` | the controller, the bank's disk, the child and worker, clients, stop hooks, power loss |
| `BankSessionProps` | its properties, the refinement to `OneShotBank`, and the inductive invariant `BankInv` |
| `MCBankSession` | model values and symmetry |
| `BankSession_proofs` | the theorems |
| `RootSupervisor` | the supervisor's thread composed with its session client, observers, consent, channels, and the environment of each |
| `RootSupervisorProps` | its properties |
| `RootSupervisor_proofs` | the theorems about it |
| `CrashFiles` | operators: directory entries and file contents, and what a power loss may leave of them |
| `SupplyInitialize` | the one-time initialisation of the supply state, system call by system call |
| `StorageBootstrap` | the one-time provisioning of the bank, its commands, its mount unit, `check_bank` |
| `ObserverBootstrap` | the one-time provisioning of the archive observer's cache and history |
| `RunsOnce` | what a program that may run once promises |
| `MCInstallers` | the instance for those three, and what each has of `RunsOnce` |
| `MCInstallers_proofs` | the theorems about them |
| `Triggers` | operators: activations, routing and propagation of deferred triggers |
| `TriggerState`, `MCTriggerState` | the trigger state machine: activate, start, observe_success |
| `TriggerRelease` | the loop inside observe_success, one edge at a time |
| `MCTriggerChains` | chains and cycles of three packages, and the loop |
| `TriggerState_proofs` | the theorems about `TriggerState` and `TriggerRelease` |
| `RepositoryCache`, `MCRepositoryCache` | the signed repository's cache: sessions, checkpoint, lock, stale mirrors |
| `RepositoryCache_proofs` | the theorems about it |
| `ArchiveObserver` | the service that issues receipts, its client, the clock and the site's files |
| `ArchiveChain` | authentication of a binary and its source in a copy that changes |
| `Media` | listings and the index of a directory of archives that changes |
| `VersionOrder` | the order of Debian versions, against sort keys |
| `TarClocks` | the numbers and times of tar headers, in machine integers |
| `MCArchives` | the instance for those five |
| `MCArchives_proofs` | the theorems about `ArchiveObserver`, `ArchiveChain` and `Media` |
| `MCParsers_proofs` | the theorems about `VersionOrder` and `TarClocks` |
| `ManagementService` | the package service with its query, clients and systemd |
| `ManagementClient` | one command from the user to its result |
| `SourceCollection` | the collectors of sources, interrupted and resumed |
| `MCRestarts` | the instance for those three |
| `MCRestarts_proofs` | the theorems about them |

An `MC` module for several programs that share no state takes them one at a
time: the variable `program` (`scenario` in the triggers' one) is chosen in the
initial state and never changes, the programs it does not name stay where they
began, and their variables are `"unused"`. Such a run is the union of the runs
of its programs. A module that is reached by `INSTANCE` states what it assumes of
its constants as a definition, which the `MC` module assumes. Its constants are
constants of the `MC` module and get their values in the configuration, wherever
something is proved of it: what is proved then holds for all values, not only for
those of the run.

### BankSession

`ctl` is the position in `serve_session`, one value per statement that another
process can be interleaved with; `attempt`, `bank`, `held`, `frozen` are its
locals. The inner `finally` (root_session.py:130) is `Seal`, the outer one
`Cleanup` with the three steps of writing the completion record. A durable
record is `absent`, `torn` (created), `written` (not synced) or `durable`;
`RecordCreate`, `RecordWrite` and `RecordSync` are the statements of
`storage_bootstrap.record` and `root_bank.new_record`. `PowerLoss` keeps,
loses or tears whatever was not synced and brings the bank back read-only, as
the mount unit does. `child` and `elf` are the two processes below the
controller: being killed (`dying`) and having exited are different states,
since the inherited lock and the open files go only with the second;
`LockFree` and `Writing` say what they still hold. The kernel's refusal to
remount a filesystem with open writers is the second disjunct of `Readonly`.
`Kill` ends the controller without running any `finally` and queues the stop
hooks (`SealCheck`, `SealRemount`).

Properties: `FrozenIsForever`; `RecordsAreTrue` (what the completion and the
result say holds for whoever reads them); `ChildrenStayInside` (the child at work
belongs to the session, and none is left with a copy of the client's descriptors
when "frozen" is sent); `ImplementsOneShotBank` (refinement); liveness
`BankIsSealedAgain` (no writable window stays open, killed controller or not) and
`EveryConnectionEnds`.

### RootSupervisor

One thread, so `at` is where it is: in the wait loop (`loop`, `poll`), at a
boundary (`checkpoint`, `ask`, `admit`), in an operation's effect or in
`close`. `_current` is one predicate (`Current`): everything it reads stays
broken once it breaks, so the order of its parts decides nothing. A turn of the
loop up to its `poll` is one step (`Tend`) for the same reason: what another
process does between the two observers might as well have happened just before.
Every other statement is an action of its own. Times are what the code compares
them with: an observation is `new`, due for renewal after 250 ms (`due`), or
over 1000 ms old (`stale`); a request is `late` or not; the deadline has passed
or not. A helper observes the truth after it has been asked, and answers only
what is true. Budgets on iterations (16384 turns, 1200 checks) are failures
that may come at any time.

`fit` is a history variable: it records at each `Checkpoint` whether all of the
authority was there, and is consumed by the effect. `BoundaryAuthority` says no
request is sent and no worker is answered unless it is set. It fails as soon
as a check that was pending before the boundary is taken for the boundary's
(`Bug_PendingIsFresh`), which is what root_supervisor.py:161 avoids.
Others: `OneRequest`, `AnsweredMeansDone`,
`ControllerCutFirst`; liveness `OperationEnds`, `CancelReachesController`.

The controller here is its interface (asked, held, closing, gone). Its detail is
`BankSession`.

### SupplyInitialize and StorageBootstrap

Both programs may run once on a machine, and must leave either everything or
something that refuses to be taken for it. The two modules follow `initialize`
and `initialize_selected` system call by system call over the file system of
`CrashFiles`: an entry and its file's contents become safe separately, by the
fsync of the directory and of the file, and a power loss keeps any part of the
rest. `Order` is the sequence of statements, `task` the one an installer is at,
`step` its next system call. Every call may fail or be the last before a kill.
In `StorageBootstrap` the two commands of the inner `try` (`child`) are
processes of their own, which go on when the installer is killed. Both models
contain who reads the result: the supply observer, and the mount unit with
`check_bank`.

`EffectsStayInOrder`, a part of `PairIsLasting`, and the first part of
`NothingIsForgotten` say that no power
loss can forget that an installer began and keep something it made, nor keep the
floor without the policy. `ReaderSeesOnePair` is about the two publications by
link and unlink, as readers find them; `CheckedIsWhole` about what the start
check lets through, also from a killed installer; `CompletionIsLasting`, the other
part of `PairIsLasting`, and the second part of `NothingIsForgotten` about what a
report of success is worth.

`RunsOnce` is what these two and `ObserverBootstrap` have in common, stated without
files: an attempt begins only when none has, what others read is accepted only when
one has begun and then stays so, success is reported only of what is accepted, and a
power loss may forget the attempt, or undo or complete what is accepted, only before
success has been reported. `ImplementsRunsOnce` says that each of the three programs
does this. An attempt has begun when the entry of its intent or attempt record is in
its directory (`Begun`); `Accepted` is what the next program in line goes by: an
acceptable history, a pair that the readers accept in place, a store that passes
`check_bank`; and `Reported` are the starts that have returned success. It says more
than the invariants about single states: of what a *step* may take back, and
that a second start of the same program begins only where a power loss has forgotten
the first, and with it all that readers would accept.

The native initializer and the native reader are external and modelled as the
Python code uses them; the probing of the device is one failure. The base
directories exist beforehand, and the loss of a directory's own entry is not
followed down to what is in it.

### Triggers, TriggerState and TriggerRelease

`pending`, `awaited` and `running` are the tables of
`tools/debian_trigger_state.py`; `Activate`, `Start` and `ObserveSuccess` are
its methods, and `Operate` and `ChangeFile` are where `debian_triggers.py` gets
activations from. The routing operators are in `Triggers`; `LetGo` is what the
loop at debian_trigger_state.py:151 computes, stated as a least set of packages.
That the loop computes it is a question of its own: `TriggerRelease` takes every
valid state of four packages and runs the loop, edge by edge. `Handle` is a
handler's success; its report stays in `reports`, so it may come late or again.
`owed` is a history variable: the activations that no handler which began after
them has served, and who waits for them. An attempt's digest is the batch itself,
which is what it is a digest of; encodings and the byte limit of a checkpoint are
not modelled, and a restart is a reload of the same state. Cycles of waits stay,
as the tool's documentation says.

`ActivationsAreKept` relates `owed` to the tables: neither an activation nor the
wait for it is lost to a handler that began before it. `WaitEndsWhenFree` says
that a wait ends only with a batch, for a package that then has no work and waits
for nobody; `ReportEndsItsBatch` that a running batch ends only with its own
report, and that no attempt is begun under a number that was reported before;
`LetsGoTheLeast` that the loop, in whatever order it comes to the waiters, takes
each wait off once and lets go exactly `LetGo`.

### RepositoryCache

A session is a process between `__enter__` and `close`; `stage` is its temporary
directory, `digest` its `checkpoint_digest`, `asked` whether the commit it is in
belongs to `target`. A role's metadata is the number of the publication it came
with; the private copy is refreshed role by role with any version a mirror may
still have, subject to what python-tuf checks (signed by the root's keys, not
older than a trusted one under the same keys). The checkpoint is a file with its
contents and whether they were synced; `now` is what its name shows, `disk` what
a power loss would leave. `cut` remembers that a publication ended between its
replacement and the sync of the directory.

### ArchiveObserver and ObserverBootstrap

`service.at` is the statement of `handle`, `authenticate`, `revalidate_target`,
`issue` or `sign_authenticated` that comes next; the record `service` is what the
process has read so far: the versions of configuration and keyring, each reading
of the clock that a later one is compared with, the dates of policy, archive and
metadata, and the receipt. Between any two steps the clock moves on or is set
back, an administrator replaces a file, and `Reject` ends the request: it stands
for every other check (signatures, digests, the provider, monotonic deadlines)
and for a kill. `EvidenceOutlivesReceipt` says that a receipt a client gets never
expires after the first of the things it rests on and states a time at which all
of them were valid, although each was looked at in its own call;
`SignedUnderStandingFiles` that the files it was issued under stood when it was
signed, which the second look before delivery is for.

`ObserverBootstrap` follows `provision` over the file system of `CrashFiles`:
`write_new` publishes a synced temporary file by a link, so that a file under its
name is whole; a reader demands one link. `ObserverIsLasting` says that a history
which `handle` accepts stands beside a cache of the same attempt that opens, that
an interrupted attempt stays visible, and that a reported success is accepted
after every power loss.

### ManagementService and ManagementClient

`pc` is the statement of `serve` or `query`; each connection has its link, what
its client sent, whether the client disturbed (left, or sent more), its child and
the child's output. A child writes, closes its output and exits in any order, or
hangs; a descendant may hold its pipe; a killed one may not end within the five
seconds the service waits (`unkillable`). Time is counted in ticks of what is
left. `NoQueryLeftBehind`: whatever ends a query, its process is reaped before
the service goes on, except one that SIGKILL did not end in time.
Errors that nothing in the model decides (no pidfd for the child, output past its
limit, a used-up budget of events: `Fault`; a list that cannot be presented:
`Deliver`) may happen and are not under fairness, so no query is counted on to end
by one of them. `AnswerIsWhole`: a list is sent once, to the client whose own child wrote all of
it and exited with success. `EveryConnectionEnds`: silent clients and hanging
children do not keep the others in the backlog for ever.

`ManagementClient` is one command: the client's `execute` and `confirm`, the
terminal with lines typed at any time, and the service's `PlanConsent`. What plans
and commits behind the service is not in the repository; it may do anything,
except claim a commit that did not happen or a refusal of one that did.
`ReportIsTrue` is what the user is told: "no request was sent" only if none
arrived, "cancelled" and a refusal only if nothing is ever committed, exit status
0 for a change only after a commit. `CommittedMeansYes` is about the step that
commits: behind it is a yes typed after the terminal was flushed, and when it is
taken the offer's time is not over and the client that sent the yes still waits. A
yes is looked at twice, when it is received (plan_consent.py:249) and when it is
used (line 271); only the second look keeps a client that has ended meanwhile, or a
planner that was too slow, from a commit.

### SourceCollection

Both collectors save a report after every source and are resumed from it; `job`
is the tool and its sources. A source's file is absent, partly there or whole; a
row of the report says it was verified. Files are never synced, the report is.
`PassMeansChecked`: a run that passes has seen every file whole after whatever
happened, those of earlier runs' rows included. `RowsAreKept`: no interruption of
`save` and no power loss takes a saved row. `ResumeFinishes`: a recorded build
passes in the end when it is started again, with an exception that Findings
explains.

### ArchiveChain and Media

Both read several files one after the other while others replace them.
`ArchiveChain` is `verify_source` with the `verify_snapshot` it calls: index files
of different publications may be read, files may break and be repaired, and
`OneRelease` says that what is joined in a manifest (binary, source, all its
members) is named by one Release. `Media` is `inspect`: its lock excludes other
commands but no writer, and what makes a listing right is the second look at
names, directory and files. A token is what `stat` tells; `stale` is what has
changed since it was taken. `ListingIsOneMoment` says that a listing is what the
directory held at one moment of the command, `IndexIsTrue` that the index, now
and after a power loss, is whole and was true at some moment.

### VersionOrder and TarClocks

Pure algorithms, checked over all short inputs against a definition of another
shape. `compare` walks two texts character by character; `CompareIsDebianOrder`
says that its answer is the order of sort keys (so it is total and transitive).
`integer` and `clock_text` count digit by digit in a signed integer;
`ReadsWhatIsWritten` says that each text is read as the number it denotes or is
refused, and that no intermediate result leaves the type (the run computes with
5 bits in place of 64, whose least number is a power of the octal base and no
multiple of the radix, as the real one is; a result outside is `Undefined`).

## 3. Runs

| run | bounds | shows |
|---|---|---|
| `bank_safety` | 2 sessions, 1 power loss, remount failures, stop hooks that may run before the cgroup is empty | all safety properties and the refinement |
| `bank_liveness` | 1 session, no power loss, no spontaneous remount failure | no window stays open, every connection ends |
| `bank_let_go` | as above | `LetGoReadonly` fails: see Findings |
| `supervisor_safety` | 2 handoffs, any 2 faults | the safety properties and `BoundaryAuthority` |
| `supervisor_liveness` | 2 handoffs, any 1 fault | the two liveness properties |
| `installers` | 3 starts of each of the three programs, 2 power losses, 2 configurations of the observer | one pair is ever accepted, nothing half made or writable passes a check, a second start finds the first, success lasts; each implements `RunsOnce` |
| `trigger_reports` | 2 packages, word and file triggers in both modes, 3 events, 2 routes, revision 6, late and repeated reports | no activation or wait is lost, no old report ends a new batch |
| `trigger_chains` | 3 packages, every pattern of up to 3 waits, 2 events; every valid state of 4 packages for the loop | waits end neither early nor late; the loop agrees with the least set |
| `repository_sessions` | 2 processes, 3 publications, a key rotation, 2 power losses, unlimited failures and kills | the checkpoint is whole, trust does not go back |
| `repository_publication` | 2 processes, 2 publications, no power loss | `PublishedBeforeReturned` fails: see Findings |
| `archives` | observer: 1 client, 2 versions of each file, times 0 to 3, 1 reversal; chain: 3 publications, 2 breaks; media: 2 commands, 2 files, 2 archives, 2 changes, 1 power loss; versions of up to 4 characters of 7 classes; texts of up to 7 characters, fields of 5 bytes | receipts, manifests, listings and the index are about one moment; both algorithms agree with their definitions |
| `restarts` | service: 2 of 3 connections of 2 accounts, 1 stop; command: 3 typed lines, offers of 2 ticks; collection: 3 jobs with every kind of source, 3 interruptions, 2 power losses | what is left behind, told and recorded by programs that end in the middle; three liveness and action properties |

Two sessions are enough for the first because the bank's records are what one
session leaves to the next and there is one controller: a third session meets
the same records as the second. One power loss reaches every record state; a
second one only loses again what a first one could have lost. `MaxFaults`
bounds how many things of the supervisor's world go wrong; each of them leads to
the same `close`, and two are enough for one to be masked by another. Of three
installers two may overlap and the third comes after; all that one leaves to the
next is in the file system. Two packages are enough for what
concerns one receiver and one who waits for it; chains and cycles need three,
and the release loop four (a wait shared by two packages, one of them at the end
of a chain). Revision 6 lets the same batch be begun, reported, activated and
begun again. Three publications let a key rotation lie between two others; the
lock admits one session at a time, so a third process would add nothing to two.
The observer serves one connection at a time and keeps nothing between two, so one
client is enough; four times let each date lie before, between and after the
readings. Three publications let a binary be rebuilt and its source replaced;
two media commands are a reader and an indexer, two readers, or two runs of one.
The service's limits are 1 (one query per account, one account in the history,
one tick), where each of them bites; three lines are one before the flush, one
between flush and display, one after. Of a collection's three interruptions one
may hit each of fetch, record and save of the same source.
Deadlock is checked where the system cannot stop, in the repository's runs; the
others may stop (the backlog is empty, the supervisor is closed, the installers
or the revisions are used up, a comparison has its answer).

Fairness. In `BankSession` the controller's process runs, the clock passes the
deadline, a killed process finishes dying, and systemd runs a queued stop hook
(`KillMode=control-group`, `ExecStopPost`, `OnFailure` of
packaging/root-preparation). Nothing is assumed of clients, of workers, or of
kills. `EveryConnectionEnds` additionally assumes that kills stop. The monitor's
cancellation is fair only when its condition holds. In `RootSupervisor` only
the supervisor's own thread is fair: not even the clock is, so `OperationEnds`
starts from a deadline that has passed. In `restarts` the service's process is
fair and so is the clock; its clients may never send and its children never end.
`ResumeFinishes` assumes what its sentence says, that the operator starts the
collector again and that it runs on; interruptions are bounded.

## 4. Proofs

`BankSession_proofs` proves, for every set of sessions and every bound:

* `TypeCorrect`: `Spec => []TypeOK`;
* `FrozenForGood` and `RecordsTrue`, the two invariants of the run, and the parts
  they rest on: `OpenedAtMostOnce`, `BarrierIsDurable` (the bank is writable only
  behind the durable first-use record), `CompletionMeansSealed`,
  `ExtractedIsWhole`;
* `Refinement`: `Spec => ImplementsOneShotBank` (the run checks this; it implies
  `OpenedOnce`, which the run therefore does not repeat);
* `NobodyOutlives`: `Spec => []ChildrenStayInside`.

The assumptions are the two `ASSUME`s of `BankSession`: the null session is not
a session, and the bounds have their types.

None of the invariants is inductive. `OpenedOnce` holds because the barrier
record blocks the way to `OpenBank`, which needs to be known at each place of
`serve_session` between the two (`BarrierInv`). `FrozenIsForever` needs that a
result is recorded only once and only after a worker that succeeded
(`ResultInv`), that the child at work is the one the controller waits for and
that a worker with open files keeps the kernel from remounting (`WorkersInv`),
and what the controller has already established at each later place
(`SessionInv`). `CompletionInv` says who may have written the completion record.
Their conjunction `BankInv` with `TypeOK` is inductive (`BankInvariant`), and it
was itself checked with TLC before it was proved. The proof goes action by
action; steps that touch no part of a conjunct are dispatched by the case
lemmas (`ControlFlow`, `SuperblockFlow`, `RecordFlow`, `TreeFlow`), which say
once and for all which steps change what. `ChildrenStayInside` has an induction of
its own (`InsideInv`): after the worker has been reaped none runs, after the
verifying child has been reaped nothing below the controller does, and the bank is
held from `select` to whatever ends the session.

`RootSupervisor_proofs` proves, for any workers, deadlines and number of faults:
`TypeCorrect`, `OneRequestHolds`, `AnsweredMeansDoneHolds`, `ControllerCutFirstHolds`
and `BoundaryAuthorityHolds`. One invariant (`IInv`) carries them all: what exists
before the constructor and after the first step of `close` (`Watched`), what the
controller can have said (`Letters`) and about whose channel (`Evidence`), where that
channel is from the hand-over to the answer (`Channelled`). Authority can be lost
between any two statements, so `Strength` does not say that it still stands: what was
lost before a boundary began is still lost, and stops the boundary at an observation
that its helper will never answer.

`TriggerState_proofs` proves of the trigger tables, for all packages,
declarations, paths and limits that satisfy the `ASSUME`s of `TriggerState`:
`TypeCorrect`, `NoOrphanWait`, `ActivationsKept`, `WaitersKept`, the last two
together as the run checks them (`ActivationsAndWaits`), and `WaitsEndWhenFree`.
The first four are one induction over `Invariant`. That an awaited package always
has work behind it, which `__post_init__` demands (`AwaitedIsOutstanding`), is
proved here and no longer run.
`NoActivationLost` is not inductive alone: the end of a batch takes its names
away, so one must know that a batch whose report exists owes nothing any more
(`ReportedIsServed`). That no wait is left without work behind it
(`AwaitedIsOutstanding`) rests on three lemmas about `LetGo`: it is closed under
the loop's rule, it is the least such set, and its members have no work and wait
only for each other. `ReportsEndOnce` follows from the numbers that attempts carry.
`TheLeastIsLetGo` is about the loop itself, for any finite set of packages
(`LoopAssumption`) and any valid waits. Its invariant (`LoopInv`) relates the queue
to the waits: who is in the queue is free and nobody's wait for it has been taken
off (so none is taken off twice), who has been freed is in the queue, or is the one
being worked on, or nobody waits for it any more (so nobody is missed), and whoever
has been freed is in every closed set (so nobody is let go without reason). `OperationCovered` and `FileCovered` say that routing
reaches every interest of everything that was asked for, with at least the mode
that was asked for.

`RepositoryCache_proofs` proves, for all processes, publications, rotations and
power losses: `TypeCorrect`, `CheckpointComplete`, `TrustDurable`, `NoRollback`.
The invariant (`CacheInv`) says what a session may rely on at each place: after
the load its `digest` is the checkpoint (the lock keeps everyone else off), its
copy is never older than that, and it is coherent except between two roles of
the refresh, where `NewRoot` and `NewTimestamp` say what is mixed. The files'
part says that the checkpoint under the name is never older than the one on
disk, and that the two differ only while a session is before the sync of the
directory, or after a cut. The one arithmetic fact is that epochs grow with
versions (`EpochMonotone`): a timestamp that the new root's keys have signed is
later than one that only the old root's keys have, so discarding the old one
does not go back.

`MCRestarts_proofs` proves of the management programs and the collection, for all
connections, limits, times, lines, sources and interruptions:

* `QueriesAreReaped` and `OwnWholeAnswer` of the service, from `ServiceInv`:
  `Queueing` says that a connection waits once and one at a time is served, `Progress`
  what has become of its query and its answer at each place of `serve`;
* `WhatIsToldStaysTrue` and `ConsentIsFresh` of one command, from `CommandInv`: what
  the client marks of its request and the service can know of it (`Requests`), the
  consent from the typed line to the commit (`Consent`), and the result from the
  service to the user (`Outcome`). `ConsentIsFresh` is of steps: only `Commit`
  changes the effects, and what it looks at adds to what `Consent` knows;
* `APassIsWhole` and `RowsAreNeverLost` of a collection, from `CollectionInv`: what a
  run has behind it is whole and recorded (`Seen`), where a run that has passed can
  be (`Run`), and the reports in memory, under the name and on the disk are each
  later than the next (`Saved`).

Besides the bounds' types they assume that `"none"`, which stands for nobody, is no
connection, and that a job lists its items in a sequence.

`MCArchives_proofs` proves `OneReleaseIsJoined` of the authentication, by what has
been read when the verification has come to each place (`Joined`); and of a media
directory, for any commands, archives, files, changes and power losses,
`ListingsAreOneMoment` and `TheIndexIsTrue`. A command's first reading is of no one
moment, so `MediaInv` says at each stage how far it can be off: before all has been
read, a file's entry is what the directory holds now or its token is stale
(`Reading`); afterwards, what it was at the moment of the last reading or its token
is stale (`Looking`); while the tokens are looked at again, only the files ahead
can differ (`Comparing`); and when all have been seen none does (`Compared`). The
temporary file has its name only from `Sync` on (`Synced`), so that a power loss
finds nothing torn.

Of the observer it proves, for all clients, floors, lifetimes and bounds on times
and reversals: `TypeCorrect`, `EvidenceOutlives`, `StandingFiles`. Neither property says anything before a receipt is delivered, so the invariant (`IInv`)
carries what the process knows at each stage: `Read` that every date it holds was
after the reading it was compared with, `Known` that the receipt's expiry is
below every date once it is computed, `Bound` that what was signed is bound to
the files read at the start. A clock that is set back between two readings
changes none of that, since each part speaks of readings that were made and not
of the clock; that is why the theorems need no assumption about it.

`MCInstallers_proofs` proves all that the run asks of the three programs, for any
starts, configurations and number of power losses: `ObserverLasts`; `OnePairIsSeen`,
`PairLasts`; `CheckedMeansWhole` and `NothingForgotten`; and `InstallersRunOnce`.
They share one argument. Every effect is made after the one before it is sure to
survive, so an entry, which names the attempt that made it, is evidence of all that
attempt had done before (`Ordered`, `Sequenced`, `InOrder`), in the file system as it
is and in everything a power loss may leave of it. Two attempts would both have their
first record, which `O_EXCL` excludes. The invariants (`BootInv`, `SupplyInv`,
`StorageInv`) add to this, for each task, what is sure when it begins and that nothing
later was made (`Progress`, `Reached`, `Arrived`), and for each system call what those
before it did (`Midway`, `Underway`, `Engaged`). Where an effect is made of two that
are synced together (link and unlink of a publication; the drop-in and its file) the
pair counts as one.
The command that works on the bank may outlive its installer, so `StorageInv` follows
it as an actor of its own (`Follows`): it belongs to an installer that waits for
exactly this command or has ended (`Awaited`), hence no completion has been recorded
beside it, and when it makes the bank writable nothing that passes the check exists.

The refinement, `InstallersRunOnce`, has three parts. From each invariant follows what
is so of the mapped state at every moment (`Sane`: one attempt at most has begun,
nothing is accepted or reported without it). Every step that is no power loss goes
forward (`Forward`): it keeps the attempt and what is accepted, begins one only when
there was none and nothing is accepted after it, and reports only what was accepted
before. A power loss goes backward (`Backward`): it adds no attempt and changes no
report. Two lemmas about `RunsOnce` alone turn these into its steps (`ForwardIsOnce`,
`BackwardIsOnce`). The work is in showing that what readers accept stays accepted: a
pair in place has one link because its staged entry went after the link was sure, and
no later call of that attempt makes it again (`PairStays`); the file of a completion
is torn only when it is made, and then its name was absent (`Filed`).

These theorems assume the types of the bounds, and that the installer which stands
for nobody is none of the starts.

`MCParsers_proofs` proves that both algorithms compute what they are said to compute,
where the run tries only the short texts:

* `ComparesAsDebian`: for all versions, of any length, letters and character codes,
  `compare` answers what the order of their sort keys says; and `CompareIsAnOrder`,
  that this is an order (the sign reverses with the arguments, and it is transitive).
  `_digits` compares lengths and then texts, so it is first proved that this is the
  order of the numbers; `_part` is then shown to stop at the first place where the
  two keys differ, by induction on the length of what is left of the two texts;
* `ReadsAsWritten`: `integer` and `clock_text`, for any bases, any size of the type and
  texts of any length. The bounds are what matters: `Counted` refuses a digit exactly
  when the sum would leave the type (`Radix` need not divide anything), the seconds
  are counted down so that the least number is reached, and the borrow of a negative
  fraction is the floor of the exact quotient.

The installed induction theorems take a predicate as a parameter, which no backend can
be given. So the module states the least number principle of a *set* (`LeastNumber`,
from the library's `WFMin` and `NatLessThanWellFounded`), induction on the size of a
datum as the emptiness of the set of those that fail (`NoneFails`), and recursion as
the fixed point of a functional that is itself a function (`Recursion`). The
recursive functions of both modules take one tuple as their argument so that this
applies. The assumptions are `CodeAssumption` (a character that is neither a numeral
nor a tilde has a positive code) and `SizeAssumption` (the bases are at least 2, a
digit and a byte fit the type).

Model-checked only: liveness under fairness, which is out of the prover's reach
(`BankIsSealedAgain`, both `EveryConnectionEnds`, `OperationEnds`,
`CancelReachesController`, `ResumeFinishes`), and that the code violates what the
two runs of Findings state.

## 5. Findings

`LetGoReadonly` states native/root-session.ja.md:46: a disconnection or an
expired deadline ends the session too, and the controller confirms read-only and
closes its own descriptors. The run finds a session that is let go of with
the bank still writable: the requester leaves during the extraction, the monitor
kills the worker's group and waits for its leader at most, the kernel refuses
both remounts while the dying worker has a file open, and the second refusal is
suppressed (root_session.py:175). No completion is recorded, so nobody is told
anything wrong (`RecordsAreTrue` holds), but the controller goes back to
`accept` and neither stop hook runs.

`PublishedBeforeReturned` states native/repository.ja.md:27-30: the publication
of a checkpoint (sync of the file, replacement, sync of the directory) is
completed before a target is returned. The run has a session killed between the
replacement and the directory's sync. The next one reads the new checkpoint,
finds that its refreshed copy equals it, and returns targets without any sync
(native/repository.py:296). A power loss after that may bring the older
checkpoint back. `TrustIsDurable` and `NeverRollsBack` hold as long as no
publication has been cut at that place, which the history variable `cut`
records.

Four more are stated without a run of their own. The first three sentences are
definitions of their modules; added to the INVARIANTS of the configuration that
is named (with the prefix `program = "command" => Command!` for the second, in
`MCRestarts`), TLC refutes each within a minute.

* `OneQueryAtATime` (`ManagementService`, `Restarts.cfg`) is
  native/management_service.py:6: "One bounded query child is owned and
  supervised at a time." A killed child that does not end within five seconds
  (catalog_query.py:196) is left, the client is refused, and the next connection
  starts another. `NoQueryLeftBehind` holds with the exception `unkillable`.
* `YesAnswersTheShownPlan` (`ManagementClient`) is
  native/plan-consent.ja.md:26-27. `confirm` flushes the terminal and then
  writes the plan (management_client.py:87); a yes typed in between is taken for
  the answer to a plan that was not on the terminal yet. `CommittedMeansYes` is
  what holds.
* `NoReadingGoesBack` (`ArchiveObserver`, `Archives.cfg`) is
  native/archive-receipt.ja.md:39: no receipt is returned when the clock went
  back. Each reading is compared with one other, not with all before it
  (archive_receipt.py:76), so a reversal that has caught up goes unnoticed.
  `EvidenceOutlivesReceipt` holds all the same.
* `ResumeFinishes` (`SourceCollection`) is image/collect-sources.py:209, "resume
  the same recorded build after interruption". `historical_download` copies
  under the final name; an interruption there leaves a part which every later
  run refuses (line 149) until it is removed by hand. The property names that
  exception, `CopyLeftUndone`; without it TLC finds the behaviour.

## 6. Not modelled, and the plan

Modelled data is abstract throughout: digests, names, sizes, mount identities
and the capability mask are one check that may fail. What is left out:

* Parsers, codecs and validators without state: the management grammar, interim
  packages, the archive reader, catalogs, layouts, policies, relations between
  packages, the rules of gpgv's output. A model of one would repeat it.
* `nia_xfs.assess`: one chain of conditions over evidence it is handed.
* Presentation (languages, diagnostics, rendering) and read-only reports.
* Image building, release, boot and hardening scripts, and the campaigns and
  tools under `evidence/`: sequential drivers of QEMU and live-build, and archived
  copies of programs that are modelled in their current form. They are three
  quarters of the repository's Python, so the share of all lines that `map`
  covers stays small (9 %); of the programs in `native/`, `tools/`, `image/`,
  `release/`, `boot/` and `hardening/`, tests aside, it is about a third.
* In `root_extract.c` the walk over the archive, path normalisation and the seccomp
  and capability setup; the worker's part in the protocol and the arithmetic of
  headers are modelled.
* In `RepositoryCache`: writes to the cache by others, a replaced lock file, and
  staging names that multiply. In `Media`: temporary files that a killed command
  leaves (they are no members), a replacement between the last look and
  `os.replace`, which native/media.ja.md excludes from what it promises, and the
  durability of an index that was found equal and therefore not written again. In
  `ArchiveObserver`: a file that is replaced and put back before the second look,
  which compares the bytes and cannot notice it.
* The composition of `RootSupervisor` with `BankSession`: the controller in the first
  is the interface of the second, and the product is out of TLC's reach.

The plan (the bank, the supervisor, provisioning, triggers, the repository, the archive
observer, the management programs, media, archive authentication, source collection,
version order, header numbers, and the abstract programs that the bank and the
installers implement) is done. Next would be a decomposition of the supervisor's
liveness into leads-to steps small enough to be argued one by one.
