---------------------------- MODULE BankSession ----------------------------
(***************************************************************************)
(* The root-session controller (native/root_session.py) and everything it  *)
(* drives: the durable records of the dedicated bank (root_bank.py,        *)
(* storage_bootstrap.record), the read-only state of the bank's            *)
(* superblock (root_freeze.py), the reduced-capability child and the ELF   *)
(* worker below it (root_session_worker.py, root_worker_monitor.py,        *)
(* worker/root_extract.c), the clients of the socket, and the stop hooks   *)
(* that seal the bank when the controller is killed.                       *)
(*                                                                         *)
(* Abstractions.  A request is its session; stage names, digests, mount    *)
(* identities and the capability mask are one check that may fail          *)
(* (`Fault').  A file is what a power loss can do to it: "torn" exists but *)
(* is not a whole record, "written" is whole but not synced.               *)
(***************************************************************************)
EXTENDS Naturals, FiniteSets

CONSTANTS Sessions,       \* the connections clients make, each one request
          NoSession,
          MaxLosses,      \* bound on power losses
          RemountFaults,  \* may a read-only remount fail without a writer?
          SealWaits       \* does systemd run a stop hook only when the killed
                          \* cgroup is empty (no TimeoutStopSec expiry)?

ASSUME SessionAssumption == NoSession \notin Sessions
ASSUME BoundAssumption   == /\ MaxLosses \in Nat
                            /\ RemountFaults \in BOOLEAN
                            /\ SealWaits \in BOOLEAN

VARIABLES
  ro,       \* superblock of the bank filesystem is read-only
  file,     \* durable records and directories, see FileState
  tree,     \* content of <stage>/root
  result,   \* state field of result.json, once written
  opens,    \* history: how often the superblock was made writable
  ctl,      \* where the controller is in serve_session
  cur,      \* the session it serves
  attempt,  \* its local `attempt'
  bank,     \* it holds the bank lock (Bank object open)
  held,     \* it holds the archive and lease descriptors of a message
  frozen,   \* its FrozenRoot is ready
  child,    \* the private Python child
  elf,      \* the ELF worker
  expired,  \* the current request's deadline has passed
  conn,     \* a client's own end of its connection; "over" once its process
            \* has exited or the controller has closed the other end
  queue,    \* connections in the listening socket's backlog
  ask,      \* a message the controller has not read yet
  replies,  \* history: the kinds of answer each client got
  seal,     \* the two stop hooks
  losses    \* power losses so far

disk    == <<ro, file, tree, result, opens>>
server  == <<ctl, cur, attempt, bank, held, frozen>>
workers == <<child, elf>>
clients == <<conn, queue, ask, replies>>
system  == <<seal, losses>>
vars    == <<disk, server, workers, expired, clients, system>>

FileState == {"absent", "torn", "written", "durable"}
Dirs      == {"stage", "root"}
BankFiles == Dirs \cup {"intent", "worker", "result"}
Files     == BankFiles \cup {"attempt", "complete"}
Hooks     == {"stoppost", "onfailure"}

\* serve_session's statements, in order, then the accept loop and a dead process.
InTry     == {"select", "fresh", "create", "write", "sync", "freeze",
              "spawnVerify", "verify", "reapVerify", "observe", "release",
              "ready", "hold", "answer"}
InnerTry  == {"open", "spawnPrepare", "prepare", "reapPrepare", "inspect", "reseal"}
Leaving   == {"refuse", "cleanup", "noteCreate", "noteWrite", "noteSync", "close"}
Serving   == InTry \cup InnerTry \cup {"seal"} \cup Leaving
CtlState  == Serving \cup {"accept", "down"}

ChildAt   == BankFiles \cup {"none", "spawn", "extract", "check", "verify",
                             "exited", "failed", "dying"}
ChildStep == {"create", "write", "sync", "dirsync", "idle"}
ElfState  == {"none", "run", "open", "ok", "failed", "dying", "dyingOpen"}

NoChild == [at |-> "none", step |-> "idle", ok |-> FALSE, of |-> NoSession]

\* A process that has not exited still holds its inherited bank lock descriptor.
ChildAlive == child.at \notin {"none", "exited", "failed"}
ElfAlive   == elf \in {"run", "open", "dying", "dyingOpen"}
Bug_LockIgnoresChild == ~bank
LockFree   == ~bank /\ ~ChildAlive

\* Some process holds a file of the bank open for writing.
Writing == elf \in {"open", "dyingOpen"} \/ child.step \in {"write", "sync"}

\* What a SIGKILL leaves of each process; a kernel exit (ProcessExit) ends it.
DyingElf(e) == CASE e \in {"open", "dyingOpen"} -> "dyingOpen"
                 [] e \in {"run", "dying"}      -> "dying"
                 [] OTHER                       -> "none"
DyingChild(c) == IF c.at \in {"none", "exited", "failed"}
                 THEN NoChild
                 ELSE [c EXCEPT !.at = "dying",
                                !.step = IF @ \in {"write", "sync"} THEN @ ELSE "idle"]

\* A readable record: protected_file and decode accept it.
Readable(f) == file[f] \in {"written", "durable"}

Init ==
  /\ ro = TRUE
  /\ file = [f \in Files |-> "absent"]
  /\ tree = "empty"
  /\ result = "none"
  /\ opens = 0
  /\ ctl = "down"
  /\ cur = NoSession
  /\ attempt = FALSE
  /\ bank = FALSE
  /\ held = FALSE
  /\ frozen = FALSE
  /\ child = NoChild
  /\ elf = "none"
  /\ expired = FALSE
  /\ conn = [s \in Sessions |-> "idle"]
  /\ queue = {}
  /\ ask = [s \in Sessions |-> "none"]
  /\ replies = [s \in Sessions |-> {}]
  /\ seal = [h \in Hooks |-> "idle"]
  /\ losses = 0
-----------------------------------------------------------------------------
(* Clients of /run/niaos/root-session.sock *)

Connect(s) ==
  /\ conn[s] = "idle"
  /\ conn' = [conn EXCEPT ![s] = "open"]
  /\ queue' = queue \cup {s}
  /\ UNCHANGED <<disk, server, workers, expired, ask, replies, system>>

\* The request itself travels with Connect; anything later is one of these.
Send(s, m) ==
  /\ cur = s
  /\ conn[s] = "open"
  /\ ask[s] = "none"
  /\ ask' = [ask EXCEPT ![s] = m]
  /\ UNCHANGED <<disk, server, workers, expired, conn, queue, replies, system>>

\* A client closes its socket, or its process ends (and closes it).
Leave(s, how) ==
  /\ conn[s] \in {"open", "shut"}
  /\ conn[s] # how
  /\ s \in queue \/ cur = s
  /\ conn' = [conn EXCEPT ![s] = how]
  /\ UNCHANGED <<disk, server, workers, expired, queue, ask, replies, system>>

\* CLOCK_BOOTTIME reaches the request's deadline.
Expire ==
  /\ cur # NoSession
  /\ ~expired
  /\ expired' = TRUE
  /\ UNCHANGED <<disk, server, workers, clients, system>>
-----------------------------------------------------------------------------
(* The controller.  Goto is a step of serve_session that touches no storage. *)

Goto(from, to) == ctl = from /\ ctl' = to

\* peer_alive: the connecting task has not exited (its pidfd is not readable).
PeerAlive == conn[cur] # "over" /\ ~expired

\* root_worker_monitor._current: nothing to read from the peer, nor an exit.
Current == conn[cur] = "open" /\ ask[cur] = "none" /\ ~expired

\* Socket activation; a stop hook of the same unit runs first.
Activate ==
  /\ Goto("down", "accept")
  /\ queue # {}
  /\ seal["stoppost"] = "idle"
  /\ UNCHANGED <<disk, cur, attempt, bank, held, frozen, workers, expired,
                 clients, system>>

Accept(s) ==
  /\ Goto("accept", "select")
  /\ s \in queue
  /\ queue' = queue \ {s}
  /\ cur' = s
  /\ held' = TRUE
  /\ expired' = FALSE
  /\ UNCHANGED <<disk, attempt, bank, frozen, workers, conn, ask, replies, system>>

\* Peer, request, boot, device plan and check_bank; then the exclusive bank lock.
Select ==
  /\ Goto("select", "fresh")
  /\ PeerAlive
  /\ ro
  /\ LockFree
  /\ bank' = TRUE
  /\ UNCHANGED <<disk, cur, attempt, held, frozen, workers, expired, clients, system>>

\* Only bank.json and bank.lock, still read-only, and no completion record.
CheckFresh ==
  /\ Goto("fresh", "create")
  /\ \A f \in BankFiles : file[f] = "absent"
  /\ ro
  /\ file["complete"] = "absent"
  /\ UNCHANGED <<disk, cur, attempt, bank, held, frozen, workers, expired,
                 clients, system>>

\* storage_bootstrap.record: O_EXCL create, then write, then fsync file and parent.
Bug_RecordReopened(f) == file' = [file EXCEPT ![f] = "torn"]
RecordCreate(f) == file[f] = "absent" /\ file' = [file EXCEPT ![f] = "torn"]
RecordWrite(f)  == file' = [file EXCEPT ![f] = "written"]
RecordSync(f)   == file' = [file EXCEPT ![f] = "durable"]

CreateAttempt ==
  /\ Goto("create", "write")
  /\ RecordCreate("attempt")
  /\ UNCHANGED <<ro, tree, result, opens, cur, attempt, bank, held, frozen,
                 workers, expired, clients, system>>

WriteAttempt ==
  /\ Goto("write", "sync")
  /\ RecordWrite("attempt")
  /\ UNCHANGED <<ro, tree, result, opens, cur, attempt, bank, held, frozen,
                 workers, expired, clients, system>>

SyncAttempt ==
  /\ Goto("sync", "open")
  /\ RecordSync("attempt")
  /\ attempt' = TRUE
  /\ UNCHANGED <<ro, tree, result, opens, cur, bank, held, frozen, workers,
                 expired, clients, system>>

OpenBank ==
  /\ Goto("open", "spawnPrepare")
  /\ PeerAlive
  /\ ro' = FALSE
  /\ opens' = opens + 1
  /\ UNCHANGED <<file, tree, result, cur, attempt, bank, held, frozen, workers,
                 expired, clients, system>>

\* run_worker's first _current and Popen.
Spawn(from, to, at) ==
  /\ Goto(from, to)
  /\ Current
  /\ child' = [at |-> at, step |-> "create", ok |-> FALSE, of |-> cur]
  /\ UNCHANGED <<disk, cur, attempt, bank, held, frozen, elf, expired, clients, system>>

SpawnPrepare == Spawn("spawnPrepare", "prepare", "stage")
SpawnVerify  == Spawn("spawnVerify", "verify", "check")

\* The leader is seen to have exited, its process group killed, then it is reaped.
WorkerDone(at, then, else) ==
  /\ ctl = at
  /\ child.at \in {"exited", "failed"}
  /\ ctl' = IF child.at = "exited" /\ Current THEN then ELSE else
  /\ child' = NoChild
  /\ elf' = DyingElf(elf)
  /\ UNCHANGED <<disk, cur, attempt, bank, held, frozen, expired, clients, system>>

\* Cancellation, deadline, output bound or pipe error: kill the group.
WorkerCancel(at, to) ==
  /\ Goto(at, to)
  /\ child' = DyingChild(child)
  /\ elf' = DyingElf(elf)
  /\ UNCHANGED <<disk, cur, attempt, bank, held, frozen, expired, clients, system>>

\* The leader is waited for, for 5 seconds: it may still be dying afterwards.
\* Nothing waits for the rest of the group.
WorkerReaped(at, to) ==
  /\ Goto(at, to)
  /\ UNCHANGED <<disk, cur, attempt, bank, held, frozen, workers, expired,
                 clients, system>>

PrepareDone   == WorkerDone("prepare", "inspect", "reseal")
VerifyDone    == WorkerDone("verify", "observe", "refuse")
CancelPrepare == WorkerCancel("prepare", "reapPrepare")
CancelVerify  == WorkerCancel("verify", "reapVerify")
ReapPrepare   == WorkerReaped("reapPrepare", "reseal")
ReapVerify    == WorkerReaped("reapVerify", "refuse")

\* Bank.inspect syncs the records it reads; the child's answer must match them.
Inspect ==
  /\ Goto("inspect", "seal")
  /\ Readable("intent") /\ Readable("result") /\ result = "extracted"
  /\ file' = [file EXCEPT !["intent"] = "durable", !["result"] = "durable"]
  /\ UNCHANGED <<ro, tree, result, opens, cur, attempt, bank, held, frozen, workers, expired,
                 clients, system>>

\* MS_REMOUNT|MS_RDONLY: the kernel refuses while a file is open for writing.
Readonly(ok, refused) ==
  \/ /\ ~Writing \/ ro
     /\ ro' = TRUE
     /\ ctl' = ok
  \/ /\ RemountFaults \/ (Writing /\ ~ro)
     /\ ro' = ro
     /\ ctl' = refused

\* The inner finally, after success ("seal") and after an error ("reseal").
Seal ==
  /\ \/ ctl = "seal" /\ Readonly("freeze", "refuse")
     \/ ctl = "reseal" /\ Readonly("refuse", "refuse")
  /\ UNCHANGED <<file, tree, result, opens, cur, attempt, bank, held, frozen,
                 workers, expired, clients, system>>

\* FrozenRoot.acquire: read-only again, then records and identities are retained.
Freeze ==
  /\ ctl = "freeze"
  /\ ~expired
  /\ Readable("intent") /\ Readable("result") /\ result = "extracted"
  /\ Readonly("spawnVerify", "refuse")
  /\ frozen' = (ctl' = "spawnVerify")
  /\ UNCHANGED <<file, tree, result, opens, cur, attempt, bank, held, workers,
                 expired, clients, system>>

\* FrozenRoot.observe and the device checks, with the current descriptors.
Holding == frozen /\ ro /\ ~expired /\ Readable("result")

Observe ==
  /\ Goto("observe", "release")
  /\ Holding
  /\ UNCHANGED <<disk, cur, attempt, bank, held, frozen, workers, expired,
                 clients, system>>

\* The received copies are closed before any readiness is sent.
Release ==
  /\ Goto("release", "ready")
  /\ held' = FALSE
  /\ UNCHANGED <<disk, cur, attempt, bank, frozen, workers, expired, clients, system>>

SendFrozen ==
  /\ Goto("ready", "hold")
  /\ conn[cur] = "open" /\ ~expired
  /\ replies' = [replies EXCEPT ![cur] = @ \cup {"frozen"}]
  /\ UNCHANGED <<disk, cur, attempt, bank, held, frozen, workers, expired,
                 conn, queue, ask, system>>

\* A message in hand is read before the end of the stream is.
HoldObserve ==
  /\ Goto("hold", "answer")
  /\ ask[cur] = "observe"
  /\ ask' = [ask EXCEPT ![cur] = "none"]
  /\ held' = TRUE
  /\ UNCHANGED <<disk, cur, attempt, bank, frozen, workers, expired, conn, queue,
                 replies, system>>

HoldAnswer ==
  /\ Goto("answer", "ready")
  /\ PeerAlive
  /\ Holding
  /\ held' = FALSE
  /\ UNCHANGED <<disk, cur, attempt, bank, frozen, workers, expired, clients, system>>

HoldEnd ==
  /\ Goto("hold", "cleanup")
  /\ ask[cur] = "close" \/ (ask[cur] = "none" /\ conn[cur] # "open")
  /\ ask' = [ask EXCEPT ![cur] = "none"]
  /\ UNCHANGED <<disk, cur, attempt, bank, held, frozen, workers, expired, conn,
                 queue, replies, system>>

Bug_HoldWithoutDeadline ==
  /\ ctl \in InTry \ {"verify", "reapVerify"}
  /\ ctl = "hold" => ask[cur] = "bad"
  /\ ctl' = "refuse"
  /\ UNCHANGED <<disk, cur, attempt, bank, held, frozen, workers, expired,
                 clients, system>>

\* Any check or call of the outer try block that raises, hold's deadline included.
Fault ==
  /\ ctl \in InTry \ {"verify", "reapVerify"}
  /\ ctl = "hold" => expired \/ ask[cur] = "bad"
  /\ ctl' = "refuse"
  /\ UNCHANGED <<disk, cur, attempt, bank, held, frozen, workers, expired,
                 clients, system>>

\* The same between the barrier and the inner finally.
InnerFault ==
  /\ ctl \in {"open", "spawnPrepare", "inspect"}
  /\ ctl' = "reseal"
  /\ UNCHANGED <<disk, cur, attempt, bank, held, frozen, workers, expired,
                 clients, system>>

Refuse ==
  /\ Goto("refuse", "cleanup")
  /\ replies' = IF conn[cur] = "open"
                THEN [replies EXCEPT ![cur] = @ \cup {"refused"}] ELSE replies
  /\ UNCHANGED <<disk, cur, attempt, bank, held, frozen, workers, expired,
                 conn, queue, ask, system>>

\* The outer finally: once more read-only, and only then the completion record.
Cleanup ==
  /\ ctl = "cleanup"
  /\ IF attempt THEN Readonly("noteCreate", "close")
                ELSE ro' = ro /\ ctl' = "close"
  /\ UNCHANGED <<file, tree, result, opens, cur, attempt, bank, held, frozen,
                 workers, expired, clients, system>>

NoteCreate ==
  /\ Goto("noteCreate", "noteWrite")
  /\ RecordCreate("complete")
  /\ UNCHANGED <<ro, tree, result, opens, cur, attempt, bank, held, frozen,
                 workers, expired, clients, system>>

NoteWrite ==
  /\ Goto("noteWrite", "noteSync")
  /\ RecordWrite("complete")
  /\ UNCHANGED <<ro, tree, result, opens, cur, attempt, bank, held, frozen,
                 workers, expired, clients, system>>

NoteSync ==
  /\ Goto("noteSync", "close")
  /\ RecordSync("complete")
  /\ UNCHANGED <<ro, tree, result, opens, cur, attempt, bank, held, frozen,
                 workers, expired, clients, system>>

\* An error while recording is suppressed; no completion is invented.
NoteFault ==
  /\ ctl \in {"noteCreate", "noteWrite", "noteSync"}
  /\ ctl' = "close"
  /\ UNCHANGED <<disk, cur, attempt, bank, held, frozen, workers, expired,
                 clients, system>>

\* The locals of serve_session, and with them every descriptor, are gone.
DropLocals == /\ attempt' = FALSE
              /\ bank' = FALSE
              /\ held' = FALSE
              /\ frozen' = FALSE
              /\ expired' = FALSE
Forget == cur' = NoSession /\ DropLocals

Bug_Thaw == ro' = FALSE /\ UNCHANGED <<file, tree, result, opens>>

\* FrozenRoot.close and Bank.close give up descriptors; nothing is thawed.
LeaveBank == UNCHANGED disk

\* The client reads an end of file.
HangUp == /\ conn' = [s \in Sessions |-> IF s = cur THEN "over" ELSE conn[s]]
          /\ ask' = [s \in Sessions |-> "none"]

Close ==
  /\ Goto("close", "accept")
  /\ LeaveBank
  /\ HangUp
  /\ Forget
  /\ UNCHANGED <<workers, queue, replies, system>>
-----------------------------------------------------------------------------
(* The private child: Bank.prepare and Bank.verify. *)

\* prepare's order: mkdir stage, intent, mkdir root, the worker, its log, the result.
After(f) == CASE f = "stage"  -> "intent"
              [] f = "intent" -> "root"
              [] f = "root"   -> "spawn"
              [] f = "worker" -> "result"
              [] f = "result" -> "exited"

ChildCreate ==
  /\ child.at \in BankFiles
  /\ child.step = "create"
  /\ ~ro
  /\ file[child.at] = "absent"
  /\ IF child.at \in Dirs
     THEN /\ file' = [file EXCEPT ![child.at] = "written"]
          /\ child' = [child EXCEPT !.step = "dirsync"]
     ELSE /\ file' = [file EXCEPT ![child.at] = "torn"]
          /\ child' = [child EXCEPT !.step = "write"]
  /\ UNCHANGED <<ro, tree, result, opens, server, elf, expired, clients, system>>

ChildWrite ==
  /\ child.at \in BankFiles
  /\ child.step = "write"
  /\ file' = [file EXCEPT ![child.at] = "written"]
  /\ child' = [child EXCEPT !.step = "sync"]
  /\ result' = IF child.at = "result"
               THEN (IF child.ok THEN "extracted" ELSE "failed") ELSE result
  /\ UNCHANGED <<ro, tree, opens, server, elf, expired, clients, system>>

ChildSync ==
  /\ child.at \in BankFiles
  /\ child.step \in {"sync", "dirsync"}
  /\ file' = [file EXCEPT ![child.at] = "durable"]
  /\ child' = [child EXCEPT !.at = After(child.at),
                            !.step = IF child.at = "result" THEN "idle" ELSE "create"]
  /\ UNCHANGED <<ro, tree, result, opens, server, elf, expired, clients, system>>

ChildSpawn ==
  /\ child.at = "spawn"
  /\ ~expired
  /\ child' = [child EXCEPT !.at = "extract", !.step = "idle"]
  /\ elf' = "run"
  /\ UNCHANGED <<disk, server, expired, clients, system>>

Bug_ReapIgnoresStatus ==
  /\ child.at = "extract"
  /\ elf \in {"ok", "failed"}
  /\ child' = [child EXCEPT !.at = "worker", !.step = "create", !.ok = TRUE]
  /\ elf' = "none"
  /\ UNCHANGED <<disk, server, expired, clients, system>>

\* communicate() returned: the worker's exit status decides the result's state.
ChildReap ==
  /\ child.at = "extract"
  /\ elf \in {"ok", "failed"}
  /\ child' = [child EXCEPT !.at = "worker", !.step = "create", !.ok = (elf = "ok")]
  /\ elf' = "none"
  /\ UNCHANGED <<disk, server, expired, clients, system>>

\* Bank.verify: an extracted record on an independently read-only root.
ChildVerify ==
  /\ child.at = "check"
  /\ Readable("intent") /\ Readable("result") /\ result = "extracted"
  /\ ro
  /\ ~expired
  /\ child' = [child EXCEPT !.at = "verify", !.step = "idle"]
  /\ elf' = "run"
  /\ UNCHANGED <<disk, server, expired, clients, system>>

\* Identity, inputs, records and deadline are read again after the worker.
ChildVerified ==
  /\ child.at = "verify"
  /\ elf = "ok"
  /\ ro
  /\ ~expired
  /\ child' = [child EXCEPT !.at = "exited"]
  /\ elf' = "none"
  /\ UNCHANGED <<disk, server, expired, clients, system>>

\* An exception of the child kills and reaps its worker, then ends it.
ChildFail ==
  /\ ChildAlive
  /\ child.at # "dying"
  /\ child' = [child EXCEPT !.at = "failed", !.step = "idle"]
  /\ elf' = "none"
  /\ UNCHANGED <<disk, server, expired, clients, system>>

\* The child alone is killed; its worker's parent-death signal is on its way.
ChildCrash ==
  /\ ChildAlive
  /\ child.at # "dying"
  /\ child' = [child EXCEPT !.at = "failed", !.step = "idle"]
  /\ elf' = DyingElf(elf)
  /\ UNCHANGED <<disk, server, expired, clients, system>>
-----------------------------------------------------------------------------
(* The ELF worker and the kernel. *)

ElfWrite ==
  /\ child.at = "extract"
  /\ elf = "run"
  /\ ~ro
  /\ elf' = "open"
  /\ tree' = "partial"
  /\ UNCHANGED <<ro, file, result, opens, server, child, expired, clients, system>>

\* Every entry read back, then syncfs.
ElfExtracted ==
  /\ elf = "open"
  /\ ~expired
  /\ elf' = "ok"
  /\ tree' = "complete"
  /\ UNCHANGED <<ro, file, result, opens, server, child, expired, clients, system>>

ElfVerified ==
  /\ child.at = "verify"
  /\ elf = "run"
  /\ tree = "complete"
  /\ ~expired
  /\ elf' = "ok"
  /\ UNCHANGED <<disk, server, child, expired, clients, system>>

ElfFail ==
  /\ elf \in {"run", "open"}
  /\ elf' = "failed"
  /\ UNCHANGED <<disk, server, child, expired, clients, system>>

\* A killed process finishes dying and its descriptors are closed.
ElfExit ==
  /\ elf \in {"dying", "dyingOpen"}
  /\ elf' = "none"
  /\ UNCHANGED <<disk, server, child, expired, clients, system>>

ChildExit ==
  /\ child.at = "dying"
  /\ child' = NoChild
  /\ UNCHANGED <<disk, server, elf, expired, clients, system>>
-----------------------------------------------------------------------------
(* Stopping, sealing and power loss. *)

\* SIGKILL of the service, OOM or `systemctl stop': no finally block runs.
\* KillMode=control-group takes the workers along; a failure also starts the
\* independent seal service.
Kill(failed) ==
  /\ ctl # "down"
  /\ ctl' = "down"
  /\ HangUp
  /\ Forget
  /\ child' = DyingChild(child)
  /\ elf' = DyingElf(elf)
  /\ seal' = [h \in Hooks |-> IF h = "stoppost" \/ failed THEN "pending" ELSE seal[h]]
  /\ UNCHANGED <<disk, queue, replies, losses>>

Bug_SealsOnlyResults(h) ==
  /\ seal[h] = "pending"
  /\ h = "stoppost" /\ SealWaits => ~ChildAlive /\ ~ElfAlive
  /\ seal' = [seal EXCEPT ![h] = IF Readable("result") THEN "checked" ELSE "idle"]
  /\ UNCHANGED <<disk, server, workers, expired, clients, losses>>

\* seal_after_stop: no attempt, nothing to do; a broken record is refused.
SealCheck(h) ==
  /\ seal[h] = "pending"
  /\ h = "stoppost" /\ SealWaits => ~ChildAlive /\ ~ElfAlive
  /\ seal' = [seal EXCEPT ![h] = IF Readable("attempt") THEN "checked" ELSE "idle"]
  /\ UNCHANGED <<disk, server, workers, expired, clients, losses>>

SealRemount(h) ==
  /\ seal[h] = "checked"
  /\ \/ (~Writing \/ ro) /\ ro' = TRUE
     \/ (RemountFaults \/ (Writing /\ ~ro)) /\ ro' = ro
  /\ seal' = [seal EXCEPT ![h] = "idle"]
  /\ UNCHANGED <<file, tree, result, opens, server, workers, expired, clients, losses>>

\* A remount to read-only has synced whatever the bank held.
Unsynced == {f \in Files : file[f] \in {"torn", "written"} /\ (f \in BankFiles => ~ro)}
Survives(s) == IF s = "torn" THEN {"absent", "torn"} ELSE {"absent", "torn", "durable"}

\* Every process ends, what was not synced may be gone, and the mount unit
\* brings the bank back read-only.
PowerLoss ==
  /\ losses < MaxLosses
  /\ losses' = losses + 1
  /\ ro' = TRUE
  /\ \E left \in [Unsynced -> FileState] :
       /\ \A f \in Unsynced : left[f] \in Survives(file[f])
       /\ file' = [f \in Files |-> IF f \in Unsynced THEN left[f] ELSE file[f]]
  /\ tree' \in IF tree = "partial" /\ ~ro THEN {"empty", "partial"} ELSE {tree}
  /\ ctl' = "down"
  /\ Forget
  /\ child' = NoChild
  /\ elf' = "none"
  /\ conn' = [s \in Sessions |-> IF conn[s] = "idle" THEN "idle" ELSE "over"]
  /\ queue' = {}
  /\ ask' = [s \in Sessions |-> "none"]
  /\ seal' = [h \in Hooks |-> "idle"]
  /\ UNCHANGED <<result, opens, replies>>
-----------------------------------------------------------------------------
ClientStep == \E s \in Sessions :
                \/ Connect(s)
                \/ \E m \in {"observe", "close", "bad"} : Send(s, m)
                \/ \E how \in {"shut", "over"} : Leave(s, how)

ControllerStep ==
  \/ Activate \/ (\E s \in Sessions : Accept(s))
  \/ Select \/ CheckFresh \/ CreateAttempt \/ WriteAttempt \/ SyncAttempt
  \/ OpenBank \/ SpawnPrepare \/ PrepareDone \/ ReapPrepare \/ Inspect
  \/ Seal \/ Freeze \/ SpawnVerify \/ VerifyDone \/ ReapVerify
  \/ Observe \/ Release \/ SendFrozen \/ HoldObserve \/ HoldAnswer \/ HoldEnd
  \/ Fault \/ InnerFault \/ Refuse
  \/ Cleanup \/ NoteCreate \/ NoteWrite \/ NoteSync \/ NoteFault \/ Close

CancelStep == CancelPrepare \/ CancelVerify

ChildStepping == ChildCreate \/ ChildWrite \/ ChildSync \/ ChildSpawn
                 \/ ChildReap \/ ChildVerify \/ ChildVerified \/ ChildFail \/ ChildCrash

ElfStep == ElfWrite \/ ElfExtracted \/ ElfVerified \/ ElfFail

KernelStep == ElfExit \/ ChildExit

SealStep == \E h \in Hooks : SealCheck(h) \/ SealRemount(h)

Next == \/ ClientStep \/ Expire \/ ControllerStep \/ CancelStep
        \/ ChildStepping \/ ElfStep \/ KernelStep \/ SealStep
        \/ (\E failed \in BOOLEAN : Kill(failed))
        \/ PowerLoss

Spec == Init /\ [][Next]_vars

(***************************************************************************)
(* What the scheduler, the clock and systemd owe the system: a runnable    *)
(* process runs, time passes, a killed process finishes dying, a queued    *)
(* stop hook is run.  Clients, kills and power losses are owed nothing,    *)
(* and the monitor cancels a worker only when its requester has gone,      *)
(* spoken or run out of time.                                              *)
(***************************************************************************)
Fairness == /\ WF_vars(ControllerStep \/ (cur # NoSession /\ ~Current /\ CancelStep))
            /\ WF_vars(Expire)
            /\ WF_vars(KernelStep)
            /\ WF_vars(SealStep)

FairSpec == Spec /\ Fairness
=============================================================================
