-------------------------- MODULE BankSessionProps --------------------------
(***************************************************************************)
(* What must hold of the root-session controller and its bank.             *)
(***************************************************************************)
EXTENDS BankSession

DiskType    == /\ ro \in BOOLEAN
               /\ file \in [Files -> FileState]
               /\ tree \in {"empty", "partial", "complete"}
               /\ result \in {"none", "extracted", "failed"}
               /\ opens \in Nat
ServerType  == /\ ctl \in CtlState
               /\ cur \in Sessions \cup {NoSession}
               /\ attempt \in BOOLEAN /\ bank \in BOOLEAN /\ held \in BOOLEAN
               /\ frozen \in BOOLEAN /\ expired \in BOOLEAN
WorkersType == /\ child \in [at : ChildAt, step : ChildStep, ok : BOOLEAN,
                             of : Sessions \cup {NoSession}]
               /\ elf \in ElfState
ClientsType == /\ conn \in [Sessions -> {"idle", "open", "shut", "over"}]
               /\ queue \subseteq Sessions
               /\ ask \in [Sessions -> {"none", "observe", "close", "bad"}]
               /\ replies \in [Sessions -> SUBSET {"frozen", "refused"}]
SystemType  == /\ seal \in [Hooks -> {"idle", "pending", "checked"}]
               /\ losses \in 0 .. MaxLosses
ServesOne   == ctl \in Serving <=> cur # NoSession

\* Every variable stays in its range, and the controller serves a session
\* exactly while it is inside serve_session (accept's only caller).
TypeOK == DiskType /\ ServerType /\ WorkersType /\ ClientsType /\ SystemType /\ ServesOne

\* The bank's superblock is made writable at most once over the whole life of
\* the bank, across sessions, refusals, kills and power losses: root-session.json
\* is created with O_EXCL before the remount and never removed.
OpenedOnce == opens <= 1

\* Whenever the superblock is writable, the first-use barrier is already on
\* disk: a power loss at that instant cannot bring back a bank that looks
\* unused (record() fsyncs the file and its parent before `writable').
BarrierBeforeWritable == ~ro => file["attempt"] = "durable"

\* A client that was ever told "frozen" can rely on it for good: the bank is
\* read-only, its result is durably "extracted", the tree is whole, and neither
\* a later session nor a crash nor a power loss changes any of it.
FrozenIsForever ==
  (\E s \in Sessions : "frozen" \in replies[s])
    => /\ ro
       /\ file["attempt"] = "durable"
       /\ file["result"] = "durable" /\ result = "extracted"
       /\ tree = "complete"

\* Once root-session-complete.json exists, in whatever state, the bank is
\* read-only and stays so: the outer finally records it only after the remount.
CompletionIsSealed == file["complete"] # "absent" => ro

\* When the client may act on "frozen", nobody below the controller still holds
\* a copy of the lease and archive descriptors it sent: the supervisor can take
\* a new reservation (the copies are closed before readiness is sent).
ReadyReleasesDescriptors ==
  ctl \in {"ready", "hold"} => ~held /\ ~ChildAlive /\ ~ElfAlive

\* The child at work belongs to the session that holds the bank: a child left
\* dying by a killed controller keeps its inherited lock, so the next
\* controller cannot take the bank under it.
ChildIsOurs == ChildAlive /\ bank => child.of = cur

\* A readable "extracted" record vouches for a whole tree, also when it is read
\* after a crash or a power loss: it is written only after a worker that has
\* read everything back and synced the filesystem exited with success.
ExtractedMeansWhole == Readable("result") /\ result = "extracted" => tree = "complete"

\* What the bank's records say holds, whoever reads them and after whatever
\* crash: an extracted result means a whole tree, a completion a sealed bank.
RecordsAreTrue == ExtractedMeansWhole /\ CompletionIsSealed

\* Nobody below the controller outlives what it was given: the child at work
\* belongs to the session that holds the bank, and none of them is left, nor a
\* copy of the client's descriptors, when the client may act on "frozen".
ChildrenStayInside == ReadyReleasesDescriptors /\ ChildIsOurs

\* The bank implements its abstract promise: opened at most once, and sealed
\* for good with whatever tree it then has.
Bank == INSTANCE OneShotBank
          WITH phase <- IF ~ro THEN "open" ELSE IF opens = 0 THEN "fresh" ELSE "sealed",
               promised <- \E s \in Sessions : "frozen" \in replies[s]
ImplementsOneShotBank == Bank!Spec

(***************************************************************************)
(* Why those invariants hold: what each step may rely on.                  *)
(***************************************************************************)

\* From CheckFresh to the worker's spawn, and from the barrier to the end of the
\* session's useful life.
Unstarted == {"create", "write", "sync", "open", "spawnPrepare"}
Extracted == {"seal", "freeze", "spawnVerify", "verify", "reapVerify", "observe",
              "release", "ready", "hold", "answer"}
Frozen    == Extracted \ {"seal", "freeze"}
Opened    == {"spawnPrepare", "prepare", "inspect"} \cup Extracted

\* The superblock is opened once, after the barrier.
BarrierInv ==
  /\ opens \in {0, 1}
  /\ opens = 0 => ro
  /\ opens = 1 => file["attempt"] = "durable"
  /\ ctl \in {"write", "sync", "open"} => opens = 0
  /\ ctl = "open" => file["attempt"] = "durable"
  /\ ctl \in Opened => opens = 1

\* The completion record is made by the session that has just remounted.
CompletionInv ==
  /\ CompletionIsSealed
  /\ ctl \in {"create", "write", "sync", "open"} => file["complete"] = "absent"
  /\ ctl \in {"noteCreate", "noteWrite", "noteSync"} => ro

\* A child at work is awaited by the controller, a worker at work by the child,
\* and a worker that writes keeps the kernel from remounting.
WorkersInv ==
  /\ child.at \in BankFiles \cup {"spawn", "extract"} => ctl = "prepare"
  /\ child.at \in {"check", "verify"} => ctl = "verify"
  /\ elf \in {"run", "open", "ok", "failed"} => child.at \in {"extract", "verify"}
  /\ elf = "open" => child.at = "extract"
  /\ elf \in {"open", "dyingOpen"} => ~ro

\* The result is recorded once, after the worker, and vouches for the tree.
ResultInv ==
  /\ ctl \in Unstarted => file["result"] = "absent"
  /\ child.at \in (BankFiles \ {"result"}) \cup {"spawn", "extract"} => file["result"] = "absent"
  /\ child.at = "result" => file["result"] # "durable"
  /\ child.at = "result" /\ child.step \in {"sync", "dirsync"} => file["result"] = "written"
  /\ child.at = "extract" /\ elf = "ok" => tree = "complete"
  /\ child.at \in {"worker", "result"} /\ child.ok => tree = "complete"
  /\ ExtractedMeansWhole

\* Past Bank.inspect the result is durable and positive; past the freeze the
\* bank is also read-only.
SessionInv ==
  /\ ctl \in Extracted => file["result"] = "durable" /\ result = "extracted"
  /\ ctl \in Frozen => ro

\* After the worker has been reaped none runs, and once the verifying child is
\* reaped nothing below the controller does; the bank is taken by select and
\* given up by whatever ends the session, and never between a child and its end.
InsideInv ==
  /\ child.at \in {"worker", "result", "exited"} => elf = "none"
  /\ ctl \in {"observe", "release", "ready", "hold", "answer"} => child.at = "none" /\ elf = "none"
  /\ ctl \in {"ready", "hold"} => ~held
  /\ ctl \in {"accept", "select", "down"} => ~bank
  /\ ChildIsOurs

BankInv == BarrierInv /\ CompletionInv /\ WorkersInv /\ ResultInv /\ SessionInv /\ FrozenIsForever

\* Every window in which the bank is writable ends: the bank is sealed again,
\* or the controller has given up on it and is back in accept, the attempt
\* recorded and no completion claimed.
WritableWindowEnds ==
  ~ro ~> (ro \/ (ctl = "accept" /\ file["attempt"] = "durable" /\ file["complete"] = "absent"))

\* A controller that is killed while the bank is writable does not leave it so:
\* the stop hook seals it once the cgroup is empty.
KilledIsSealed == (~ro /\ ctl = "down") ~> ro

\* No bank stays writable unnoticed, whether its controller lives or is killed.
BankIsSealedAgain == WritableWindowEnds /\ KilledIsSealed

\* Every connection that reaches the controller is let go of in the end: it
\* leaves the backlog and its session is over, whatever its client does, unless
\* the service is killed again and again.
KillsStop == <>[][ctl # "down" => ctl' # "down"]_ctl
EveryConnectionEnds ==
  KillsStop => \A s \in Sessions : (s \in queue \/ cur = s) ~> (s \notin queue /\ cur # s)

\* native/root-session.ja.md:46 says that a disconnection or an expired deadline
\* ends the session too, and that the controller confirms read-only and closes
\* its own descriptors.  Read so, no such session is let go of while the bank is
\* writable.
LetGoReadonly ==
  [][ctl = "close" /\ ctl' = "accept" /\ (conn[cur] # "open" \/ expired) => ro]_vars
=============================================================================
