------------------------- MODULE BankSession_proofs -------------------------
(***************************************************************************)
(* Proofs about the root-session controller and its bank, for any set of   *)
(* sessions, any number of power losses and either behaviour of remounts   *)
(* and of systemd.                                                         *)
(***************************************************************************)
EXTENDS BankSessionProps, TLAPS

(***************************************************************************)
(* Type correctness.                                                       *)
(***************************************************************************)

\* The statements that keep a session, and the two that do not.
LEMMA ServingFacts ==
  /\ InTry \subseteq Serving /\ InnerTry \subseteq Serving /\ Leaving \subseteq Serving
  /\ "seal" \in Serving
  /\ "accept" \notin Serving /\ "down" \notin Serving
BY DEF Serving, InTry, InnerTry, Leaving

LEMMA TypeInit == Init => TypeOK
<1> SUFFICES ASSUME Init PROVE TypeOK
  OBVIOUS
<1>1. DiskType
  BY DEF Init, DiskType, FileState, Files, BankFiles, Dirs
<1>2. ServerType /\ ServesOne
  BY DEF Init, ServerType, ServesOne, CtlState, Serving, InTry, InnerTry, Leaving
<1>3. WorkersType
  BY DEF Init, WorkersType, ElfState, NoChild, ChildAt, ChildStep
<1>4. ClientsType
  BY DEF Init, ClientsType
<1>5. SystemType
  BY BoundAssumption DEF Init, SystemType, Hooks
<1> QED
  BY <1>1, <1>2, <1>3, <1>4, <1>5 DEF TypeOK

\* Killing a process leaves it dying or leaves nothing of it.
LEMMA DyingTypes ==
  ASSUME WorkersType
  PROVE  /\ DyingElf(elf) \in ElfState
         /\ DyingChild(child) \in [at : ChildAt, step : ChildStep, ok : BOOLEAN,
                                   of : Sessions \cup {NoSession}]
<1>1. DyingElf(elf) \in ElfState
  BY DEF DyingElf, ElfState
<1>2. NoChild \in [at : ChildAt, step : ChildStep, ok : BOOLEAN, of : Sessions \cup {NoSession}]
  BY DEF NoChild, ChildAt, ChildStep
<1>3. ASSUME DyingChild(child) # NoChild
      PROVE  DyingChild(child) \in [at : ChildAt, step : ChildStep, ok : BOOLEAN,
                                    of : Sessions \cup {NoSession}]
  <2> DEFINE step == IF child.step \in {"write", "sync"} THEN child.step ELSE "idle"
  <2>1. DyingChild(child) = [child EXCEPT !.at = "dying", !.step = step]
    BY <1>3 DEF DyingChild
  <2>2. step \in ChildStep /\ "dying" \in ChildAt
    BY DEF ChildStep, ChildAt
  <2> QED
    BY <2>1, <2>2 DEF WorkersType
<1>4. QED
  BY <1>1, <1>2, <1>3

\* A step either leaves the disk alone or is one of the few that touch it.
LEMMA NextCases ==
  ASSUME [Next]_vars
  PROVE  \/ UNCHANGED disk
         \/ CreateAttempt \/ WriteAttempt \/ SyncAttempt
         \/ NoteCreate \/ NoteWrite \/ NoteSync
         \/ OpenBank \/ Seal \/ Freeze \/ Cleanup \/ (\E h \in Hooks : SealRemount(h))
         \/ Inspect \/ ChildCreate \/ ChildWrite \/ ChildSync
         \/ ElfWrite \/ ElfExtracted \/ PowerLoss
<1>1. CASE UNCHANGED vars
  BY <1>1 DEF vars
<1>2. CASE ClientStep \/ Expire
  BY <1>2 DEF ClientStep, Expire, Connect, Send, Leave
<1>3. CASE ControllerStep
  BY <1>3 DEF ControllerStep, Activate, Accept, Select, CheckFresh, SpawnPrepare, SpawnVerify,
              Spawn, PrepareDone, VerifyDone, WorkerDone, ReapPrepare, ReapVerify, WorkerReaped,
              Observe, Release, SendFrozen, HoldObserve, HoldAnswer, HoldEnd, Fault, InnerFault,
              Refuse, NoteFault, Close, LeaveBank
<1>4. CASE CancelStep \/ KernelStep
  BY <1>4 DEF CancelStep, CancelPrepare, CancelVerify, WorkerCancel, KernelStep, ElfExit, ChildExit
<1>5. CASE ChildStepping \/ ElfStep
  BY <1>5 DEF ChildStepping, ChildSpawn, ChildReap, ChildVerify, ChildVerified, ChildFail,
              ChildCrash, ElfStep, ElfVerified, ElfFail
<1>6. CASE SealStep \/ (\E failed \in BOOLEAN : Kill(failed))
  BY <1>6 DEF SealStep, SealCheck, Kill
<1> QED
  BY <1>1, <1>2, <1>3, <1>4, <1>5, <1>6 DEF Next

\* The type of the disk: it is touched by the controller's records and remounts,
\* by the child, by the worker and by a power loss.
LEMMA DiskTypeStep == TypeOK /\ [Next]_vars => DiskType'
<1> SUFFICES ASSUME TypeOK, [Next]_vars PROVE DiskType'
  OBVIOUS
<1> USE DEF TypeOK, DiskType
<1>1. CASE UNCHANGED disk
  BY <1>1 DEF disk
<1>2. CASE CreateAttempt \/ WriteAttempt \/ SyncAttempt \/ NoteCreate \/ NoteWrite \/ NoteSync
  BY <1>2 DEF CreateAttempt, WriteAttempt, SyncAttempt, NoteCreate, NoteWrite, NoteSync,
              RecordCreate, RecordWrite, RecordSync, FileState, Files, BankFiles, Dirs
<1>3. CASE OpenBank
  <2>1. ro' \in BOOLEAN
    BY <1>3 DEF OpenBank
  <2>2. opens' \in Nat
    BY <1>3 DEF OpenBank
  <2>3. UNCHANGED <<file, tree, result>>
    BY <1>3 DEF OpenBank
  <2> QED
    BY <2>1, <2>2, <2>3
<1>8. CASE Seal \/ Freeze \/ Cleanup
  <2>1. ro' \in BOOLEAN
    BY <1>8 DEF Seal, Freeze, Cleanup, Readonly
  <2> QED
    BY <1>8, <2>1 DEF Seal, Freeze, Cleanup
<1>9. CASE \E h \in Hooks : SealRemount(h)
  BY <1>9 DEF SealRemount
<1>4. CASE Inspect
  BY <1>4 DEF Inspect, FileState
<1>5. CASE ChildCreate \/ ChildWrite \/ ChildSync
  BY <1>5 DEF ChildCreate, ChildWrite, ChildSync, FileState
<1>6. CASE ElfWrite \/ ElfExtracted
  BY <1>6 DEF ElfWrite, ElfExtracted
<1>7. CASE PowerLoss
  <2>1. ro' \in BOOLEAN /\ UNCHANGED <<result, opens>>
    BY <1>7 DEF PowerLoss
  <2>2. file' \in [Files -> FileState]
    BY <1>7 DEF PowerLoss
  <2>3. tree' \in {"empty", "partial", "complete"}
    BY <1>7 DEF PowerLoss
  <2> QED
    BY <2>1, <2>2, <2>3
<1> QED
  BY <1>1, <1>2, <1>3, <1>4, <1>5, <1>6, <1>7, <1>8, <1>9, NextCases

\* The controller's variables outside its own statements: kills and power losses
\* end it, everything else leaves it alone.
LEMMA ServerCases ==
  ASSUME [Next]_vars
  PROVE  \/ UNCHANGED <<server, expired>>
         \/ Expire \/ ControllerStep \/ CancelStep
         \/ (\E failed \in BOOLEAN : Kill(failed)) \/ PowerLoss
<1>1. CASE UNCHANGED vars
  BY <1>1 DEF vars
<1>2. CASE ClientStep \/ KernelStep
  BY <1>2 DEF ClientStep, Connect, Send, Leave, KernelStep, ElfExit, ChildExit
<1>3. CASE ChildStepping
  BY <1>3 DEF ChildStepping, ChildCreate, ChildWrite, ChildSync, ChildSpawn, ChildReap,
              ChildVerify, ChildVerified, ChildFail, ChildCrash
<1>4. CASE ElfStep \/ SealStep
  BY <1>4 DEF ElfStep, ElfWrite, ElfExtracted, ElfVerified, ElfFail, SealStep, SealCheck, SealRemount
<1> QED
  BY <1>1, <1>2, <1>3, <1>4 DEF Next

LEMMA ServerTypeStep == TypeOK /\ [Next]_vars => ServerType' /\ ServesOne'
<1> SUFFICES ASSUME TypeOK, [Next]_vars PROVE ServerType' /\ ServesOne'
  OBVIOUS
<1> USE DEF TypeOK, ServerType, ServesOne, CtlState, Serving, InTry, InnerTry, Leaving
<1>1. CASE UNCHANGED <<server, expired>>
  BY <1>1 DEF server
<1>2. CASE Expire
  BY <1>2 DEF Expire, server
<1>3. CASE CancelStep
  BY <1>3 DEF CancelStep, CancelPrepare, CancelVerify, WorkerCancel, Goto
<1>4. CASE \E failed \in BOOLEAN : Kill(failed)
  BY <1>4 DEF Kill, Forget, DropLocals
<1>5. CASE PowerLoss
  BY <1>5 DEF PowerLoss, Forget, DropLocals
<1>6. CASE ControllerStep
  <2>1. CASE Activate \/ (\E s \in Sessions : Accept(s)) \/ Select \/ CheckFresh
    BY <2>1, SessionAssumption DEF Activate, Accept, Select, CheckFresh, Goto
  <2>2. CASE CreateAttempt \/ WriteAttempt \/ SyncAttempt \/ OpenBank
    BY <2>2 DEF CreateAttempt, WriteAttempt, SyncAttempt, OpenBank, Goto
  <2>3. CASE SpawnPrepare \/ PrepareDone \/ ReapPrepare \/ SpawnVerify \/ VerifyDone \/ ReapVerify
    BY <2>3 DEF SpawnPrepare, SpawnVerify, Spawn, PrepareDone, VerifyDone, WorkerDone,
                ReapPrepare, ReapVerify, WorkerReaped, Goto
  <2>4. CASE Inspect \/ Seal \/ Cleanup
    BY <2>4 DEF Inspect, Seal, Cleanup, Readonly, Goto
  <2>5. CASE Freeze
    BY <2>5 DEF Freeze, Readonly
  <2>6. CASE Observe \/ Release \/ SendFrozen \/ HoldObserve \/ HoldAnswer \/ HoldEnd
    BY <2>6 DEF Observe, Release, SendFrozen, HoldObserve, HoldAnswer, HoldEnd, Goto
  <2>7. CASE Fault \/ InnerFault \/ Refuse \/ NoteCreate \/ NoteWrite \/ NoteSync \/ NoteFault
    BY <2>7 DEF Fault, InnerFault, Refuse, NoteCreate, NoteWrite, NoteSync, NoteFault, Goto
  <2>8. CASE Close
    BY <2>8 DEF Close, Forget, DropLocals, Goto
  <2> QED
    BY <1>6, <2>1, <2>2, <2>3, <2>4, <2>5, <2>6, <2>7, <2>8 DEF ControllerStep
<1> QED
  BY <1>1, <1>2, <1>3, <1>4, <1>5, <1>6, ServerCases

\* Processes are created, moved on and killed by these steps only.
LEMMA WorkersCases ==
  ASSUME [Next]_vars
  PROVE  \/ UNCHANGED workers
         \/ SpawnPrepare \/ SpawnVerify \/ PrepareDone \/ VerifyDone \/ CancelStep
         \/ ChildStepping \/ ElfStep \/ KernelStep
         \/ (\E failed \in BOOLEAN : Kill(failed)) \/ PowerLoss
<1>1. CASE UNCHANGED vars
  BY <1>1 DEF vars
<1>2. CASE ClientStep \/ Expire \/ SealStep
  BY <1>2 DEF ClientStep, Connect, Send, Leave, Expire, SealStep, SealCheck, SealRemount
<1>3. CASE ControllerStep
  BY <1>3 DEF ControllerStep, Activate, Accept, Select, CheckFresh, CreateAttempt, WriteAttempt,
              SyncAttempt, OpenBank, ReapPrepare, ReapVerify, WorkerReaped, Inspect, Seal, Freeze,
              Observe, Release, SendFrozen, HoldObserve, HoldAnswer, HoldEnd, Fault, InnerFault,
              Refuse, Cleanup, NoteCreate, NoteWrite, NoteSync, NoteFault, Close
<1> QED
  BY <1>1, <1>2, <1>3 DEF Next

LEMMA WorkersTypeStep == TypeOK /\ [Next]_vars => WorkersType'
<1> SUFFICES ASSUME TypeOK, [Next]_vars PROVE WorkersType'
  OBVIOUS
<1> USE DEF TypeOK, WorkersType
<1>1. CASE UNCHANGED workers
  BY <1>1 DEF workers
<1>2. CASE SpawnPrepare \/ SpawnVerify
  <2>1. PICK at \in {"stage", "check"} :
           child' = [at |-> at, step |-> "create", ok |-> FALSE, of |-> cur] /\ elf' = elf
    BY <1>2 DEF SpawnPrepare, SpawnVerify, Spawn
  <2>2. {"stage", "check"} \subseteq ChildAt /\ "create" \in ChildStep
    BY DEF ChildAt, ChildStep, BankFiles, Dirs
  <2> QED
    BY <2>1, <2>2 DEF ServerType
<1>3. CASE PrepareDone \/ VerifyDone \/ CancelStep \/ (\E failed \in BOOLEAN : Kill(failed))
  <2>1. child' \in {NoChild, DyingChild(child)} /\ elf' = DyingElf(elf)
    BY <1>3 DEF PrepareDone, VerifyDone, WorkerDone, CancelStep, CancelPrepare, CancelVerify,
                WorkerCancel, Kill
  <2>2. NoChild \in [at : ChildAt, step : ChildStep, ok : BOOLEAN, of : Sessions \cup {NoSession}]
    BY DEF NoChild, ChildAt, ChildStep
  <2> QED
    BY <2>1, <2>2, DyingTypes
<1>4. CASE ChildCreate \/ ChildWrite \/ ChildSync
  <2> USE DEF ChildAt, ChildStep, BankFiles, Dirs
  <2>1. CASE ChildCreate
    BY <2>1 DEF ChildCreate
  <2>2. CASE ChildWrite
    BY <2>2 DEF ChildWrite
  <2>3. CASE ChildSync
    BY <2>3 DEF ChildSync, After
  <2> QED
    BY <1>4, <2>1, <2>2, <2>3
<1>5. CASE ChildSpawn \/ ChildReap \/ ChildVerify \/ ChildVerified \/ ChildFail
  <2>1. elf' \in ElfState
    BY <1>5 DEF ChildSpawn, ChildReap, ChildVerify, ChildVerified, ChildFail, ElfState
  <2>2. child' \in [at : ChildAt, step : ChildStep, ok : BOOLEAN, of : Sessions \cup {NoSession}]
    <3> USE DEF ChildAt, ChildStep, BankFiles, Dirs
    <3>1. CASE ChildSpawn \/ ChildVerify
      BY <3>1 DEF ChildSpawn, ChildVerify
    <3>2. CASE ChildReap
      BY <3>2 DEF ChildReap
    <3>3. CASE ChildVerified \/ ChildFail
      BY <3>3 DEF ChildVerified, ChildFail
    <3> QED
      BY <1>5, <3>1, <3>2, <3>3
  <2> QED
    BY <2>1, <2>2
<1>6. CASE ChildCrash
  <2>1. child' = [child EXCEPT !.at = "failed", !.step = "idle"] /\ elf' = DyingElf(elf)
    BY <1>6 DEF ChildCrash
  <2> QED
    BY <2>1, DyingTypes DEF ChildAt, ChildStep
<1>7. CASE ElfStep
  BY <1>7 DEF ElfStep, ElfWrite, ElfExtracted, ElfVerified, ElfFail, ElfState
<1>8. CASE KernelStep \/ PowerLoss
  <2>1. elf' \in {elf, "none"} /\ child' \in {child, NoChild}
    BY <1>8 DEF KernelStep, ElfExit, ChildExit, PowerLoss
  <2>2. NoChild \in [at : ChildAt, step : ChildStep, ok : BOOLEAN, of : Sessions \cup {NoSession}]
    BY DEF NoChild, ChildAt, ChildStep
  <2> QED
    BY <2>1, <2>2 DEF ElfState
<1> QED
  BY <1>1, <1>2, <1>3, <1>4, <1>5, <1>6, <1>7, <1>8, WorkersCases DEF ChildStepping

LEMMA ClientsTypeStep == TypeOK /\ [Next]_vars => ClientsType'
<1> SUFFICES ASSUME TypeOK, [Next]_vars PROVE ClientsType'
  OBVIOUS
<1> USE DEF TypeOK, ClientsType
<1>1. CASE UNCHANGED clients
  BY <1>1 DEF clients
<1>2. CASE ClientStep
  BY <1>2 DEF ClientStep, Connect, Send, Leave, clients
<1>3. CASE \E s \in Sessions : Accept(s)
  BY <1>3 DEF Accept
<1>4. CASE SendFrozen \/ Refuse
  <2>1. UNCHANGED <<conn, queue, ask>>
    BY <1>4 DEF SendFrozen, Refuse
  <2>2. \/ replies' = replies
        \/ \E a \in {"frozen", "refused"} : replies' = [replies EXCEPT ![cur] = @ \cup {a}]
    BY <1>4 DEF SendFrozen, Refuse
  <2> QED
    BY <2>1, <2>2
<1>5. CASE HoldObserve \/ HoldEnd
  BY <1>5 DEF HoldObserve, HoldEnd
<1>6. CASE Close \/ (\E failed \in BOOLEAN : Kill(failed))
  <2>1. HangUp /\ UNCHANGED <<queue, replies>>
    BY <1>6 DEF Close, Kill
  <2> QED
    BY <2>1 DEF HangUp
<1>7. CASE PowerLoss
  BY <1>7 DEF PowerLoss
<1>8. \/ UNCHANGED clients \/ ClientStep \/ (\E s \in Sessions : Accept(s))
      \/ SendFrozen \/ Refuse \/ HoldObserve \/ HoldEnd
      \/ Close \/ (\E failed \in BOOLEAN : Kill(failed)) \/ PowerLoss
  <2>1. CASE UNCHANGED vars \/ Expire \/ CancelStep
    BY <2>1 DEF vars, Expire, CancelStep, CancelPrepare, CancelVerify, WorkerCancel
  <2>2. CASE ControllerStep
    BY <2>2 DEF ControllerStep, Activate, Select, CheckFresh, CreateAttempt, WriteAttempt,
                SyncAttempt, OpenBank, SpawnPrepare, SpawnVerify, Spawn, PrepareDone, VerifyDone,
                WorkerDone, ReapPrepare, ReapVerify, WorkerReaped, Inspect, Seal, Freeze, Observe,
                Release, HoldAnswer, Fault, InnerFault, Cleanup, NoteCreate, NoteWrite, NoteSync,
                NoteFault
  <2>3. CASE ChildStepping \/ KernelStep
    BY <2>3 DEF ChildStepping, ChildCreate, ChildWrite, ChildSync, ChildSpawn, ChildReap,
                ChildVerify, ChildVerified, ChildFail, ChildCrash, KernelStep, ElfExit, ChildExit
  <2>4. CASE ElfStep \/ SealStep
    BY <2>4 DEF ElfStep, ElfWrite, ElfExtracted, ElfVerified, ElfFail, SealStep, SealCheck,
                SealRemount
  <2> QED
    BY <2>1, <2>2, <2>3, <2>4 DEF Next
<1> QED
  BY <1>1, <1>2, <1>3, <1>4, <1>5, <1>6, <1>7, <1>8

LEMMA SystemTypeStep == TypeOK /\ [Next]_vars => SystemType'
<1> SUFFICES ASSUME TypeOK, [Next]_vars PROVE SystemType'
  OBVIOUS
<1> USE DEF TypeOK, SystemType
<1>1. CASE UNCHANGED system
  BY <1>1 DEF system
<1>2. CASE SealStep
  BY <1>2 DEF SealStep, SealCheck, SealRemount
<1>3. CASE \E failed \in BOOLEAN : Kill(failed)
  BY <1>3 DEF Kill
<1>4. CASE PowerLoss
  BY <1>4, BoundAssumption DEF PowerLoss
<1>5. UNCHANGED system \/ SealStep \/ (\E failed \in BOOLEAN : Kill(failed)) \/ PowerLoss
  <2>1. CASE UNCHANGED vars \/ ClientStep \/ Expire \/ CancelStep
    BY <2>1 DEF vars, ClientStep, Connect, Send, Leave, Expire, CancelStep, CancelPrepare,
                CancelVerify, WorkerCancel
  <2>2. CASE ControllerStep
    BY <2>2 DEF ControllerStep, Activate, Accept, Select, CheckFresh, CreateAttempt, WriteAttempt,
                SyncAttempt, OpenBank, SpawnPrepare, SpawnVerify, Spawn, PrepareDone, VerifyDone,
                WorkerDone, ReapPrepare, ReapVerify, WorkerReaped, Inspect, Seal, Freeze, Observe,
                Release, SendFrozen, HoldObserve, HoldAnswer, HoldEnd, Fault, InnerFault, Refuse,
                Cleanup, NoteCreate, NoteWrite, NoteSync, NoteFault, Close
  <2>3. CASE ChildStepping \/ KernelStep
    BY <2>3 DEF ChildStepping, ChildCreate, ChildWrite, ChildSync, ChildSpawn, ChildReap,
                ChildVerify, ChildVerified, ChildFail, ChildCrash, KernelStep, ElfExit, ChildExit
  <2>4. CASE ElfStep
    BY <2>4 DEF ElfStep, ElfWrite, ElfExtracted, ElfVerified, ElfFail
  <2> QED
    BY <2>1, <2>2, <2>3, <2>4 DEF Next
<1> QED
  BY <1>1, <1>2, <1>3, <1>4, <1>5

\* Every reachable state is well typed, and the controller serves a session
\* exactly inside serve_session.
THEOREM TypeCorrect == Spec => []TypeOK
<1>1. TypeOK /\ [Next]_vars => TypeOK'
  BY DiskTypeStep, ServerTypeStep, WorkersTypeStep, ClientsTypeStep, SystemTypeStep DEF TypeOK
<1> QED
  BY TypeInit, <1>1, PTL DEF Spec

(***************************************************************************)
(* The inductive invariant.                                                *)
(***************************************************************************)

\* How control moves, for the invariants that speak of `ctl': a step stays where
\* it is, goes where no invariant says anything, or is one of these.
Elsewhere == {"accept", "down", "select", "fresh", "prepare", "reapPrepare", "reseal",
              "refuse", "cleanup", "close"}

LEMMA ControlFlow ==
  ASSUME [Next]_vars
  PROVE  \/ ctl' = ctl
         \/ ctl' \in Elsewhere /\ ctl' # "prepare"
         \/ CheckFresh \/ CreateAttempt \/ WriteAttempt \/ SyncAttempt \/ OpenBank
         \/ SpawnPrepare \/ PrepareDone \/ Inspect \/ Seal \/ Freeze \/ SpawnVerify \/ VerifyDone
         \/ CancelVerify
         \/ ctl = "observe" /\ Observe
         \/ ctl = "release" /\ Release
         \/ ctl = "ready" /\ SendFrozen
         \/ HoldObserve \/ HoldAnswer \/ Cleanup \/ NoteCreate \/ NoteWrite
<1> USE DEF Elsewhere
<1>1. CASE UNCHANGED vars \/ ClientStep \/ Expire \/ KernelStep
  BY <1>1 DEF vars, server, ClientStep, Connect, Send, Leave, Expire, KernelStep, ElfExit, ChildExit
<1>2. CASE ControllerStep
  BY <1>2 DEF ControllerStep, Activate, Accept, Select, ReapPrepare, ReapVerify, WorkerReaped,
              Observe, Release, SendFrozen, HoldEnd, Fault, InnerFault, Refuse, NoteSync,
              NoteFault, Close, Goto
<1>3. CASE CancelStep
  BY <1>3 DEF CancelStep, CancelPrepare, WorkerCancel, Goto
<1>4. CASE ChildStepping
  BY <1>4 DEF ChildStepping, ChildCreate, ChildWrite, ChildSync, ChildSpawn, ChildReap,
              ChildVerify, ChildVerified, ChildFail, ChildCrash, server
<1>5. CASE ElfStep \/ SealStep
  BY <1>5 DEF ElfStep, ElfWrite, ElfExtracted, ElfVerified, ElfFail, SealStep, SealCheck,
              SealRemount, server
<1>6. CASE (\E failed \in BOOLEAN : Kill(failed)) \/ PowerLoss
  BY <1>6 DEF Kill, PowerLoss
<1> QED
  BY <1>1, <1>2, <1>3, <1>4, <1>5, <1>6 DEF Next

\* Only `writable' opens the superblock; anything else leaves or seals it, and a
\* file that is open for writing keeps it from being sealed.
LEMMA SuperblockFlow ==
  ASSUME TypeOK, [Next]_vars
  PROVE  \/ OpenBank
         \/ opens' = opens /\ ro' = ro
         \/ opens' = opens /\ ro' = TRUE /\ (PowerLoss \/ ~Writing \/ ro)
<1>1. CASE UNCHANGED disk
  BY <1>1 DEF disk
<1>2. CASE CreateAttempt \/ WriteAttempt \/ SyncAttempt \/ NoteCreate \/ NoteWrite \/ NoteSync
           \/ Inspect
  BY <1>2 DEF CreateAttempt, WriteAttempt, SyncAttempt, NoteCreate, NoteWrite, NoteSync, Inspect
<1>3. CASE Seal \/ Freeze \/ Cleanup \/ (\E h \in Hooks : SealRemount(h))
  BY <1>3 DEF Seal, Freeze, Cleanup, SealRemount, Readonly
<1>4. CASE ChildCreate \/ ChildWrite \/ ChildSync \/ ElfWrite \/ ElfExtracted
  BY <1>4 DEF ChildCreate, ChildWrite, ChildSync, ElfWrite, ElfExtracted
<1>5. CASE PowerLoss
  BY <1>5 DEF PowerLoss
<1> QED
  BY <1>1, <1>2, <1>3, <1>4, <1>5, NextCases

\* Who writes each record, and what a power loss spares of it.
LEMMA RecordFlow ==
  ASSUME TypeOK, [Next]_vars
  PROVE  /\ \/ file'["attempt"] = file["attempt"]
            \/ CreateAttempt \/ WriteAttempt \/ SyncAttempt
            \/ PowerLoss /\ file["attempt"] # "durable"
         /\ \/ file'["complete"] = file["complete"]
            \/ NoteCreate \/ NoteWrite \/ NoteSync \/ PowerLoss
         /\ \/ file'["result"] = file["result"] /\ result' = result
            \/ (ChildCreate \/ ChildWrite \/ ChildSync) /\ child.at = "result"
            \/ Inspect /\ file'["result"] = "durable" /\ result' = result
            \/ /\ PowerLoss /\ result' = result
               /\ file["result"] = "absent" => file'["result"] = "absent"
               /\ file["result"] = "torn" => file'["result"] \in {"absent", "torn"}
               /\ file["result"] = "durable" => file'["result"] = "durable"
<1> USE DEF TypeOK, DiskType, Files, BankFiles, Dirs
<1>1. CASE UNCHANGED disk
  BY <1>1 DEF disk
<1>2. CASE CreateAttempt \/ WriteAttempt \/ SyncAttempt \/ NoteCreate \/ NoteWrite \/ NoteSync
  BY <1>2 DEF CreateAttempt, WriteAttempt, SyncAttempt, NoteCreate, NoteWrite, NoteSync,
              RecordCreate, RecordWrite, RecordSync
<1>3. CASE OpenBank \/ Seal \/ Freeze \/ Cleanup \/ (\E h \in Hooks : SealRemount(h))
  BY <1>3 DEF OpenBank, Seal, Freeze, Cleanup, SealRemount
<1>4. CASE Inspect
  BY <1>4 DEF Inspect
<1>5. CASE ChildCreate \/ ChildWrite \/ ChildSync
  BY <1>5 DEF ChildCreate, ChildWrite, ChildSync
<1>6. CASE ElfWrite \/ ElfExtracted
  BY <1>6 DEF ElfWrite, ElfExtracted
<1>7. CASE PowerLoss
  <2>1. PICK left \in [Unsynced -> FileState] :
          /\ \A f \in Unsynced : left[f] \in Survives(file[f])
          /\ file' = [f \in Files |-> IF f \in Unsynced THEN left[f] ELSE file[f]]
    BY <1>7 DEF PowerLoss
  <2>2. \A f \in Files :
          /\ file[f] \in {"absent", "durable"} => file'[f] = file[f]
          /\ file[f] = "torn" => file'[f] \in {"absent", "torn"}
    BY <2>1 DEF Unsynced, Survives
  <2>3. result' = result
    BY <1>7 DEF PowerLoss
  <2> QED
    BY <1>7, <2>2, <2>3
<1> QED
  BY <1>1, <1>2, <1>3, <1>4, <1>5, <1>6, <1>7, NextCases

\* Only the worker changes the tree, and only a power loss can undo it, while
\* the bank is open and the tree is not whole.
LEMMA TreeFlow ==
  ASSUME [Next]_vars
  PROVE  \/ tree' = tree \/ ElfWrite \/ ElfExtracted
         \/ PowerLoss /\ ~ro /\ tree = "partial"
<1>1. CASE UNCHANGED disk
  BY <1>1 DEF disk
<1>2. CASE CreateAttempt \/ WriteAttempt \/ SyncAttempt \/ NoteCreate \/ NoteWrite \/ NoteSync
           \/ OpenBank \/ Inspect
  BY <1>2 DEF CreateAttempt, WriteAttempt, SyncAttempt, NoteCreate, NoteWrite, NoteSync,
              OpenBank, Inspect
<1>3. CASE Seal \/ Freeze \/ Cleanup \/ (\E h \in Hooks : SealRemount(h))
  BY <1>3 DEF Seal, Freeze, Cleanup, SealRemount
<1>4. CASE ChildCreate \/ ChildWrite \/ ChildSync
  BY <1>4 DEF ChildCreate, ChildWrite, ChildSync
<1>5. CASE PowerLoss
  BY <1>5 DEF PowerLoss
<1> QED
  BY <1>1, <1>2, <1>3, <1>4, <1>5, NextCases

LEMMA BankInit == Init => BankInv
<1> SUFFICES ASSUME Init PROVE BankInv
  OBVIOUS
<1> USE DEF Init, Files, BankFiles, Dirs, NoChild
<1>1. BarrierInv /\ CompletionInv
  BY DEF BarrierInv, CompletionInv, CompletionIsSealed, Extracted, Opened
<1>2. WorkersInv /\ ResultInv
  BY DEF WorkersInv, ResultInv, ExtractedMeansWhole, Readable, Unstarted
<1>3. SessionInv /\ FrozenIsForever
  BY DEF SessionInv, FrozenIsForever, Extracted, Frozen
<1> QED
  BY <1>1, <1>2, <1>3 DEF BankInv

LEMMA BarrierStep == TypeOK /\ BankInv /\ [Next]_vars => BarrierInv'
<1> SUFFICES ASSUME TypeOK, BankInv, [Next]_vars PROVE BarrierInv'
  OBVIOUS
<1> USE DEF BankInv, BarrierInv
<1>1. (opens' \in {0, 1}) /\ (opens' = 0 => ro')
  <2>1. CASE OpenBank
    BY <2>1 DEF OpenBank, Goto
  <2>2. CASE ~OpenBank
    BY <2>2, SuperblockFlow
  <2> QED
    BY <2>1, <2>2
<1>2. opens' = 1 => file'["attempt"] = "durable"
  <2>1. CASE OpenBank
    BY <2>1 DEF OpenBank, Goto
  <2>2. CASE CreateAttempt \/ WriteAttempt \/ SyncAttempt
    BY <2>2 DEF CreateAttempt, WriteAttempt, SyncAttempt, RecordCreate, Goto
  <2>3. CASE ~OpenBank /\ ~(CreateAttempt \/ WriteAttempt \/ SyncAttempt)
    BY <2>3, SuperblockFlow, RecordFlow
  <2> QED
    BY <2>1, <2>2, <2>3
<1>3. ctl' \in {"write", "sync", "open"} => opens' = 0
  <2>1. CASE CreateAttempt \/ WriteAttempt \/ SyncAttempt
    BY <2>1 DEF CreateAttempt, WriteAttempt, SyncAttempt, RecordCreate, Goto
  <2>2. CASE ctl' = ctl
    BY <2>2, SuperblockFlow DEF OpenBank, Goto
  <2>3. CASE ctl' # ctl /\ ~(CreateAttempt \/ WriteAttempt \/ SyncAttempt)
    BY <2>3, ControlFlow
       DEF Elsewhere, CheckFresh, OpenBank, SpawnPrepare, SpawnVerify, Spawn, PrepareDone,
           VerifyDone, WorkerDone, CancelVerify, WorkerCancel, Inspect, Seal, Freeze, Readonly,
           Observe, Release, SendFrozen, HoldObserve, HoldAnswer, Cleanup, NoteCreate, NoteWrite,
           Goto
  <2> QED
    BY <2>1, <2>2, <2>3
<1>4. ctl' = "open" => file'["attempt"] = "durable"
  <2>1. CASE SyncAttempt
    BY <2>1 DEF SyncAttempt, RecordSync, TypeOK, DiskType, Files
  <2>2. CASE CreateAttempt \/ WriteAttempt
    BY <2>2 DEF CreateAttempt, WriteAttempt, Goto
  <2>3. CASE ~(CreateAttempt \/ WriteAttempt \/ SyncAttempt)
    <3>1. ctl' = "open" => ctl = "open"
      BY <2>3, ControlFlow
         DEF Elsewhere, Extracted, Opened, CheckFresh, OpenBank, SpawnPrepare, SpawnVerify, Spawn, PrepareDone,
             VerifyDone, WorkerDone, CancelVerify, WorkerCancel, Inspect, Seal, Freeze, Readonly,
             Observe, Release, SendFrozen, HoldObserve, HoldAnswer, Cleanup, NoteCreate,
             NoteWrite, Goto
    <3> QED
      BY <2>3, <3>1, RecordFlow
  <2> QED
    BY <2>1, <2>2, <2>3
<1>5. ctl' \in Opened => opens' = 1
  <2>1. CASE OpenBank
    BY <2>1 DEF OpenBank, Goto
  <2>2. CASE ~OpenBank
    <3>1. ctl' \in Opened => ctl \in Opened
      BY <2>2, ControlFlow
         DEF Elsewhere, Extracted, Opened, CheckFresh, CreateAttempt, WriteAttempt,
             SyncAttempt, SpawnPrepare, SpawnVerify, Spawn, PrepareDone,
             VerifyDone, WorkerDone, CancelVerify, WorkerCancel, Inspect, Seal, Freeze, Readonly,
             Observe, Release, SendFrozen, HoldObserve, HoldAnswer, Cleanup, NoteCreate,
             NoteWrite, Goto
    <3> QED
      BY <2>2, <3>1, SuperblockFlow
  <2> QED
    BY <2>1, <2>2
<1> QED
  BY <1>1, <1>2, <1>3, <1>4, <1>5

LEMMA CompletionStep == TypeOK /\ BankInv /\ [Next]_vars => CompletionInv'
<1> SUFFICES ASSUME TypeOK, BankInv, [Next]_vars PROVE CompletionInv'
  OBVIOUS
<1> USE DEF BankInv, CompletionInv, CompletionIsSealed
<1>1. file'["complete"] # "absent" => ro'
  <2>1. CASE OpenBank
    BY <2>1 DEF OpenBank, Goto
  <2>2. CASE NoteCreate \/ NoteWrite \/ NoteSync
    BY <2>2 DEF NoteCreate, NoteWrite, NoteSync, Goto
  <2>3. CASE PowerLoss
    BY <2>3 DEF PowerLoss
  <2>4. CASE ~(OpenBank \/ NoteCreate \/ NoteWrite \/ NoteSync \/ PowerLoss)
    BY <2>4, SuperblockFlow, RecordFlow
  <2> QED
    BY <2>1, <2>2, <2>3, <2>4
<1>2. ctl' \in {"create", "write", "sync", "open"} => file'["complete"] = "absent"
  <2>1. CASE CheckFresh
    BY <2>1 DEF CheckFresh, disk
  <2>2. CASE CreateAttempt \/ WriteAttempt \/ SyncAttempt
    BY <2>2 DEF CreateAttempt, WriteAttempt, SyncAttempt, RecordCreate, RecordWrite, RecordSync,
                Goto, TypeOK, DiskType, Files
  <2>3. CASE ~(CheckFresh \/ CreateAttempt \/ WriteAttempt \/ SyncAttempt)
    <3>1. ctl' \in {"create", "write", "sync", "open"} => ctl' = ctl /\ ~PowerLoss
      BY <2>3, ControlFlow
         DEF Elsewhere, OpenBank, SpawnPrepare, SpawnVerify, Spawn, PrepareDone, VerifyDone,
             WorkerDone, CancelVerify, WorkerCancel, Inspect, Seal, Freeze, Readonly, Observe,
             Release, SendFrozen, HoldObserve, HoldAnswer, Cleanup, NoteCreate, NoteWrite, Goto,
             PowerLoss
    <3> QED
      BY <3>1, RecordFlow DEF NoteCreate, NoteWrite, NoteSync, Goto
  <2> QED
    BY <2>1, <2>2, <2>3
<1>3. ctl' \in {"noteCreate", "noteWrite", "noteSync"} => ro'
  <2>1. CASE Cleanup
    BY <2>1 DEF Cleanup, Readonly
  <2>2. CASE ~Cleanup
    <3>1. ctl' \in {"noteCreate", "noteWrite", "noteSync"}
             => ctl \in {"noteCreate", "noteWrite", "noteSync"} /\ ~OpenBank
      BY <2>2, ControlFlow
         DEF Elsewhere, CheckFresh, CreateAttempt, WriteAttempt, SyncAttempt, OpenBank,
             SpawnPrepare, SpawnVerify, Spawn, PrepareDone, VerifyDone, WorkerDone, CancelVerify,
             WorkerCancel, Inspect, Seal, Freeze, Readonly, Observe, Release, SendFrozen,
             HoldObserve, HoldAnswer, NoteCreate, NoteWrite, Goto
    <3> QED
      BY <3>1, SuperblockFlow
  <2> QED
    BY <2>1, <2>2
<1> QED
  BY <1>1, <1>2, <1>3

\* The steps that end the work of a child and of its worker.
Ending == \/ PrepareDone \/ VerifyDone \/ CancelStep
          \/ (\E failed \in BOOLEAN : Kill(failed)) \/ PowerLoss

LEMMA EndingLeaves ==
  ASSUME TypeOK, Ending
  PROVE  /\ child'.at \in {"none", "dying"}
         /\ elf' \in {"none", "dying", "dyingOpen"}
         /\ elf' = "dyingOpen" => elf \in {"open", "dyingOpen"} /\ ro' = ro
<1>1. DyingChild(child).at \in {"none", "dying"} /\ NoChild.at = "none"
  BY DEF DyingChild, NoChild, TypeOK, WorkersType
<1>2. /\ DyingElf(elf) \in {"none", "dying", "dyingOpen"}
      /\ DyingElf(elf) = "dyingOpen" => elf \in {"open", "dyingOpen"}
  BY DEF DyingElf
<1>3. CASE PowerLoss
  BY <1>1, <1>3 DEF PowerLoss
<1>4. CASE ~PowerLoss
  BY <1>1, <1>2, <1>4
     DEF Ending, PrepareDone, VerifyDone, WorkerDone, CancelStep, CancelPrepare, CancelVerify,
         WorkerCancel, Kill, disk
<1> QED
  BY <1>3, <1>4

\* The controller waits for its child until the work ends.
LEMMA Awaits ==
  ASSUME [Next]_vars, ~Ending, ctl \in {"prepare", "verify"}
  PROVE  ctl' = ctl
<1>1. CASE UNCHANGED vars \/ ClientStep \/ Expire \/ KernelStep
  BY <1>1 DEF vars, server, ClientStep, Connect, Send, Leave, Expire, KernelStep, ElfExit, ChildExit
<1>2. ~ControllerStep
  BY DEF Ending, ControllerStep, Activate, Accept, Select, CheckFresh, CreateAttempt,
         WriteAttempt, SyncAttempt, OpenBank, SpawnPrepare, SpawnVerify, Spawn, ReapPrepare,
         ReapVerify, WorkerReaped, Inspect, Seal, Freeze, Observe, Release, SendFrozen,
         HoldObserve, HoldAnswer, HoldEnd, Fault, InnerFault, Refuse, Cleanup, NoteCreate,
         NoteWrite, NoteSync, NoteFault, Close, Goto, InTry
<1>3. CASE ChildStepping
  BY <1>3 DEF ChildStepping, ChildCreate, ChildWrite, ChildSync, ChildSpawn, ChildReap,
              ChildVerify, ChildVerified, ChildFail, ChildCrash, server
<1>4. CASE ElfStep \/ SealStep
  BY <1>4 DEF ElfStep, ElfWrite, ElfExtracted, ElfVerified, ElfFail, SealStep, SealCheck,
              SealRemount, server
<1> QED
  BY <1>1, <1>2, <1>3, <1>4 DEF Next, Ending

LEMMA WorkersStep == TypeOK /\ BankInv /\ [Next]_vars => WorkersInv'
<1> SUFFICES ASSUME TypeOK, BankInv, [Next]_vars PROVE WorkersInv'
  OBVIOUS
<1> USE DEF BankInv, WorkersInv
<1>1. CASE Ending
  BY <1>1, EndingLeaves DEF BankFiles, Dirs
<1>2. CASE SpawnPrepare \/ SpawnVerify
  BY <1>2 DEF SpawnPrepare, SpawnVerify, Spawn, Goto, BankFiles, Dirs, disk
<1>3. CASE UNCHANGED workers /\ ~Ending
  <2>1. elf \in {"open", "dyingOpen"} => ro' = ro
    BY <1>3, SuperblockFlow DEF Writing, Ending, OpenBank, BarrierInv, Goto
  <2> QED
    BY <1>3, <2>1, Awaits DEF workers
<1>4. CASE ChildStepping
  <2>1. ctl' = ctl /\ ro' = ro
    BY <1>4 DEF ChildStepping, ChildCreate, ChildWrite, ChildSync, ChildSpawn, ChildReap,
                ChildVerify, ChildVerified, ChildFail, ChildCrash, server, disk
  <2>2. CASE ChildCreate \/ ChildWrite
    BY <2>1, <2>2 DEF ChildCreate, ChildWrite, TypeOK, WorkersType
  <2>3. CASE ChildSync
    BY <2>1, <2>3 DEF ChildSync, After, TypeOK, WorkersType, BankFiles, Dirs
  <2>4. CASE ChildSpawn \/ ChildReap \/ ChildVerify \/ ChildVerified \/ ChildFail
    BY <2>1, <2>4 DEF ChildSpawn, ChildReap, ChildVerify, ChildVerified, ChildFail, TypeOK,
                      WorkersType, BankFiles, Dirs
  <2>5. CASE ChildCrash
    BY <2>1, <2>5 DEF ChildCrash, DyingElf, TypeOK, WorkersType, BankFiles, Dirs
  <2> QED
    BY <1>4, <2>2, <2>3, <2>4, <2>5 DEF ChildStepping
<1>5. CASE ElfStep
  BY <1>5 DEF ElfStep, ElfWrite, ElfExtracted, ElfVerified, ElfFail, server, disk
<1>6. CASE KernelStep
  BY <1>6 DEF KernelStep, ElfExit, ChildExit, NoChild, server, disk, BankFiles, Dirs
<1> QED
  BY <1>1, <1>2, <1>3, <1>4, <1>5, <1>6, WorkersCases DEF Ending

\* A child's step is taken inside "prepare" or "verify" and leaves the
\* controller where it is.
LEMMA ChildStays ==
  ASSUME ChildStepping \/ ElfStep \/ KernelStep
  PROVE  ctl' = ctl /\ UNCHANGED <<ro, opens, replies>>
<1>1. CASE ChildStepping
  BY <1>1 DEF ChildStepping, ChildCreate, ChildWrite, ChildSync, ChildSpawn, ChildReap,
              ChildVerify, ChildVerified, ChildFail, ChildCrash, server, disk, clients
<1>2. CASE ElfStep \/ KernelStep
  BY <1>2 DEF ElfStep, ElfWrite, ElfExtracted, ElfVerified, ElfFail, KernelStep, ElfExit,
              ChildExit, server, disk, clients
<1> QED
  BY <1>1, <1>2

\* The child and its worker are where they were, or are gone, unless the step is
\* one of theirs.
LEMMA WorkFlow ==
  ASSUME TypeOK, [Next]_vars
  PROVE  \/ child' = child /\ elf' = elf
         \/ child'.at \in {"none", "dying"} /\ elf' \in {"none", "dying", "dyingOpen"}
         \/ SpawnPrepare \/ SpawnVerify \/ ChildStepping \/ ElfStep \/ KernelStep
<1>1. CASE Ending
  BY <1>1, EndingLeaves
<1> QED
  BY <1>1, WorkersCases DEF Ending, workers

LEMMA ResultStep == TypeOK /\ BankInv /\ [Next]_vars => ResultInv'
<1> SUFFICES ASSUME TypeOK, BankInv, [Next]_vars PROVE ResultInv'
  OBVIOUS
<1> USE DEF BankInv, ResultInv
<1>1. ctl' \in Unstarted => file'["result"] = "absent"
  <2>1. CASE CheckFresh
    BY <2>1 DEF CheckFresh, BankFiles, disk
  <2>2. CASE ~CheckFresh
    <3>1. ctl' \in Unstarted => ctl \in Unstarted
      BY <2>2, ControlFlow
         DEF Elsewhere, Unstarted, CreateAttempt, WriteAttempt, SyncAttempt, OpenBank,
             SpawnPrepare, SpawnVerify, Spawn, PrepareDone, VerifyDone, WorkerDone, CancelVerify,
             WorkerCancel, Inspect, Seal, Freeze, Readonly, Observe, Release, SendFrozen,
             HoldObserve, HoldAnswer, Cleanup, NoteCreate, NoteWrite, Goto
    <3>2. ctl \in Unstarted => ~Inspect /\ child.at # "result"
      BY DEF Inspect, Goto, Unstarted, WorkersInv, BankFiles
    <3> QED
      BY <3>1, <3>2, RecordFlow
  <2> QED
    BY <2>1, <2>2
<1>2. CASE SpawnPrepare \/ SpawnVerify
  <2>1. UNCHANGED <<file, tree, result, elf>> /\ child'.at \in {"stage", "check"}
    BY <1>2 DEF SpawnPrepare, SpawnVerify, Spawn, disk
  <2>2. child'.at = "stage" => file["result"] = "absent"
    BY <1>2 DEF SpawnPrepare, SpawnVerify, Spawn, Goto, Unstarted
  <2> QED
    BY <1>1, <2>1, <2>2 DEF ExtractedMeansWhole, Readable, BankFiles, Dirs
<1>3. CASE ChildStepping
  <2> USE DEF TypeOK, WorkersType, DiskType, ExtractedMeansWhole, Readable, BankFiles, Dirs, Files
  <2>1. CASE ChildCreate
    BY <1>1, <2>1 DEF ChildCreate
  <2>2. CASE ChildWrite
    BY <1>1, <2>2 DEF ChildWrite
  <2>3. CASE ChildSync
    BY <1>1, <2>3 DEF ChildSync, After
  <2>4. CASE ChildSpawn \/ ChildReap
    BY <1>1, <2>4 DEF ChildSpawn, ChildReap, disk
  <2>5. CASE ChildVerify \/ ChildVerified \/ ChildFail \/ ChildCrash
    BY <1>1, <2>5 DEF ChildVerify, ChildVerified, ChildFail, ChildCrash, disk
  <2> QED
    BY <1>3, <2>1, <2>2, <2>3, <2>4, <2>5 DEF ChildStepping
<1>4. CASE ElfStep
  BY <1>1, <1>4
     DEF ElfStep, ElfWrite, ElfExtracted, ElfVerified, ElfFail, WorkersInv, ExtractedMeansWhole,
         Readable, BankFiles, Dirs, disk
<1>5. CASE KernelStep
  BY <1>1, <1>5
     DEF KernelStep, ElfExit, ChildExit, NoChild, ExtractedMeansWhole, Readable, BankFiles, Dirs,
         disk
<1>6. CASE ~(SpawnPrepare \/ SpawnVerify \/ ChildStepping \/ ElfStep \/ KernelStep)
  <2>1. /\ \/ child' = child /\ elf' = elf
           \/ child'.at \in {"none", "dying"} /\ elf' \in {"none", "dying", "dyingOpen"}
    BY <1>6, WorkFlow
  <2>2. tree = "complete" => tree' = "complete"
    BY <1>6, TreeFlow DEF ElfStep
  <2>3. result' = result /\ (file'["result"] = file["result"] \/ Inspect \/ PowerLoss)
    BY <1>6, RecordFlow DEF ChildStepping
  <2>4. /\ file["result"] = "absent" => file'["result"] = "absent"
        /\ file'["result"] \in {"written", "durable"} => file["result"] \in {"written", "durable"}
    BY <1>6, RecordFlow DEF ChildStepping, Inspect, Readable, TypeOK, DiskType, FileState, Files,
                            BankFiles
  <2>5. child'.at = "result" => child' = child /\ file'["result"] = file["result"]
    <3>1. child.at = "result" => ~Inspect
      BY DEF Inspect, Goto, WorkersInv, BankFiles
    <3>2. CASE PowerLoss
      BY <3>2 DEF PowerLoss, NoChild
    <3> QED
      BY <2>1, <2>3, <3>1, <3>2
  <2> QED
    BY <1>1, <2>1, <2>2, <2>3, <2>4, <2>5 DEF ExtractedMeansWhole, Readable, BankFiles, Dirs
<1> QED
  BY <1>2, <1>3, <1>4, <1>5, <1>6

LEMMA SessionStep == TypeOK /\ BankInv /\ [Next]_vars => SessionInv'
<1> SUFFICES ASSUME TypeOK, BankInv, [Next]_vars PROVE SessionInv'
  OBVIOUS
<1> USE DEF BankInv, SessionInv
<1>1. ctl' \in Extracted => file'["result"] = "durable" /\ result' = "extracted"
  <2>1. CASE Inspect
    BY <2>1 DEF Inspect, TypeOK, DiskType, Files, BankFiles
  <2>2. CASE ~Inspect
    <3>1. ctl' \in Extracted => ctl \in Extracted
      BY <2>2, ControlFlow
         DEF Elsewhere, Extracted, CheckFresh, CreateAttempt, WriteAttempt, SyncAttempt, OpenBank,
             SpawnPrepare, SpawnVerify, Spawn, PrepareDone, VerifyDone, WorkerDone, CancelVerify,
             WorkerCancel, Seal, Freeze, Readonly, Observe, Release, SendFrozen, HoldObserve,
             HoldAnswer, Cleanup, NoteCreate, NoteWrite, Goto
    <3>2. ctl \in Extracted => child.at # "result"
      BY DEF WorkersInv, Extracted, BankFiles
    <3> QED
      BY <2>2, <3>1, <3>2, RecordFlow
  <2> QED
    BY <2>1, <2>2
<1>2. ctl' \in Frozen => ro'
  <2>1. CASE Freeze
    BY <2>1 DEF Freeze, Readonly, Frozen, Extracted
  <2>2. CASE ~Freeze
    <3>1. ctl' \in Frozen => ctl \in Frozen
      BY <2>2, ControlFlow
         DEF Elsewhere, Extracted, Frozen, CheckFresh, CreateAttempt, WriteAttempt, SyncAttempt,
             OpenBank, SpawnPrepare, SpawnVerify, Spawn, PrepareDone, VerifyDone, WorkerDone,
             CancelVerify, WorkerCancel, Inspect, Seal, Readonly, Observe, Release, SendFrozen,
             HoldObserve, HoldAnswer, Cleanup, NoteCreate, NoteWrite, Goto
    <3>2. ctl \in Frozen => ~OpenBank
      BY DEF OpenBank, Goto, Frozen, Extracted
    <3> QED
      BY <3>1, <3>2, SuperblockFlow
  <2> QED
    BY <2>1, <2>2
<1> QED
  BY <1>1, <1>2

\* The first promise is made of a bank that is sealed and whole.
LEMMA PromiseFlow ==
  ASSUME TypeOK, BankInv, [Next]_vars
  PROVE  \/ \A s \in Sessions : "frozen" \in replies'[s] <=> "frozen" \in replies[s]
         \/ SendFrozen /\ ro /\ opens = 1 /\ file["attempt"] = "durable"
            /\ file["result"] = "durable" /\ result = "extracted" /\ tree = "complete"
<1>1. CASE SendFrozen
  BY <1>1 DEF SendFrozen, Goto, BankInv, SessionInv, BarrierInv, ResultInv, ExtractedMeansWhole,
              Readable, Extracted, Frozen, Opened
<1>2. CASE Refuse
  <2>1. \/ replies' = replies
        \/ replies' = [replies EXCEPT ![cur] = @ \cup {"refused"}]
    BY <1>2 DEF Refuse
  <2> QED
    BY <2>1 DEF TypeOK, ClientsType
<1>3. CASE ~SendFrozen /\ ~Refuse
  <2>1. CASE UNCHANGED vars \/ ClientStep \/ Expire \/ CancelStep
    BY <2>1 DEF vars, clients, ClientStep, Connect, Send, Leave, Expire, CancelStep,
                CancelPrepare, CancelVerify, WorkerCancel
  <2>2. CASE ControllerStep
    BY <1>3, <2>2
       DEF ControllerStep, Activate, Accept, Select, CheckFresh, CreateAttempt, WriteAttempt,
           SyncAttempt, OpenBank, SpawnPrepare, SpawnVerify, Spawn, PrepareDone, VerifyDone,
           WorkerDone, ReapPrepare, ReapVerify, WorkerReaped, Inspect, Seal, Freeze, Observe,
           Release, HoldObserve, HoldAnswer, HoldEnd, Fault, InnerFault, Cleanup, NoteCreate,
           NoteWrite, NoteSync, NoteFault, Close, clients
  <2>3. CASE ChildStepping \/ ElfStep \/ KernelStep
    BY <2>3, ChildStays
  <2>4. CASE SealStep \/ (\E failed \in BOOLEAN : Kill(failed)) \/ PowerLoss
    BY <2>4 DEF SealStep, SealCheck, SealRemount, clients, Kill, PowerLoss
  <2> QED
    BY <2>1, <2>2, <2>3, <2>4 DEF Next
<1> QED
  BY <1>1, <1>2, <1>3

LEMMA FrozenStep == TypeOK /\ BankInv /\ [Next]_vars => FrozenIsForever'
<1> SUFFICES ASSUME TypeOK, BankInv, [Next]_vars,
                    NEW s \in Sessions, "frozen" \in replies'[s]
             PROVE  /\ ro'
                    /\ file'["attempt"] = "durable"
                    /\ file'["result"] = "durable" /\ result' = "extracted"
                    /\ tree' = "complete"
  BY DEF FrozenIsForever
<1>1. /\ ro /\ file["attempt"] = "durable" /\ file["result"] = "durable"
      /\ result = "extracted" /\ tree = "complete"
  BY PromiseFlow DEF BankInv, FrozenIsForever
<1>2. ~OpenBank
  BY <1>1 DEF OpenBank, Goto, BankInv, ResultInv, Unstarted
<1>3. child.at \notin BankFiles \cup {"spawn", "extract"}
  BY <1>1 DEF BankInv, ResultInv, BankFiles, Dirs
<1>4. ro'
  BY <1>1, <1>2, SuperblockFlow
<1>5. file'["attempt"] = "durable"
  <2>1. ~CreateAttempt /\ ~WriteAttempt
    BY <1>1, <1>2 DEF CreateAttempt, WriteAttempt, RecordCreate, Goto, BankInv, ResultInv, Unstarted
  <2>2. ~SyncAttempt
    BY <1>1 DEF SyncAttempt, Goto, BankInv, ResultInv, Unstarted
  <2> QED
    BY <1>1, <2>1, <2>2, RecordFlow
<1>6. file'["result"] = "durable" /\ result' = "extracted"
  BY <1>1, <1>3, RecordFlow DEF BankFiles
<1>7. tree' = "complete"
  BY <1>1, <1>3, TreeFlow DEF ElfWrite, ElfExtracted, BankInv, WorkersInv
<1> QED
  BY <1>4, <1>5, <1>6, <1>7

LEMMA BankInvariant == Spec => [](TypeOK /\ BankInv)
<1>1. Init => TypeOK /\ BankInv
  BY TypeInit, BankInit
<1>2. TypeOK /\ BankInv /\ [Next]_vars => (TypeOK /\ BankInv)'
  <2>1. TypeOK /\ [Next]_vars => TypeOK'
    BY DiskTypeStep, ServerTypeStep, WorkersTypeStep, ClientsTypeStep, SystemTypeStep DEF TypeOK
  <2> QED
    BY <2>1, BarrierStep, CompletionStep, WorkersStep, ResultStep, SessionStep, FrozenStep
       DEF BankInv
<1> QED
  BY <1>1, <1>2, PTL DEF Spec

\* The superblock is made writable at most once in the life of the bank: the
\* barrier is created with O_EXCL before the remount and is never removed.
THEOREM OpenedAtMostOnce == Spec => []OpenedOnce
<1>1. BankInv => OpenedOnce
  BY DEF BankInv, BarrierInv, OpenedOnce
<1> QED
  BY <1>1, BankInvariant, PTL

\* A power loss while the bank is writable cannot bring back a bank that looks
\* unused: record() has synced the barrier before `writable' remounts.
THEOREM BarrierIsDurable == Spec => []BarrierBeforeWritable
<1>1. TypeOK /\ BankInv => BarrierBeforeWritable
  BY DEF BankInv, BarrierInv, BarrierBeforeWritable
<1> QED
  BY <1>1, BankInvariant, PTL

\* A completion record means a read-only bank, for good.
THEOREM CompletionMeansSealed == Spec => []CompletionIsSealed
<1>1. BankInv => CompletionIsSealed
  BY DEF BankInv, CompletionInv
<1> QED
  BY <1>1, BankInvariant, PTL

\* An "extracted" record that can be read back vouches for a whole tree.
THEOREM ExtractedIsWhole == Spec => []ExtractedMeansWhole
<1>1. BankInv => ExtractedMeansWhole
  BY DEF BankInv, ResultInv
<1> QED
  BY <1>1, BankInvariant, PTL

\* The records of the bank are true, now and after every crash: an extracted
\* result means a whole tree, a completion record a read-only bank.
THEOREM RecordsTrue == Spec => []RecordsAreTrue
<1>1. BankInv => RecordsAreTrue
  BY DEF BankInv, CompletionInv, ResultInv, RecordsAreTrue
<1> QED
  BY <1>1, BankInvariant, PTL

\* What a client was told of a frozen root stays true whatever happens next.
THEOREM FrozenForGood == Spec => []FrozenIsForever
<1>1. BankInv => FrozenIsForever
  BY DEF BankInv
<1> QED
  BY <1>1, BankInvariant, PTL

(***************************************************************************)
(* The controller implements the abstract bank.                            *)
(***************************************************************************)

(***************************************************************************)
(* Nobody is left below the controller.                                    *)
(***************************************************************************)

\* Where the bank, the descriptors and the session's name are touched.
LEMMA HoldFlow ==
  ASSUME [Next]_vars
  PROVE  \/ UNCHANGED <<bank, held, cur>>
         \/ (\E s \in Sessions : Accept(s)) \/ Select \/ Release \/ HoldObserve \/ HoldAnswer
         \/ (cur' = NoSession /\ ~bank' /\ ~held' /\ ctl' \in {"accept", "down"})
<1>1. CASE UNCHANGED <<server, expired>> \/ Expire
  BY <1>1 DEF Expire, server
<1>2. CASE ControllerStep
  BY <1>2 DEF ControllerStep, Activate, CheckFresh, CreateAttempt, WriteAttempt, SyncAttempt,
              OpenBank, SpawnPrepare, SpawnVerify, Spawn, PrepareDone, VerifyDone, WorkerDone,
              ReapPrepare, ReapVerify, WorkerReaped, Inspect, Seal, Freeze, Observe, SendFrozen,
              HoldEnd, Fault, InnerFault, Refuse, Cleanup, NoteCreate, NoteWrite, NoteSync,
              NoteFault, Close, Forget, DropLocals, Goto
<1>3. CASE CancelStep
  BY <1>3 DEF CancelStep, CancelPrepare, CancelVerify, WorkerCancel
<1>4. CASE (\E failed \in BOOLEAN : Kill(failed)) \/ PowerLoss
  BY <1>4 DEF Kill, PowerLoss, Forget, DropLocals
<1> QED
  BY <1>1, <1>2, <1>3, <1>4, ServerCases

\* A child at work keeps the session it was made for, and is made by a spawn.
LEMMA OwnerFlow ==
  ASSUME TypeOK, [Next]_vars, ~(SpawnPrepare \/ SpawnVerify), ChildAlive'
  PROVE  ChildAlive /\ child'.of = child.of
<1> USE DEF ChildAlive, TypeOK, WorkersType
<1>1. CASE UNCHANGED workers
  BY <1>1 DEF workers
<1>2. CASE PrepareDone \/ VerifyDone \/ PowerLoss
  BY <1>2 DEF PrepareDone, VerifyDone, WorkerDone, PowerLoss, NoChild
<1>3. CASE CancelStep \/ (\E failed \in BOOLEAN : Kill(failed))
  <2>1. child' = DyingChild(child)
    BY <1>3 DEF CancelStep, CancelPrepare, CancelVerify, WorkerCancel, Kill
  <2>2. CASE child.at \in {"none", "exited", "failed"}
    BY <2>1, <2>2 DEF DyingChild, NoChild
  <2>3. CASE child.at \notin {"none", "exited", "failed"}
    <3> DEFINE step == IF child.step \in {"write", "sync"} THEN child.step ELSE "idle"
    <3>1. child' = [child EXCEPT !.at = "dying", !.step = step]
      BY <2>1, <2>3 DEF DyingChild
    <3> HIDE DEF step
    <3> QED
      BY <2>3, <3>1
  <2> QED
    BY <2>2, <2>3
<1>4. CASE ChildCreate \/ ChildWrite \/ ChildSync
  BY <1>4 DEF ChildCreate, ChildWrite, ChildSync, BankFiles, Dirs
<1>5. CASE ChildSpawn \/ ChildReap \/ ChildVerify \/ ChildVerified \/ ChildFail \/ ChildCrash
  BY <1>5 DEF ChildSpawn, ChildReap, ChildVerify, ChildVerified, ChildFail, ChildCrash
<1>6. CASE ElfStep \/ KernelStep
  BY <1>6 DEF ElfStep, ElfWrite, ElfExtracted, ElfVerified, ElfFail, KernelStep, ElfExit, ChildExit, NoChild
<1> QED
  BY <1>1, <1>2, <1>3, <1>4, <1>5, <1>6, WorkersCases DEF ChildStepping

\* The places where no bank is held are entered from each other or by an end.
LEMMA ControlEntry ==
  ASSUME [Next]_vars, UNCHANGED <<bank, held, cur>>, bank
  PROVE  ctl' \in {"accept", "select", "down"} => ctl \in {"accept", "select", "down"}
<1>1. CASE UNCHANGED <<server, expired>> \/ Expire
  BY <1>1 DEF Expire, server
<1>2. CASE ControllerStep
  BY <1>2 DEF ControllerStep, Activate, Accept, Select, CheckFresh, CreateAttempt, WriteAttempt,
              SyncAttempt, OpenBank, SpawnPrepare, SpawnVerify, Spawn, PrepareDone, VerifyDone,
              WorkerDone, ReapPrepare, ReapVerify, WorkerReaped, Inspect, Seal, Freeze, Readonly,
              Observe, Release, SendFrozen, HoldObserve, HoldAnswer, HoldEnd, Fault, InnerFault,
              Refuse, Cleanup, NoteCreate, NoteWrite, NoteSync, NoteFault, Close, Forget,
              DropLocals, Goto
<1>3. CASE CancelStep
  BY <1>3 DEF CancelStep, CancelPrepare, CancelVerify, WorkerCancel, Goto
<1>4. CASE (\E failed \in BOOLEAN : Kill(failed)) \/ PowerLoss
  BY <1>4 DEF Kill, PowerLoss, Forget, DropLocals
<1> QED
  BY <1>1, <1>2, <1>3, <1>4, ServerCases

LEMMA OursStep == TypeOK /\ InsideInv /\ [Next]_vars => ChildIsOurs' /\ (ctl' \in {"accept", "select", "down"} => ~bank')
<1> SUFFICES ASSUME TypeOK, InsideInv, [Next]_vars
             PROVE  ChildIsOurs' /\ (ctl' \in {"accept", "select", "down"} => ~bank')
  OBVIOUS
<1> USE DEF InsideInv, ChildIsOurs
<1>1. CASE SpawnPrepare \/ SpawnVerify
  BY <1>1 DEF SpawnPrepare, SpawnVerify, Spawn, Goto, TypeOK, WorkersType
<1>2. CASE \E s \in Sessions : Accept(s)
  BY <1>2 DEF Accept, Goto
<1>3. CASE Select
  BY <1>3 DEF Select, LockFree, Goto, ChildAlive, workers
<1>4. CASE Release \/ HoldObserve \/ HoldAnswer
  BY <1>4 DEF Release, HoldObserve, HoldAnswer, Goto, ChildAlive, workers
<1>5. CASE cur' = NoSession /\ ~bank' /\ ~held' /\ ctl' \in {"accept", "down"}
  BY <1>5
<1>6. CASE UNCHANGED <<bank, held, cur>> /\ ~(SpawnPrepare \/ SpawnVerify)
  <2>1. ChildIsOurs'
    BY <1>6, OwnerFlow
  <2>2. ctl' \in {"accept", "select", "down"} /\ bank => ctl \in {"accept", "select", "down"}
    BY ControlEntry, <1>6
  <2> QED
    BY <1>6, <2>1, <2>2
<1> QED
  BY <1>1, <1>2, <1>3, <1>4, <1>5, <1>6, HoldFlow

LEMMA SettledStep ==
  TypeOK /\ BankInv /\ InsideInv /\ [Next]_vars =>
    /\ child'.at \in {"worker", "result", "exited"} => elf' = "none"
    /\ ctl' \in {"observe", "release", "ready", "hold", "answer"} => child'.at = "none" /\ elf' = "none"
<1> SUFFICES ASSUME TypeOK, BankInv, InsideInv, [Next]_vars
             PROVE  /\ child'.at \in {"worker", "result", "exited"} => elf' = "none"
                    /\ ctl' \in {"observe", "release", "ready", "hold", "answer"} =>
                         child'.at = "none" /\ elf' = "none"
  OBVIOUS
<1> USE DEF InsideInv
<1>1. CASE VerifyDone
  <2>1. child' = NoChild /\ elf' = DyingElf(elf) /\ ctl' \in {"observe", "refuse"}
        /\ (ctl' = "observe" => child.at = "exited")
    BY <1>1 DEF VerifyDone, WorkerDone
  <2> QED
    BY <2>1 DEF NoChild, DyingElf
<1>2. CASE SpawnPrepare \/ SpawnVerify
  BY <1>2 DEF SpawnPrepare, SpawnVerify, Spawn, Goto
<1>3. CASE ChildStepping
  <2>1. ctl' = ctl
    BY <1>3, ChildStays
  <2>2. child.at # "none" /\ ~(ctl \in {"observe", "release", "ready", "hold", "answer"})
    BY <1>3 DEF ChildStepping, ChildCreate, ChildWrite, ChildSync, ChildSpawn, ChildReap,
                ChildVerify, ChildVerified, ChildFail, ChildCrash, ChildAlive, BankFiles, Dirs
  <2>3. child'.at \in {"worker", "result", "exited"} => elf' = "none"
    <3> USE DEF TypeOK, WorkersType, BankFiles, Dirs
    <3>1. CASE ChildCreate \/ ChildWrite
      BY <3>1 DEF ChildCreate, ChildWrite
    <3>2. CASE ChildSync
      BY <3>2 DEF ChildSync, After
    <3>3. CASE ChildSpawn \/ ChildReap \/ ChildVerify \/ ChildVerified \/ ChildFail \/ ChildCrash
      BY <3>3 DEF ChildSpawn, ChildReap, ChildVerify, ChildVerified, ChildFail, ChildCrash
    <3> QED
      BY <1>3, <3>1, <3>2, <3>3 DEF ChildStepping
  <2> QED
    BY <2>1, <2>2, <2>3
<1>4. CASE ElfStep
  <2>1. elf # "none" /\ child' = child /\ ctl' = ctl
    BY <1>4 DEF ElfStep, ElfWrite, ElfExtracted, ElfVerified, ElfFail, server
  <2> QED
    BY <2>1
<1>5. CASE KernelStep
  BY <1>5 DEF KernelStep, ElfExit, ChildExit, NoChild, server
<1>6. CASE ~(SpawnPrepare \/ SpawnVerify \/ ChildStepping \/ ElfStep \/ KernelStep \/ VerifyDone)
  <2>1. \/ child' = child /\ elf' = elf
        \/ child'.at \in {"none", "dying"} /\ elf' \in {"none", "dying", "dyingOpen"} /\ Ending
    BY <1>6, EndingLeaves, WorkersCases DEF workers, Ending
  <2>2. Ending /\ ~VerifyDone => ctl' \in {"inspect", "reseal", "reapPrepare", "reapVerify", "down"}
    BY DEF Ending, PrepareDone, WorkerDone, CancelStep, CancelPrepare, CancelVerify, WorkerCancel,
           Kill, PowerLoss, Goto
  <2>3. ctl' \in {"observe", "release", "ready", "hold", "answer"} =>
          ctl \in {"observe", "release", "ready", "hold", "answer"}
    BY <1>6, ControlFlow
       DEF Elsewhere, CheckFresh, CreateAttempt, WriteAttempt, SyncAttempt, OpenBank, PrepareDone,
           WorkerDone, CancelVerify, WorkerCancel, Inspect, Seal, Freeze, Readonly, Observe, Release,
           SendFrozen, HoldObserve, HoldAnswer, Cleanup, NoteCreate, NoteWrite, Goto
  <2> QED
    BY <1>6, <2>1, <2>2, <2>3
<1> QED
  BY <1>1, <1>2, <1>3, <1>4, <1>5, <1>6

LEMMA ReleasedStep == InsideInv /\ [Next]_vars => (ctl' \in {"ready", "hold"} => ~held')
<1> SUFFICES ASSUME InsideInv, [Next]_vars, ctl' \in {"ready", "hold"} PROVE ~held'
  OBVIOUS
<1> USE DEF InsideInv
<1>1. CASE Release \/ HoldAnswer
  BY <1>1 DEF Release, HoldAnswer
<1>2. CASE (\E s \in Sessions : Accept(s)) \/ Select \/ HoldObserve
  BY <1>2 DEF Accept, Select, HoldObserve, Goto
<1>3. CASE UNCHANGED <<bank, held, cur>> /\ ~(Release \/ HoldAnswer)
  <2>1. ctl \in {"ready", "hold"}
    BY <1>3, ControlFlow
       DEF Elsewhere, CheckFresh, CreateAttempt, WriteAttempt, SyncAttempt, OpenBank, SpawnPrepare,
           SpawnVerify, Spawn, PrepareDone, VerifyDone, WorkerDone, CancelVerify, WorkerCancel,
           Inspect, Seal, Freeze, Readonly, Observe, SendFrozen, HoldObserve, Cleanup, NoteCreate,
           NoteWrite, Goto
  <2> QED
    BY <1>3, <2>1
<1> QED
  BY <1>1, <1>2, <1>3, HoldFlow

LEMMA InsideInvariant == Spec => [](TypeOK /\ BankInv /\ InsideInv)
<1>1. Init => InsideInv
  BY DEF Init, InsideInv, NoChild, ChildIsOurs, ChildAlive
<1>2. TypeOK /\ BankInv /\ InsideInv /\ [Next]_vars => InsideInv'
  BY OursStep, SettledStep, ReleasedStep DEF InsideInv
<1> QED
  BY <1>1, <1>2, BankInvariant, PTL DEF Spec

\* When the client may act on "frozen" no child, no worker and no copy of its
\* descriptors is left; and a child at work belongs to the session that holds the
\* bank, whatever was killed before.
THEOREM NobodyOutlives == Spec => []ChildrenStayInside
<1>1. InsideInv => ChildrenStayInside
  BY DEF InsideInv, ChildrenStayInside, ReadyReleasesDescriptors, ChildAlive, ElfAlive
<1> QED
  BY <1>1, InsideInvariant, PTL

LEMMA BankStep == TypeOK /\ BankInv /\ [Next]_vars => [Bank!Next]_(Bank!vars)
<1> SUFFICES ASSUME TypeOK, BankInv, [Next]_vars PROVE [Bank!Next]_(Bank!vars)
  OBVIOUS
<1> DEFINE Promised  == \E s \in Sessions : "frozen" \in replies[s]
           Promised1 == \E s \in Sessions : "frozen" \in replies'[s]
<1> USE DEF Bank!Next, Bank!Open, Bank!Extract, Bank!Seal, Bank!Promise, Bank!vars, Bank!Trees
<1>1. tree \in {"empty", "partial", "complete"} /\ tree' \in {"empty", "partial", "complete"}
  BY DiskTypeStep DEF TypeOK, DiskType
<1>2. CASE OpenBank
  <2>1. ro /\ opens = 0
    BY <1>2 DEF OpenBank, Goto, BankInv, BarrierInv
  <2>2. ro' = FALSE /\ tree' = tree /\ replies' = replies
    BY <1>2 DEF OpenBank, clients
  <2> QED
    BY <2>1, <2>2
<1>3. CASE SendFrozen
  <2>1. ro /\ opens = 1 /\ tree = "complete" /\ UNCHANGED <<ro, opens, tree>>
    BY <1>3 DEF SendFrozen, Goto, BankInv, BarrierInv, SessionInv, ResultInv,
                ExtractedMeansWhole, Readable, Extracted, Frozen, Opened, disk
  <2>2. Promised1
    <3>1. cur \in Sessions
      BY <1>3 DEF SendFrozen, Goto, TypeOK, ServesOne, ServerType, Serving, InTry
    <3> QED
      BY <1>3, <3>1 DEF SendFrozen, TypeOK, ClientsType
  <2> QED
    BY <2>1, <2>2
<1>4. CASE ~OpenBank /\ ~SendFrozen
  <2>1. Promised1 <=> Promised
    BY <1>4, PromiseFlow
  <2>2. opens' = opens /\ (ro' = ro \/ ro' = TRUE)
    BY <1>4, SuperblockFlow
  <2>3. ro => tree' = tree
    BY TreeFlow DEF ElfWrite, ElfExtracted, BankInv, WorkersInv
  <2>4. ~ro => opens # 0
    BY DEF BankInv, BarrierInv
  <2> QED
    BY <1>1, <2>1, <2>2, <2>3, <2>4
<1> QED
  BY <1>2, <1>3, <1>4

\* The refinement: every behaviour of the controller, its workers, its clients,
\* the hooks and the power supply is a behaviour of the one-shot bank.
THEOREM Refinement == Spec => ImplementsOneShotBank
<1>1. Init => Bank!Init
  BY DEF Init, Bank!Init
<1>2. TypeOK /\ BankInv /\ [Next]_vars => [Bank!Next]_(Bank!vars)
  BY BankStep
<1> QED
  BY <1>1, <1>2, BankInvariant, PTL DEF Spec, ImplementsOneShotBank, Bank!Spec
=============================================================================
