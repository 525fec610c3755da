---------------------------- MODULE MCInstallers ----------------------------
(***************************************************************************)
(* An instance for TLC of the three programs that may run once on a        *)
(* machine: the two installers and the provisioning of the archive         *)
(* observer.  They have no file in common, so each is run by itself:       *)
(* `program' is the one a behaviour is about, and the variables of the     *)
(* others are Unused.                                                      *)
(***************************************************************************)
EXTENDS ObserverBootstrap, TLC

CONSTANTS t1, t2, t3,      \* the times each is started
          NoInstaller,
          same, other      \* configurations of the archive observer

VARIABLES
  program,                      \* and fs, task, step, losses of each
  verified, seen,               \* of SupplyInitialize
  child, mounted, ro, store     \* of StorageBootstrap

supply  == <<verified, seen>>
storage == <<child, mounted, ro, store>>

Starts           == {t1, t2, t3}
MCConfigurations == {same, other}

Supply  == INSTANCE SupplyInitialize WITH Installers <- Attempts
Storage == INSTANCE StorageBootstrap WITH Installers <- Attempts

ASSUME OtherAssumptions == Supply!LossAssumption /\ Storage!LossAssumption /\ Storage!NobodyAssumption

Unused    == "unused"
NoSupply  == verified = Unused /\ seen = Unused
NoStorage == child = Unused /\ mounted = Unused /\ ro = Unused /\ store = Unused

MCInit ==
  \/ program = "observer" /\ Init /\ NoSupply /\ NoStorage
  \/ program = "supply" /\ Supply!Init /\ config = Unused /\ NoStorage
  \/ program = "storage" /\ Storage!Init /\ config = Unused /\ NoSupply

MCNext ==
  /\ UNCHANGED program
  /\ \/ program = "observer" /\ Next /\ UNCHANGED <<supply, storage>>
     \/ program = "supply" /\ Supply!Next /\ UNCHANGED <<config, storage>>
     \/ program = "storage" /\ Storage!Next /\ UNCHANGED <<config, supply>>

MCSpec == MCInit /\ [][MCNext]_<<program, vars, supply, storage>>

Symmetry == Permutations(Starts) \cup Permutations(MCConfigurations)
-----------------------------------------------------------------------------
\* What each module says of its own program; it is explained there.

\* supply_initialize.py: readers only ever accept one and the same verified pair.
ReaderSeesOnePair   == program = "supply" => Supply!ReaderSeesOnePair

\* No power loss forgets the attempt and keeps an effect, the policy and keeps the floor, or
\* takes away a completion record or a verified file.
PairIsLasting       == program = "supply" => Supply!PairIsLasting

\* storage_bootstrap.py: what check_bank lets through is whole and not writable.
CheckedIsWhole      == program = "storage" => Storage!CheckedIsWhole

\* Neither the intent of an attempt nor a reported success is forgotten.
NothingIsForgotten  == program = "storage" => Storage!NothingIsForgotten

\* archive_observer.py's provision: history and cache agree after every interruption.
ObserverIsLasting   == program = "observer" => BootstrapIsLasting
-----------------------------------------------------------------------------
\* The abstract program that each of the three implements.  An attempt has begun when its mark
\* is there by name: the intent, or the attempt record of supply_initialize.py.
Begun    == {p \in Attempts : \E e \in fs.now : e.name \in {"intent", "attempt"} /\ e.file[2] = p}
Reported == {p \in Attempts : task[p] = "done"}

\* What those who come later accept: the observer's history, the pair in place, the bank.
Accepted ==
  CASE program = "observer" -> History(fs)
    [] program = "supply"   -> /\ Supply!Accepted(fs, "supply", "policy") # {}
                               /\ Supply!Accepted(fs, "trust", "floor") # {}
    [] program = "storage"  -> Storage!Passes(fs)

Once == INSTANCE RunsOnce WITH begun <- Begun, accepted <- Accepted, reported <- Reported

\* However they are interleaved, fail and lose power: an attempt begins only when no other stands, nobody
\* accepts what no attempt has made, what is accepted stays so but for a power loss, and from a
\* reported success on nothing of it is undone.
ImplementsRunsOnce == Once!Spec
=============================================================================
