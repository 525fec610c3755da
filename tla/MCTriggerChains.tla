-------------------------- MODULE MCTriggerChains --------------------------
(***************************************************************************)
(* An instance for TLC of TriggerState, with every pattern of waits among  *)
(* three packages by one file trigger; and one of TriggerRelease, the loop *)
(* that ends the waits, on every valid state of four.  `scenario' says     *)
(* which a behaviour is about: the tables stay empty in the second, and    *)
(* the loop is Unused in the first.                                        *)
(***************************************************************************)
EXTENDS TriggerState, TLC

CONSTANTS p1, p2, p3, p4,
          LoopPackages           \* the packages of TriggerRelease

VARIABLES
  scenario,
  receiver, busy, incoming, left, outgoing, ready, target, origins   \* of TriggerRelease

loop == <<receiver, busy, incoming, left, outgoing, ready, target, origins>>

Three   == {p1, p2, p3}
Four    == {p1, p2, p3, p4}
File    == <<"", "usr">>
OneName == {{}, {[kind |-> "interest", name |-> File, await |-> TRUE]}}
MCPaths == {<<"", "usr", "lib">>, <<"", "etc">>}

Loop == INSTANCE TriggerRelease WITH Packages <- LoopPackages, pending <- busy, awaited <- left

ASSUME LoopAssumption == Loop!PackageAssumption

Unused == "unused"
NoLoop == /\ receiver = Unused /\ busy = Unused /\ incoming = Unused /\ left = Unused
          /\ outgoing = Unused /\ ready = Unused /\ target = Unused /\ origins = Unused

MCInit ==
  /\ Init
  /\ \/ scenario = "chains" /\ NoLoop
     \/ scenario = "loop" /\ declared = [p \in Packages |-> {}] /\ Loop!Init

MCNext ==
  /\ UNCHANGED scenario
  /\ \/ scenario = "chains" /\ Next /\ UNCHANGED loop
     \/ scenario = "loop" /\ Loop!Next /\ UNCHANGED vars

MCSpec == MCInit /\ [][MCNext]_<<scenario, vars, loop>>

Symmetry == Permutations({p1, p2, p3, p4})
-----------------------------------------------------------------------------
\* debian_trigger_state.py:151: the loop lets go the least set, in whatever order it
\* comes to the waiters; TriggerState takes its result (stated in TriggerRelease).
LetsGoTheLeast == scenario = "loop" => Loop!LetsGoTheLeast
=============================================================================
