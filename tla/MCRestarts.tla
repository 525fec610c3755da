----------------------------- MODULE MCRestarts -----------------------------
(***************************************************************************)
(* Instances for TLC of programs that are stopped and started again: the   *)
(* package command service, its client's side of an adopted command, and   *)
(* the collectors of sources.  They have nothing in common, so each is run *)
(* by itself: `program' is the one a behaviour is about; the service and   *)
(* the collection of the others never begin, and their command is Unused.  *)
(***************************************************************************)
EXTENDS ManagementService

CONSTANTS a, b, c, alice, bob,
          MaxConnected,                        \* of the connections, how many are made
          WaitTime, OfferTime, Lines,          \* of ManagementClient
          Jobs, Kind, MaxInterruptions, MaxLosses \* of SourceCollection

VARIABLES
  program,
  action, offered, confirmed, status, typed, shown, lines, said,          \* of ManagementClient ...
  inbox, request, reply, phase, left, effects, told, asked, clock, place, \* ... report, sent, timer, at
  job, store, at, report, disk, file, position, memory, interruptions, losses \* of SourceCollection

command    == <<action, offered, confirmed, status, typed, shown, lines, said,
                inbox, request, reply, phase, left, effects, told, asked, clock, place>>
collection == <<job, store, at, report, disk, file, position, memory, interruptions, losses>>

Owners == [x \in Connections |-> IF x = c THEN bob ELSE alice]

Command == INSTANCE ManagementClient WITH report <- told, sent <- asked, timer <- clock, at <- place

\* A collection of every kind of source, one whose sources can all be fetched again,
\* and a completion over a base collection.
Collected == [tool |-> "collect", items |-> <<"udeb", "apt", "niaos", "old">>]
Ordinary  == [tool |-> "collect", items |-> <<"apt", "niaos", "next">>]
Completed == [tool |-> "complete", items |-> <<"linux", "apt", "old">>]
Origins   == [p \in {"udeb", "apt", "niaos", "old", "next", "linux"} |->
  CASE p = "udeb" -> "binary" [] p = "niaos" -> "native" [] p = "old" -> "historical" [] p = "linux" -> "base"
    [] OTHER -> "apt"]

Wishes == {Collected, Ordinary, Completed}

Collection == INSTANCE SourceCollection WITH output <- store

ASSUME OtherAssumptions == Command!ConstantAssumption /\ Collection!CollectionAssumption

Unused    == "unused"
NoCommand == /\ action = Unused /\ offered = Unused /\ confirmed = Unused /\ status = Unused /\ typed = Unused
             /\ shown = Unused /\ lines = Unused /\ said = Unused /\ inbox = Unused /\ request = Unused
             /\ reply = Unused /\ phase = Unused /\ left = Unused /\ effects = Unused /\ told = Unused
             /\ asked = Unused /\ clock = Unused /\ place = Unused

AnyJob == CHOOSE j \in Jobs : TRUE

MCInit ==
  /\ Init /\ Collection!Init
  /\ \/ program = "service" /\ job = AnyJob /\ NoCommand
     \/ program = "command" /\ job = AnyJob /\ Command!Init
     \/ program = "collection" /\ NoCommand

Connected == {x \in Connections : link[x] # "none"}

MCNext ==
  /\ UNCHANGED program
  /\ \/ program = "service" /\ Next /\ Cardinality(Connected') <= MaxConnected /\ UNCHANGED <<command, collection>>
     \/ program = "command" /\ Command!Next /\ UNCHANGED <<vars, collection>>
     \/ program = "collection" /\ Collection!Next /\ UNCHANGED <<vars, command>>

\* The fairness of FairSpec and of SourceCollection's Spec.
MCFairness == /\ WF_vars(Serve) /\ WF_vars(Tick)
              /\ WF_collection(program = "collection" /\ Collection!Run)
MCSpec == MCInit /\ [][MCNext]_<<program, vars, command, collection>> /\ MCFairness
-----------------------------------------------------------------------------
\* What the other modules say of their programs; it is explained there.

\* management_client.py: what the user is told stays true.
ReportIsTrue == program = "command" => Command!ReportIsTrue

\* management_client.py with PlanConsent: a plan is committed only behind a yes that was
\* typed after older lines were dropped, in the offer's time, for a client still there.
\* (The effects of the other programs are Unused and never change.)
CommittedMeansYes == Command!CommittedMeansYes

\* collect-sources.py: a run that passes has seen every file whole.
PassMeansChecked == program = "collection" => Collection!PassMeansChecked

\* No saved row of the collector's report is lost.
RowsAreKept == Collection!RowsAreKept

\* A recorded build is collected in the end, but for what SourceCollection names.
ResumeFinishes == Collection!ResumeFinishes
=============================================================================
