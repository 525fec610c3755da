---------------------------- MODULE TriggerState ----------------------------
(***************************************************************************)
(* tools/debian_trigger_state.py: the pending, running and awaited trigger *)
(* work of one transaction, in revisions; the packages' operations and     *)
(* file changes that activate triggers; and the handler of the batch that  *)
(* is running, whose report may come late, more than once, or never.       *)
(*                                                                         *)
(* Abstractions.  A checkpoint is the state it encodes, and an attempt's   *)
(* digest is the batch it binds.  A call that raises changes nothing.  A   *)
(* restart decodes the state as it was, and forgets no report.             *)
(***************************************************************************)
EXTENDS Triggers

CONSTANTS Packages, Declarations,  \* the sets of declarations a package may have
          Paths,                   \* files that may change
          Nobody,
          MaxEvents, MaxRoutes, MaxRevision

ASSUME DeclarationAssumption ==
  \A D \in Declarations : Consistent(D) /\ \A d \in D : d.name \in Seq(STRING) /\ d.name # <<>> /\ d.await \in BOOLEAN
ASSUME NobodyAssumption == Nobody \notin Packages
ASSUME BoundAssumption  == MaxEvents \in Nat /\ MaxRoutes \in Nat /\ MaxRevision \in Nat

VARIABLES
  revision, pending, awaited,
  running,    \* the batch that is running: its receiver, names and revision
  declared,   \* the declarations of each package
  reports,    \* attempts whose handler has succeeded, as reported
  owed        \* history: activations no successful handler has served

state == <<revision, pending, awaited, running>>
vars  == <<state, declared, reports, owed>>

Names == {d.name : d \in UNION Declarations}
Idle  == [receiver |-> Nobody, names |-> {}, started |-> 0]

Init ==
  /\ revision = 0 /\ pending = {} /\ awaited = {} /\ running = Idle
  /\ declared \in [Packages -> Declarations]
  /\ reports = {} /\ owed = {}
-----------------------------------------------------------------------------
\* What is owed for what has been asked for, declaration by declaration: a run of
\* each interested package, which the activating one waits for if both sides want
\* it to.  `early': from before the start of the batch.
Owing(asked) ==
  {[receiver |-> ai[2].package, name |-> ai[1].name, early |-> FALSE,
    waiter |-> IF ai[1].await /\ ai[2].await /\ ai[1].origin # ai[2].package THEN ai[1].origin ELSE Nobody] :
     ai \in {bj \in asked \X Interests(declared) : bj[1].name = bj[2].name}}

Bug_DropsRunningNames(activations, asked) ==
  LET deliveries == Route(activations, declared)
      more  == pending \cup {w \in PendingIn(deliveries) : w[1] # running.receiver \/ w[2] \notin running.names}
      waits == awaited \cup AwaitedIn(deliveries)
  IN  /\ revision < MaxRevision
      /\ Cardinality(more) <= MaxEvents /\ Cardinality(waits) <= MaxRoutes
      /\ pending' = more /\ awaited' = waits
      /\ revision' = IF more = pending /\ waits = awaited THEN revision ELSE revision + 1
      /\ owed' = owed \cup Owing(asked)
      /\ UNCHANGED <<running, reports>>

\* activate, with what route and pending make of the activations.
Activate(activations, asked) ==
  LET deliveries == Route(activations, declared)
      more  == pending \cup PendingIn(deliveries)
      waits == awaited \cup AwaitedIn(deliveries)
  IN  /\ revision < MaxRevision
      /\ Cardinality(more) <= MaxEvents /\ Cardinality(waits) <= MaxRoutes
      /\ pending' = more /\ awaited' = waits
      /\ revision' = IF more = pending /\ waits = awaited THEN revision ELSE revision + 1
      /\ owed' = owed \cup Owing(asked)
      /\ UNCHANGED <<running, reports>>

\* An operation on a package; unpacking also puts its new declarations in effect.
Operate(p) ==
  \E operation \in StateOperations \cup NoActivationOperations, after \in Declarations :
    /\ operation # "unpack" => after = {}
    /\ Activate(StateActivations(p, operation, declared[p], after),
                {Activation(d.name, p, d.await) : d \in {e \in declared[p] \cup after :
                   e.kind = "activate" /\ operation \in StateOperations}})
    /\ declared' = IF operation = "unpack" THEN [declared EXCEPT ![p] = after] ELSE declared

\* Files of a package change.
ChangeFile(p) ==
  /\ \E f \in Paths : LET files == FileActivations(p, {f}, declared) IN Activate(files, files)
  /\ UNCHANGED declared

\* start: everything the receiver has to do becomes the running batch.
Start(p) ==
  /\ revision < MaxRevision
  /\ running = Idle
  /\ Busy(pending, p)
  /\ revision' = revision + 1
  /\ running' = [receiver |-> p, names |-> {w[2] : w \in {v \in pending : v[1] = p}}, started |-> revision']
  /\ pending' = {w \in pending : w[1] # p}
  /\ owed' = {[o EXCEPT !.early = TRUE] : o \in owed}
  /\ UNCHANGED <<awaited, declared, reports>>

\* The handler of the batch succeeds: it has served what was activated before it
\* began.
Handle ==
  /\ running # Idle /\ running \notin reports
  /\ reports' = reports \cup {running}
  /\ owed' = {o \in owed : ~(o.early /\ o.receiver = running.receiver /\ o.name \in running.names)}
  /\ UNCHANGED <<state, declared>>

Bug_AttemptWithoutRevision(a) ==
  /\ revision < MaxRevision
  /\ running # Idle /\ a.receiver = running.receiver /\ a.names = running.names
  /\ LET free == LetGo(Packages, pending, awaited, running.receiver) IN
     awaited' = {w \in awaited : w[2] \notin free}
  /\ revision' = revision + 1 /\ running' = Idle
  /\ UNCHANGED <<pending, declared, reports, owed>>

Bug_NotBusyChecked(a) ==
  /\ revision < MaxRevision
  /\ running # Idle /\ a = running
  /\ LET free == LetGo(Packages, {}, awaited, running.receiver) IN
     awaited' = {w \in awaited : w[2] \notin free}
  /\ revision' = revision + 1 /\ running' = Idle
  /\ UNCHANGED <<pending, declared, reports, owed>>

\* observe_success, for a report of attempt a.  TriggerRelease is its loop.
ObserveSuccess(a) ==
  /\ revision < MaxRevision
  /\ running # Idle /\ a = running
  /\ LET free == LetGo(Packages, pending, awaited, running.receiver) IN
     awaited' = {w \in awaited : w[2] \notin free}
  /\ revision' = revision + 1 /\ running' = Idle
  /\ UNCHANGED <<pending, declared, reports, owed>>

Next ==
  \/ \E p \in Packages : Operate(p) \/ ChangeFile(p) \/ Start(p)
  \/ Handle
  \/ \E a \in reports : ObserveSuccess(a)

Spec == Init /\ [][Next]_vars
-----------------------------------------------------------------------------
Batches == [receiver : Packages, names : SUBSET Names, started : 1 .. MaxRevision]

\* Every variable stays in its range, and a state that is not the first one is
\* empty only by work done.
TypeOK ==
  /\ revision \in 0 .. MaxRevision
  /\ pending \subseteq Packages \X Names
  /\ awaited \subseteq {w \in Packages \X Packages : w[1] # w[2]}
  /\ running \in Batches \cup {Idle}
  /\ running # Idle => running.started <= revision /\ running.names # {}
  /\ revision = 0 => pending = {} /\ awaited = {} /\ running = Idle
  /\ declared \in [Packages -> Declarations]
  /\ reports \subseteq Batches
  /\ \A a \in reports : a.started <= revision
  /\ owed \subseteq [receiver : Packages, name : Names, early : BOOLEAN, waiter : Packages \cup {Nobody}]

\* A package that is waited for has work of its own or waits itself: no call ever
\* makes a state that State.__post_init__ refuses.
AwaitedIsOutstanding ==
  \A w \in awaited : Outstanding(pending, awaited, {running.receiver}, w[2])

\* No activation is lost, also when the same name is activated again while its
\* handler runs: until a handler that began later succeeds, the name is pending,
\* or in the batch that is running.
NoActivationLost ==
  \A o \in owed : \/ <<o.receiver, o.name>> \in pending
                  \/ o.early /\ o.receiver = running.receiver /\ o.name \in running.names

\* A package that asked to wait waits until its activation has been served,
\* whatever other activations of the same name, of either mode, come in between.
WaitersWait ==
  \A o \in owed : o.waiter # Nobody => <<o.waiter, o.receiver>> \in awaited

\* Neither the work of an activation nor the wait that it asked for is lost,
\* whatever is activated, changed or reported before it is served.
ActivationsAreKept == NoActivationLost /\ WaitersWait

\* A wait ends only when the package waited for has nothing left to do and waits
\* for nobody, and by the same step that ends the running batch.
WaitEndsWhenFree ==
  [][\A w \in awaited \ awaited' :
       /\ running # Idle /\ running' = Idle
       /\ ~Outstanding(pending', awaited', {}, w[2])]_vars

\* A report, however late or often it comes, ends the batch it is about, at most
\* once: a batch never begins as an attempt that has been reported already, also
\* when it is of the same receiver and of the same names.
ReportEndsItsBatch ==
  [][/\ running # Idle /\ running' # running => running \in reports /\ running' = Idle
     /\ running' # Idle /\ running' # running => running' \notin reports]_vars
=============================================================================
