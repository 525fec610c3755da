------------------------------ MODULE Triggers ------------------------------
(***************************************************************************)
(* tools/debian_triggers.py and the relations of debian_trigger_state.py   *)
(* as operators: which triggers a package operation or a change of files   *)
(* activates, to which packages they are delivered, who then waits for     *)
(* whom, and which packages a finished handler sets free.                  *)
(*                                                                         *)
(* Abstractions.  A trigger name is a sequence: a file trigger is its path *)
(* from the root "", any other name is a single word.  A declaration is a  *)
(* record, and the declarations of a package a set with one awaiting mode  *)
(* per kind and name, which is what `parse' lets through.                  *)
(***************************************************************************)
EXTENDS Naturals, Sequences, FiniteSets

\* What `_declarations' accepts.
Consistent(declarations) ==
  \A d, e \in declarations : d.kind = e.kind /\ d.name = e.name => d = e

Activation(n, origin, mode) == [name |-> n, origin |-> origin, await |-> mode]

StateOperations        == {"unpack", "configure", "remove", "purge", "deconfigure", "disappear"}
NoActivationOperations == {"process-triggers", "finish-awaited"}

\* state_activations: unpacking activates what the old and the new version
\* declare; an awaiting declaration of either prevails.
StateActivations(origin, operation, before, after) ==
  LET declared == {d \in (IF operation = "unpack" THEN before \cup after ELSE before) : d.kind = "activate"}
      Awaits(n) == \E d \in declared : d.name = n /\ d.await
  IN  IF operation \in NoActivationOperations THEN {}
      ELSE {Activation(d.name, origin, Awaits(d.name)) : d \in declared}

\* The interests in the declarations of all packages.
Interests(packages) ==
  UNION {{[package |-> p, name |-> d.name, await |-> d.await] : d \in {e \in packages[p] : e.kind = "interest"}} :
           p \in DOMAIN packages}

\* file_activations: a changed file activates the interests in the root, in its
\* directories and in itself.
FileActivations(origin, paths, packages) ==
  LET Covers(n, path) == n[1] = "" /\ Len(n) <= Len(path) /\ SubSeq(path, 1, Len(n)) = n
  IN  {Activation(i.name, origin, TRUE) : i \in {j \in Interests(packages) : \E f \in paths : Covers(j.name, f)}}

\* route, with the modes of several activations of a name by an origin joined.
Route(activations, packages) ==
  LET met == {ai \in activations \X Interests(packages) : ai[1].name = ai[2].name}
      Waits(ai) == ai[1].await /\ ai[2].await /\ ai[2].package # ai[1].origin
      Same(ai, bj) == /\ ai[2].package = bj[2].package
                      /\ ai[1].name = bj[1].name /\ ai[1].origin = bj[1].origin
  IN  {[receiver |-> ai[2].package, name |-> ai[1].name, origin |-> ai[1].origin,
        await |-> \E bj \in met : Same(ai, bj) /\ Waits(bj)] : ai \in met}

\* pending: who has what to do, and who waits for whom.
PendingIn(deliveries) == {<<d.receiver, d.name>> : d \in deliveries}
AwaitedIn(deliveries) == {<<d.origin, d.receiver>> : d \in {e \in deliveries : e.await}}
-----------------------------------------------------------------------------
\* The relations of a state: `pending' of packages and names, `awaited' of
\* packages and the packages they wait for.
Busy(pending, p)    == \E w \in pending : w[1] = p
Targets(awaited, p) == {w[2] : w \in {v \in awaited : v[1] = p}}

\* S is closed under what the loop of observe_success does: the receiver is let
\* go if it is free, and a package when all it waits for has been let go.
Closed(S, pending, awaited, receiver) ==
  /\ ~Busy(pending, receiver) /\ Targets(awaited, receiver) = {} => receiver \in S
  /\ \A w \in awaited : ~Busy(pending, w[1]) /\ Targets(awaited, w[1]) \subseteq S => w[1] \in S

\* The packages the loop lets go: the least closed set.
LetGo(packages, pending, awaited, receiver) ==
  {p \in packages : \A S \in SUBSET packages : Closed(S, pending, awaited, receiver) => p \in S}

\* A package with work that nobody has finished, or that waits for one.
Outstanding(pending, awaited, running, p) ==
  Busy(pending, p) \/ Targets(awaited, p) # {} \/ p \in running
=============================================================================
