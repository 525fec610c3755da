--------------------------- MODULE TriggerRelease ---------------------------
(***************************************************************************)
(* The loop of observe_success in tools/debian_trigger_state.py, for any   *)
(* waits and pending work a valid state can hold: a queue of packages that *)
(* are free, a count of what each still waits for, and the origins the     *)
(* popped package releases, in any order.  TriggerState takes its result   *)
(* to be the least closed set of Triggers.                                 *)
(***************************************************************************)
EXTENDS Triggers

CONSTANTS Packages

PackageAssumption == IsFiniteSet(Packages)

VARIABLES
  receiver,  \* whose handler has succeeded
  pending,   \* what was activated while it ran
  incoming,  \* the waits before the loop
  awaited,   \* those that are left
  outgoing,  \* for how many packages each one still waits
  ready,     \* free packages, in the order they became free
  target,    \* the one that was popped last
  origins    \* those of its waiters the inner loop has not come to

input == <<receiver, pending, incoming>>
vars  == <<input, awaited, outgoing, ready, target, origins>>

\* A valid state, and the tables of lines 142 to 148.
Init ==
  /\ receiver \in Packages
  /\ pending \in {P \X {"name"} : P \in SUBSET Packages}
  /\ incoming \in {W \in SUBSET {w \in Packages \X Packages : w[1] # w[2]} :
                     \A w \in W : Outstanding(pending, W, {receiver}, w[2])}
  /\ awaited = incoming
  /\ outgoing = [p \in Packages |-> Cardinality(Targets(incoming, p))]
  /\ ready = IF ~Busy(pending, receiver) /\ outgoing[receiver] = 0 THEN <<receiver>> ELSE <<>>
  /\ target = receiver /\ origins = {}
-----------------------------------------------------------------------------
Pop ==
  /\ origins = {} /\ ready # <<>>
  /\ target' = Head(ready) /\ ready' = Tail(ready)
  /\ origins' = {w[1] : w \in {v \in incoming : v[2] = target'}}
  /\ UNCHANGED <<input, awaited, outgoing>>

Bug_FreesBusy(o) ==
  /\ o \in origins
  /\ origins' = origins \ {o}
  /\ awaited' = awaited \ {<<o, target>>}
  /\ outgoing' = [outgoing EXCEPT ![o] = @ - 1]
  /\ ready' = IF outgoing'[o] = 0 THEN Append(ready, o) ELSE ready
  /\ UNCHANGED <<input, target>>

\* One pass of the inner loop.
Release(o) ==
  /\ o \in origins
  /\ origins' = origins \ {o}
  /\ awaited' = awaited \ {<<o, target>>}
  /\ outgoing' = [outgoing EXCEPT ![o] = @ - 1]
  /\ ready' = IF outgoing'[o] = 0 /\ ~Busy(pending, o) THEN Append(ready, o) ELSE ready
  /\ UNCHANGED <<input, target>>

Next == Pop \/ \E o \in Packages : Release(o)

Spec == Init /\ [][Next]_vars
-----------------------------------------------------------------------------
\* When the loop ends, it has let go the least set of packages that its rules
\* allow, whatever the order of the inner loop: cycles keep their waits, and what
\* depends on nothing but finished work keeps none.  On the way each wait is taken
\* off once: awaited.remove never misses, and no count passes below what is left.
LetsGoTheLeast ==
  /\ origins = {} /\ ready = <<>> =>
       awaited = {w \in incoming : w[2] \notin LetGo(Packages, pending, incoming, receiver)}
  /\ \A o \in origins : <<o, target>> \in awaited
  /\ \A p \in Packages : outgoing[p] = Cardinality(Targets(awaited, p))
=============================================================================
