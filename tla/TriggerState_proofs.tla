------------------------ MODULE TriggerState_proofs ------------------------
(***************************************************************************)
(* Proofs about TriggerState: its invariants for any packages,             *)
(* declarations and bounds.                                                *)
(***************************************************************************)
EXTENDS MCTriggerChains, FiniteSetTheorems, TLAPS

(***************************************************************************)
(* The packages that are let go: the least closed set is closed, and in it *)
(* nobody is busy or waits for a package outside it.                       *)
(***************************************************************************)
LEMMA LetGoSmallest ==
  ASSUME NEW Q, NEW pend, NEW wait, NEW r, NEW S \in SUBSET Q, Closed(S, pend, wait, r)
  PROVE  LetGo(Q, pend, wait, r) \subseteq S
BY DEF LetGo

LEMMA LetGoClosed ==
  ASSUME NEW Q, NEW pend, NEW wait \in SUBSET (Q \X Q), NEW r \in Q
  PROVE  Closed(LetGo(Q, pend, wait, r), pend, wait, r)
<1> DEFINE L == LetGo(Q, pend, wait, r)
<1>1. ~Busy(pend, r) /\ Targets(wait, r) = {} => r \in L
  BY DEF LetGo, Closed
<1>2. ASSUME NEW w \in wait, ~Busy(pend, w[1]), Targets(wait, w[1]) \subseteq L
      PROVE  w[1] \in L
  <2>1. w[1] \in Q
    OBVIOUS
  <2>2. ASSUME NEW S \in SUBSET Q, Closed(S, pend, wait, r)
        PROVE  w[1] \in S
    <3>1. L \subseteq S
      BY <2>2, LetGoSmallest
    <3>2. Targets(wait, w[1]) \subseteq S
      BY <1>2, <3>1
    <3> QED
      BY <2>2, <3>2, <1>2 DEF Closed
  <2> QED
    BY <2>1, <2>2 DEF LetGo
<1> QED
  BY <1>1, <1>2 DEF Closed

LEMMA LetGoIsFree ==
  ASSUME NEW Q, NEW pend, NEW wait \in SUBSET (Q \X Q), NEW r \in Q,
         NEW p \in LetGo(Q, pend, wait, r)
  PROVE  ~Busy(pend, p) /\ Targets(wait, p) \subseteq LetGo(Q, pend, wait, r)
<1> DEFINE L == LetGo(Q, pend, wait, r)
           S == {q \in L : ~Busy(pend, q) /\ Targets(wait, q) \subseteq L}
<1>1. S \in SUBSET Q
  BY DEF LetGo
<1>2. Closed(L, pend, wait, r)
  BY LetGoClosed
<1>3. Closed(S, pend, wait, r)
  <2>1. ~Busy(pend, r) /\ Targets(wait, r) = {} => r \in S
    BY <1>2 DEF Closed
  <2>2. ASSUME NEW w \in wait, ~Busy(pend, w[1]), Targets(wait, w[1]) \subseteq S
        PROVE  w[1] \in S
    <3>1. Targets(wait, w[1]) \subseteq L
      BY <2>2
    <3>2. w[1] \in L
      BY <1>2, <2>2, <3>1 DEF Closed
    <3> QED
      BY <2>2, <3>1, <3>2
  <2> QED
    BY <2>1, <2>2 DEF Closed
<1>4. L \subseteq S
  BY <1>1, <1>3, LetGoSmallest
<1> QED
  BY <1>4

(***************************************************************************)
(* Routing: interests have a package, a name and a mode, and every         *)
(* activation reaches every interest in its name.                          *)
(***************************************************************************)
LEMMA InterestsType ==
  ASSUME declared \in [Packages -> Declarations], NEW i \in Interests(declared)
  PROVE  i.package \in Packages /\ i.name \in Names /\ i.await \in BOOLEAN
<1>1. PICK p \in Packages : \E d \in declared[p] : i = [package |-> p, name |-> d.name, await |-> d.await]
  BY DEF Interests
<1>2. PICK d \in declared[p] : i = [package |-> p, name |-> d.name, await |-> d.await]
  BY <1>1
<1>3. declared[p] \in Declarations
  OBVIOUS
<1>4. d.name \in Names /\ d.await \in BOOLEAN
  BY <1>3, DeclarationAssumption DEF Names
<1> QED
  BY <1>2, <1>4

LEMMA RouteDelivers ==
  ASSUME NEW A, NEW packages, NEW a \in A, NEW i \in Interests(packages), a.name = i.name
  PROVE  \E d \in Route(A, packages) :
           /\ d.receiver = i.package /\ d.name = i.name /\ d.origin = a.origin
           /\ a.await /\ i.await /\ i.package # a.origin => d.await
<1> DEFINE ai == <<a, i>>
           met == {bj \in A \X Interests(packages) : bj[1].name = bj[2].name}
           waits == \E bj \in met : /\ ai[2].package = bj[2].package /\ ai[1].name = bj[1].name
                                    /\ ai[1].origin = bj[1].origin
                                    /\ bj[1].await /\ bj[2].await /\ bj[2].package # bj[1].origin
           d == [receiver |-> ai[2].package, name |-> ai[1].name, origin |-> ai[1].origin, await |-> waits]
<1>1. ai \in met
  OBVIOUS
<1>2. d \in Route(A, packages)
  BY <1>1 DEF Route
<1>3. a.await /\ i.await /\ i.package # a.origin => waits
  BY <1>1
<1> QED
  BY <1>2, <1>3

LEMMA RouteType ==
  ASSUME NEW A, declared \in [Packages -> Declarations],
         \A a \in A : a.origin \in Packages
  PROVE  /\ PendingIn(Route(A, declared)) \subseteq Packages \X Names
         /\ AwaitedIn(Route(A, declared)) \subseteq {w \in Packages \X Packages : w[1] # w[2]}
         /\ \A w \in AwaitedIn(Route(A, declared)) : Busy(PendingIn(Route(A, declared)), w[2])
<1> DEFINE R == Route(A, declared)
<1>1. ASSUME NEW d \in R
      PROVE  /\ d.receiver \in Packages /\ d.name \in Names /\ d.origin \in Packages
             /\ d.await => d.origin # d.receiver
  <2> DEFINE met == {bj \in A \X Interests(declared) : bj[1].name = bj[2].name}
             waits(ai) == \E bj \in met : /\ ai[2].package = bj[2].package /\ ai[1].name = bj[1].name
                                    /\ ai[1].origin = bj[1].origin
                                    /\ bj[1].await /\ bj[2].await /\ bj[2].package # bj[1].origin
  <2>1. PICK ai \in met : d = [receiver |-> ai[2].package, name |-> ai[1].name, origin |-> ai[1].origin, await |-> waits(ai)]
    BY <1>1 DEF Route
  <2>2. ai[1] \in A /\ ai[2] \in Interests(declared) /\ ai[1].name = ai[2].name
    OBVIOUS
  <2>3. ai[2].package \in Packages /\ ai[2].name \in Names
    BY <2>2, InterestsType
  <2>4. waits(ai) => ai[1].origin # ai[2].package
    OBVIOUS
  <2> QED
    BY <2>1, <2>2, <2>3, <2>4
<1>2. ASSUME NEW d \in R
      PROVE  Busy(PendingIn(R), d.receiver)
  <2> DEFINE w == <<d.receiver, d.name>>
  <2>1. w \in PendingIn(R) /\ w[1] = d.receiver
    BY DEF PendingIn
  <2> QED
    BY <2>1 DEF Busy
<1>3. ASSUME NEW w \in AwaitedIn(R)
      PROVE  \E d \in R : w = <<d.origin, d.receiver>> /\ d.await
  BY DEF AwaitedIn
<1> HIDE DEF R
<1>4. PendingIn(R) \subseteq Packages \X Names
  BY <1>1 DEF PendingIn
<1>5. AwaitedIn(R) \subseteq {w \in Packages \X Packages : w[1] # w[2]}
  BY <1>1, <1>3
<1>6. \A w \in AwaitedIn(R) : Busy(PendingIn(R), w[2])
  BY <1>2, <1>3
<1> QED
  BY <1>4, <1>5, <1>6 DEF R

\* What is asked is among the activations, and awaits there too.
Covered(A, asked) ==
  /\ \A a \in A : a.origin \in Packages
  /\ \A b \in asked : \E a \in A : a.name = b.name /\ a.origin = b.origin /\ (b.await => a.await)

LEMMA OperationCovered ==
  ASSUME NEW p \in Packages, NEW operation, NEW before, NEW after,
         operation \in StateOperations \cup NoActivationOperations,
         operation # "unpack" => after = {}
  PROVE  Covered(StateActivations(p, operation, before, after),
                 {Activation(d.name, p, d.await) : d \in {e \in before \cup after :
                    e.kind = "activate" /\ operation \in StateOperations}})
<1>1. operation \in StateOperations => operation \notin NoActivationOperations
  BY DEF StateOperations, NoActivationOperations
<1>2. CASE operation \in NoActivationOperations
  <2>1. operation \notin StateOperations
    BY <1>1, <1>2
  <2> QED
    BY <1>2, <2>1 DEF Covered, StateActivations
<1>3. CASE operation \notin NoActivationOperations
  <2> DEFINE D == {d \in (IF operation = "unpack" THEN before \cup after ELSE before) : d.kind = "activate"}
             W(n) == \E d \in D : d.name = n /\ d.await
  <2>1. StateActivations(p, operation, before, after) = {Activation(d.name, p, W(d.name)) : d \in D}
    BY <1>3 DEF StateActivations
  <2>2. D = {e \in before \cup after : e.kind = "activate"}
    OBVIOUS
  <2>3. \A d \in D : d.await => W(d.name)
    OBVIOUS
  <2> HIDE DEF D, W
  <2> DEFINE act(d) == Activation(d.name, p, W(d.name))
  <2>4. \A d : act(d).name = d.name /\ act(d).origin = p /\ act(d).await = W(d.name)
    BY DEF Activation
  <2>5. \A d \in D : act(d) \in StateActivations(p, operation, before, after)
    BY <2>1
  <2>6. \A a \in StateActivations(p, operation, before, after) : a.origin \in Packages
    BY <2>1, <2>4
  <2>7. ASSUME NEW b \in {Activation(d.name, p, d.await) : d \in {e \in before \cup after :
                             e.kind = "activate" /\ operation \in StateOperations}}
        PROVE  \E a \in StateActivations(p, operation, before, after) :
                 a.name = b.name /\ a.origin = b.origin /\ (b.await => a.await)
    <3>1. PICK d \in D : b = Activation(d.name, p, d.await)
      BY <2>2
    <3>2. b.name = d.name /\ b.origin = p /\ b.await = d.await
      BY <3>1 DEF Activation
    <3> QED
      BY <2>3, <2>4, <2>5, <3>2
  <2> QED
    BY <2>6, <2>7 DEF Covered
<1> QED
  BY <1>2, <1>3

LEMMA FileCovered ==
  ASSUME NEW p \in Packages, NEW paths
  PROVE  Covered(FileActivations(p, paths, declared), FileActivations(p, paths, declared))
<1>1. ASSUME NEW a \in FileActivations(p, paths, declared)
      PROVE  a.origin = p
  <2>1. PICK i \in Interests(declared) : a = Activation(i.name, p, TRUE)
    BY DEF FileActivations
  <2> QED
    BY <2>1 DEF Activation
<1> QED
  BY <1>1 DEF Covered

(***************************************************************************)
(* The inductive invariant.  A report that is in stands for work that was  *)
(* done: without this, ending a batch could end work that is owed.         *)
(***************************************************************************)
ReportedIsServed ==
  running \in reports =>
    \A o \in owed : ~(o.early /\ o.receiver = running.receiver /\ o.name \in running.names)

Invariant == /\ TypeOK /\ ReportedIsServed
             /\ AwaitedIsOutstanding /\ NoActivationLost /\ WaitersWait

LEMMA IdleIsNoBatch ==
  Idle \notin Batches
BY NobodyAssumption DEF Idle, Batches

LEMMA InvariantInit ==
  ASSUME Init
  PROVE  Invariant
<1>1. TypeOK
  BY BoundAssumption DEF Init, TypeOK
<1>2. ReportedIsServed /\ AwaitedIsOutstanding /\ NoActivationLost /\ WaitersWait
  BY DEF Init, ReportedIsServed, AwaitedIsOutstanding, NoActivationLost, WaitersWait
<1> QED
  BY <1>1, <1>2 DEF Invariant

\* What is owed for something asked for is pending afterwards, and awaited.
LEMMA OwingDelivered ==
  ASSUME TypeOK, NEW A, NEW asked, Covered(A, asked), NEW o \in Owing(asked)
  PROVE  /\ o \in [receiver : Packages, name : Names, early : BOOLEAN, waiter : Packages \cup {Nobody}]
         /\ <<o.receiver, o.name>> \in PendingIn(Route(A, declared))
         /\ o.waiter # Nobody => <<o.waiter, o.receiver>> \in AwaitedIn(Route(A, declared))
<1> DEFINE R == Route(A, declared)
<1>1. PICK b \in asked, i \in Interests(declared) :
        /\ b.name = i.name
        /\ o = [receiver |-> i.package, name |-> b.name, early |-> FALSE,
                waiter |-> IF b.await /\ i.await /\ b.origin # i.package THEN b.origin ELSE Nobody]
  <2>1. PICK bi \in asked \X Interests(declared) :
          /\ bi[1].name = bi[2].name
          /\ o = [receiver |-> bi[2].package, name |-> bi[1].name, early |-> FALSE,
                  waiter |-> IF bi[1].await /\ bi[2].await /\ bi[1].origin # bi[2].package
                             THEN bi[1].origin ELSE Nobody]
    BY DEF Owing
  <2>2. bi[1] \in asked /\ bi[2] \in Interests(declared)
    OBVIOUS
  <2> QED
    BY <2>1, <2>2
<1>2. PICK a \in A : a.name = b.name /\ a.origin = b.origin /\ (b.await => a.await)
  BY DEF Covered
<1>3. a.origin \in Packages
  BY DEF Covered
<1>4. i.package \in Packages /\ i.name \in Names
  BY InterestsType DEF TypeOK
<1>5. PICK d \in R : /\ d.receiver = i.package /\ d.name = i.name /\ d.origin = a.origin
                     /\ a.await /\ i.await /\ i.package # a.origin => d.await
  BY <1>1, <1>2, RouteDelivers
<1>6. <<d.receiver, d.name>> \in PendingIn(R)
  BY DEF PendingIn
<1>7. d.await => <<d.origin, d.receiver>> \in AwaitedIn(R)
  BY DEF AwaitedIn
<1>8. o.receiver = i.package /\ o.name = i.name /\ o.early = FALSE
  BY <1>1
<1>9. CASE b.await /\ i.await /\ b.origin # i.package
  <2>1. o.waiter = a.origin /\ d.await
    BY <1>1, <1>2, <1>5, <1>9
  <2>2. o \in [receiver : Packages, name : Names, early : BOOLEAN, waiter : Packages \cup {Nobody}]
    BY <1>1, <1>9, <1>2, <1>3, <1>4
  <2> QED
    BY <1>5, <1>6, <1>7, <1>8, <2>1, <2>2
<1>10. CASE ~(b.await /\ i.await /\ b.origin # i.package)
  <2>1. o.waiter = Nobody
    BY <1>1, <1>10
  <2>2. o \in [receiver : Packages, name : Names, early : BOOLEAN, waiter : Packages \cup {Nobody}]
    BY <1>1, <1>10, <1>4
  <2> QED
    BY <1>5, <1>6, <1>8, <2>1, <2>2
<1> QED
  BY <1>9, <1>10

LEMMA ActivateStep ==
  ASSUME Invariant, NEW A, NEW asked, Covered(A, asked), Activate(A, asked),
         declared' \in [Packages -> Declarations]
  PROVE  Invariant'
<1> DEFINE R == Route(A, declared)
<1>1. /\ pending' = pending \cup PendingIn(R) /\ awaited' = awaited \cup AwaitedIn(R)
      /\ owed' = owed \cup Owing(asked) /\ running' = running /\ reports' = reports
      /\ revision < MaxRevision
      /\ revision' = IF pending' = pending /\ awaited' = awaited THEN revision ELSE revision + 1
  BY DEF Activate
<1>2. /\ PendingIn(R) \subseteq Packages \X Names
      /\ AwaitedIn(R) \subseteq {w \in Packages \X Packages : w[1] # w[2]}
      /\ \A w \in AwaitedIn(R) : Busy(PendingIn(R), w[2])
  BY RouteType DEF Invariant, TypeOK, Covered
<1>3. revision' \in 0 .. MaxRevision /\ revision <= revision' /\ (revision' = 0 => revision = 0 /\ pending' = pending /\ awaited' = awaited)
  BY <1>1, BoundAssumption DEF Invariant, TypeOK
<1>4. \A o \in Owing(asked) :
        /\ o \in [receiver : Packages, name : Names, early : BOOLEAN, waiter : Packages \cup {Nobody}]
        /\ o.early = FALSE
        /\ <<o.receiver, o.name>> \in PendingIn(R)
        /\ o.waiter # Nobody => <<o.waiter, o.receiver>> \in AwaitedIn(R)
  <2>1. \A o \in Owing(asked) : o.early = FALSE
    BY DEF Owing
  <2> QED
    BY <2>1, OwingDelivered DEF Invariant
<1> HIDE DEF R
<1>5. TypeOK'
  <2>1. pending' \subseteq Packages \X Names /\ awaited' \subseteq {w \in Packages \X Packages : w[1] # w[2]}
    BY <1>1, <1>2 DEF Invariant, TypeOK
  <2>2. owed' \subseteq [receiver : Packages, name : Names, early : BOOLEAN, waiter : Packages \cup {Nobody}]
    BY <1>1, <1>4 DEF Invariant, TypeOK
  <2>3. running # Idle => running.started <= revision'
    <3>1. running # Idle => running \in Batches /\ running.started <= revision
      BY DEF Invariant, TypeOK
    <3>2. running # Idle => running.started \in Nat
      BY <3>1, BoundAssumption DEF Batches
    <3> QED
      BY <3>1, <3>2, <1>3, BoundAssumption DEF Invariant, TypeOK
  <2>4. \A a \in reports' : a.started <= revision'
    <3>1. \A a \in reports : a.started \in Nat /\ a.started <= revision
      BY BoundAssumption DEF Invariant, TypeOK, Batches
    <3> QED
      BY <3>1, <1>1, <1>3, BoundAssumption DEF Invariant, TypeOK
  <2> QED
    BY <1>1, <1>3, <2>1, <2>2, <2>3, <2>4 DEF Invariant, TypeOK, Batches, Idle, Names
<1>6. ReportedIsServed'
  BY <1>1, <1>4 DEF Invariant, ReportedIsServed
<1>7. AwaitedIsOutstanding'
  <2>1. \A p : Outstanding(pending, awaited, {running.receiver}, p)
                 => Outstanding(pending', awaited', {running'.receiver}, p)
    BY <1>1 DEF Outstanding, Busy, Targets
  <2>2. \A p : Busy(PendingIn(R), p) => Outstanding(pending', awaited', {running'.receiver}, p)
    BY <1>1 DEF Outstanding, Busy
  <2> QED
    BY <1>1, <1>2, <2>1, <2>2 DEF Invariant, AwaitedIsOutstanding
<1>8. NoActivationLost'
  BY <1>1, <1>4 DEF Invariant, NoActivationLost
<1>9. WaitersWait'
  BY <1>1, <1>4 DEF Invariant, WaitersWait
<1> QED
  BY <1>5, <1>6, <1>7, <1>8, <1>9 DEF Invariant

LEMMA StartStep ==
  ASSUME Invariant, NEW p \in Packages, Start(p)
  PROVE  Invariant'
<1> DEFINE names == {w[2] : w \in {v \in pending : v[1] = p}}
<1>1. /\ revision \in 0 .. MaxRevision - 1 /\ revision' = revision + 1
      /\ running = Idle /\ running' = [receiver |-> p, names |-> names, started |-> revision + 1]
      /\ pending' = {w \in pending : w[1] # p} /\ awaited' = awaited
      /\ owed' = {[o EXCEPT !.early = TRUE] : o \in owed}
      /\ declared' = declared /\ reports' = reports
  BY BoundAssumption DEF Start, Invariant, TypeOK
<1>2. names \in SUBSET Names /\ names # {}
  BY DEF Start, Busy, Invariant, TypeOK
<1>3. \A n : <<p, n>> \in pending => n \in names
  OBVIOUS
<1>4. running'.receiver = p /\ running'.names = names /\ running'.started = revision'
  BY <1>1
<1> HIDE DEF names
<1>5. ASSUME NEW o \in owed'
      PROVE  \E u \in owed : /\ o.receiver = u.receiver /\ o.name = u.name /\ o.waiter = u.waiter
                             /\ o.early = TRUE
                             /\ u.receiver \in Packages /\ u.name \in Names
                             /\ u.waiter \in Packages \cup {Nobody}
                             /\ o = [receiver |-> u.receiver, name |-> u.name, early |-> TRUE, waiter |-> u.waiter]
  <2>1. PICK u \in owed : o = [u EXCEPT !.early = TRUE]
    BY <1>1
  <2>2. u \in [receiver : Packages, name : Names, early : BOOLEAN, waiter : Packages \cup {Nobody}]
    BY DEF Invariant, TypeOK
  <2> QED
    BY <2>1, <2>2
<1>6. running' \in Batches /\ running' # Idle
  <2>1. running' \in Batches
    BY <1>1, <1>2, BoundAssumption DEF Batches
  <2> QED
    BY <2>1, IdleIsNoBatch
<1>7. TypeOK'
  <2>1. owed' \subseteq [receiver : Packages, name : Names, early : BOOLEAN, waiter : Packages \cup {Nobody}]
    <3>1. ASSUME NEW o \in owed'
          PROVE  o \in [receiver : Packages, name : Names, early : BOOLEAN, waiter : Packages \cup {Nobody}]
      <4>1. PICK u \in owed :
              /\ u.receiver \in Packages /\ u.name \in Names /\ u.waiter \in Packages \cup {Nobody}
              /\ o = [receiver |-> u.receiver, name |-> u.name, early |-> TRUE, waiter |-> u.waiter]
        BY <1>5
      <4> QED
        BY <4>1
    <3> QED
      BY <3>1
  <2>2. \A a \in reports' : a.started <= revision'
    <3>1. \A a \in reports : a.started \in Nat /\ a.started <= revision
      BY BoundAssumption DEF Invariant, TypeOK, Batches
    <3> QED
      BY <3>1, <1>1, BoundAssumption
  <2>3. pending' \subseteq Packages \X Names /\ revision' \in 0 .. MaxRevision /\ revision' # 0
    BY <1>1, BoundAssumption DEF Invariant, TypeOK
  <2>4. running'.started <= revision' /\ running'.names # {}
    BY <1>1, <1>2, <1>4
  <2> QED
    BY <1>1, <1>6, <2>1, <2>2, <2>3, <2>4 DEF Invariant, TypeOK, Names
<1>8. ReportedIsServed'
  <2>1. \A a \in reports : a.started \in Nat /\ a.started <= revision
    BY BoundAssumption DEF Invariant, TypeOK, Batches
  <2>2. running'.started = revision + 1 /\ revision \in Nat
    BY <1>1, <1>4, BoundAssumption
  <2>3. running' \notin reports
    BY <2>1, <2>2
  <2> QED
    BY <1>1, <2>3 DEF ReportedIsServed
<1>9. AwaitedIsOutstanding'
  <2>1. ASSUME NEW q \in Packages, Outstanding(pending, awaited, {running.receiver}, q)
        PROVE  Outstanding(pending', awaited', {running'.receiver}, q)
    <3>1. CASE q = p
      BY <1>4, <3>1 DEF Outstanding
    <3>2. CASE q # p
      <4>1. running.receiver # q
        BY <1>1, NobodyAssumption DEF Idle
      <4>2. Busy(pending, q) => Busy(pending', q)
        BY <1>1, <3>2 DEF Busy
      <4> QED
        BY <1>1, <2>1, <4>1, <4>2 DEF Outstanding
    <3> QED
      BY <3>1, <3>2
  <2> QED
    BY <1>1, <2>1 DEF Invariant, TypeOK, AwaitedIsOutstanding
<1>10. NoActivationLost'
  <2>1. ASSUME NEW o \in owed'
        PROVE  \/ <<o.receiver, o.name>> \in pending'
               \/ o.early /\ o.receiver = running'.receiver /\ o.name \in running'.names
    <3>1. PICK u \in owed : /\ o.receiver = u.receiver /\ o.name = u.name /\ o.early = TRUE
                            /\ u.receiver \in Packages
      BY <1>5
    <3>2. <<u.receiver, u.name>> \in pending
      <4>1. u.receiver # running.receiver
        BY <1>1, <3>1, NobodyAssumption DEF Idle
      <4> QED
        BY <4>1 DEF Invariant, NoActivationLost
    <3> QED
      BY <1>1, <1>3, <1>4, <3>1, <3>2
  <2> QED
    BY <2>1 DEF NoActivationLost
<1>11. WaitersWait'
  BY <1>1, <1>5 DEF Invariant, WaitersWait
<1> QED
  BY <1>7, <1>8, <1>9, <1>10, <1>11 DEF Invariant

LEMMA HandleStep ==
  ASSUME Invariant, Handle
  PROVE  Invariant'
<1>1. /\ running # Idle /\ reports' = reports \cup {running}
      /\ owed' = {o \in owed : ~(o.early /\ o.receiver = running.receiver /\ o.name \in running.names)}
      /\ UNCHANGED <<revision, pending, awaited, running, declared>>
  BY DEF Handle, state
<1>2. TypeOK'
  BY <1>1 DEF Invariant, TypeOK, Batches, Idle, Names
<1>3. ReportedIsServed'
  BY <1>1 DEF ReportedIsServed
<1>4. AwaitedIsOutstanding'
  BY <1>1 DEF Invariant, AwaitedIsOutstanding
<1>5. NoActivationLost' /\ WaitersWait'
  BY <1>1 DEF Invariant, NoActivationLost, WaitersWait
<1> QED
  BY <1>2, <1>3, <1>4, <1>5 DEF Invariant

\* The waits that the end of a batch takes off.
LEMMA ObservedRelease ==
  ASSUME Invariant, NEW a \in reports, ObserveSuccess(a)
  PROVE  /\ running # Idle /\ running \in reports /\ running \in Batches
         /\ awaited' = {w \in awaited : w[2] \notin LetGo(Packages, pending, awaited, running.receiver)}
         /\ revision' = revision + 1 /\ revision < MaxRevision /\ running' = Idle
         /\ UNCHANGED <<pending, declared, reports, owed>>
         /\ running.receiver \in Packages /\ awaited \in SUBSET (Packages \X Packages)
BY DEF ObserveSuccess, Invariant, TypeOK, Batches

LEMMA ObserveStep ==
  ASSUME Invariant, NEW a \in reports, ObserveSuccess(a)
  PROVE  Invariant'
<1> DEFINE L == LetGo(Packages, pending, awaited, running.receiver)
<1>1. /\ running # Idle /\ running \in reports /\ running \in Batches
      /\ awaited' = {w \in awaited : w[2] \notin L}
      /\ revision' = revision + 1 /\ revision < MaxRevision /\ running' = Idle
      /\ UNCHANGED <<pending, declared, reports, owed>>
      /\ running.receiver \in Packages /\ awaited \in SUBSET (Packages \X Packages)
  BY ObservedRelease
<1>2. Closed(L, pending, awaited, running.receiver)
  BY <1>1, LetGoClosed
<1>3. \A p \in L : ~Busy(pending, p)
  BY <1>1, LetGoIsFree
<1> HIDE DEF L
<1>4. TypeOK'
  <2>1. revision' \in 0 .. MaxRevision /\ revision' # 0
    BY <1>1, BoundAssumption DEF Invariant, TypeOK
  <2>2. \A b \in reports : b.started <= revision'
    BY <1>1, BoundAssumption DEF Invariant, TypeOK, Batches
  <2> QED
    BY <1>1, <2>1, <2>2 DEF Invariant, TypeOK, Names, Batches, Idle
<1>5. NoActivationLost' /\ \A o \in owed : <<o.receiver, o.name>> \in pending
  BY <1>1 DEF Invariant, NoActivationLost, ReportedIsServed
<1>6. ReportedIsServed'
  BY <1>1, IdleIsNoBatch DEF Invariant, TypeOK, ReportedIsServed
<1>7. WaitersWait'
  <2>1. ASSUME NEW o \in owed, o.waiter # Nobody
        PROVE  <<o.waiter, o.receiver>> \in awaited'
    <3>1. <<o.waiter, o.receiver>> \in awaited
      BY <2>1 DEF Invariant, WaitersWait
    <3>2. Busy(pending, o.receiver)
      <4> DEFINE w == <<o.receiver, o.name>>
      <4>1. w \in pending /\ w[1] = o.receiver
        BY <1>5
      <4> QED
        BY <4>1 DEF Busy
    <3>3. o.receiver \notin L
      BY <1>3, <3>2
    <3> QED
      BY <1>1, <3>1, <3>3
  <2> QED
    BY <1>1, <2>1 DEF WaitersWait
<1>8. AwaitedIsOutstanding'
  <2>1. ASSUME NEW w \in awaited', ~Outstanding(pending', awaited', {running'.receiver}, w[2])
        PROVE  FALSE
    <3> DEFINE t == w[2]
    <3>1. w \in awaited /\ t \notin L /\ t \in Packages
      BY <1>1
    <3>2. ~Busy(pending, t) /\ Targets(awaited', t) = {}
      BY <1>1, <2>1 DEF Outstanding
    <3>3. \A v \in awaited : v[1] = t => v[2] \in L
      BY <1>1, <3>2 DEF Targets
    <3>4. Targets(awaited, t) \subseteq L
      BY <3>3 DEF Targets
    <3>5. \A v \in awaited : v[1] # t
      BY <1>2, <3>1, <3>2, <3>4 DEF Closed
    <3>6. Targets(awaited, t) = {}
      BY <3>5 DEF Targets
    <3>7. t = running.receiver
      BY <3>1, <3>2, <3>6 DEF Invariant, AwaitedIsOutstanding, Outstanding
    <3> QED
      BY <1>2, <3>1, <3>2, <3>6, <3>7 DEF Closed
  <2> QED
    BY <2>1 DEF AwaitedIsOutstanding
<1> QED
  BY <1>4, <1>5, <1>6, <1>7, <1>8 DEF Invariant

LEMMA InvariantStep ==
  ASSUME Invariant, [Next]_vars
  PROVE  Invariant'
<1>1. ASSUME NEW p \in Packages, Operate(p)
      PROVE  Invariant'
  <2>1. PICK operation \in StateOperations \cup NoActivationOperations, after \in Declarations :
          /\ operation # "unpack" => after = {}
          /\ Activate(StateActivations(p, operation, declared[p], after),
                      {Activation(d.name, p, d.await) : d \in {e \in declared[p] \cup after :
                         e.kind = "activate" /\ operation \in StateOperations}})
          /\ declared' = IF operation = "unpack" THEN [declared EXCEPT ![p] = after] ELSE declared
    BY <1>1 DEF Operate
  <2>2. declared' \in [Packages -> Declarations]
    BY <2>1 DEF Invariant, TypeOK
  <2> QED
    BY <2>1, <2>2, OperationCovered, ActivateStep
<1>2. ASSUME NEW p \in Packages, ChangeFile(p)
      PROVE  Invariant'
  <2>1. PICK f \in Paths : Activate(FileActivations(p, {f}, declared), FileActivations(p, {f}, declared))
    BY <1>2 DEF ChangeFile
  <2>2. declared' \in [Packages -> Declarations]
    BY <1>2 DEF ChangeFile, Invariant, TypeOK
  <2> QED
    BY <2>1, <2>2, FileCovered, ActivateStep
<1>3. CASE UNCHANGED vars
  BY <1>3 DEF vars, state, Invariant, TypeOK, ReportedIsServed, AwaitedIsOutstanding, NoActivationLost,
              WaitersWait, Batches, Idle, Names, Outstanding, Busy, Targets
<1> QED
  BY <1>1, <1>2, <1>3, StartStep, HandleStep, ObserveStep DEF Next

\* The invariant holds in every reachable state.
THEOREM InvariantHolds == Spec => []Invariant
BY InvariantInit, InvariantStep, PTL DEF Spec

\* Every variable of the trigger state stays in its range, and no state after the
\* first is empty at revision zero (State.__post_init__ and Running.__post_init__).
THEOREM TypeCorrect == Spec => []TypeOK
BY InvariantHolds, PTL DEF Invariant

\* No call of activate, start or observe_success makes a state whose awaited table
\* names a package without outstanding work, which __post_init__ would refuse.
THEOREM NoOrphanWait == Spec => []AwaitedIsOutstanding
BY InvariantHolds, PTL DEF Invariant

\* No activation is lost to a handler that was already running: it stays pending,
\* or in the batch, until a handler that began later has succeeded (activate,
\* start, observe_success).
THEOREM ActivationsKept == Spec => []NoActivationLost
BY InvariantHolds, PTL DEF Invariant

\* A package whose activation asked to wait is in the awaited table until the
\* activation has been served (route, activate, observe_success).
THEOREM WaitersKept == Spec => []WaitersWait
BY InvariantHolds, PTL DEF Invariant

\* Neither the work nor the wait of an activation is lost before it is served
\* (activate, start, observe_success).
THEOREM ActivationsAndWaits == Spec => []ActivationsAreKept
BY InvariantHolds, PTL DEF Invariant, ActivationsAreKept

\* observe_success takes off a wait only with the end of a batch, and only for a
\* package that then has no work and waits for nobody.
THEOREM WaitsEndWhenFree == Spec => WaitEndsWhenFree
<1>1. ASSUME Invariant, [Next]_vars
      PROVE  [\A w \in awaited \ awaited' :
                /\ running # Idle /\ running' = Idle
                /\ ~Outstanding(pending', awaited', {}, w[2])]_vars
  <2>1. ASSUME NEW A, NEW asked, Activate(A, asked)
        PROVE  awaited \subseteq awaited'
    BY <2>1 DEF Activate
  <2>2. ASSUME NEW a \in reports, ObserveSuccess(a), NEW w \in awaited \ awaited'
        PROVE  /\ running # Idle /\ running' = Idle
               /\ ~Outstanding(pending', awaited', {}, w[2])
    <3> DEFINE L == LetGo(Packages, pending, awaited, running.receiver)
    <3>1. /\ running # Idle /\ running' = Idle /\ pending' = pending
          /\ awaited' = {v \in awaited : v[2] \notin L}
          /\ running.receiver \in Packages /\ awaited \in SUBSET (Packages \X Packages)
      BY <1>1, <2>2, ObservedRelease
    <3>2. w[2] \in L
      BY <3>1
    <3>3. ~Busy(pending, w[2]) /\ Targets(awaited, w[2]) \subseteq L
      BY <3>1, <3>2, LetGoIsFree
    <3> HIDE DEF L
    <3>4. Targets(awaited', w[2]) = {}
      BY <3>1, <3>3 DEF Targets
    <3> QED
      BY <3>1, <3>3, <3>4 DEF Outstanding
  <2>3. ASSUME NEW p \in Packages, Operate(p) \/ ChangeFile(p) \/ Start(p)
        PROVE  awaited \subseteq awaited'
    BY <2>3, <2>1 DEF Operate, ChangeFile, Start
  <2>4. Handle => awaited' = awaited
    BY DEF Handle, state
  <2>5. UNCHANGED vars => awaited' = awaited
    BY DEF vars, state
  <2> QED
    BY <1>1, <2>2, <2>3, <2>4, <2>5 DEF Next
<1> QED
  BY <1>1, InvariantHolds, PTL DEF Spec, WaitEndsWhenFree

\* A report ends the batch it is about and no other, at most once: the running
\* batch goes only by its own report, and start never binds an attempt again that
\* was reported before, though receiver and names be the same.
THEOREM ReportsEndOnce == Spec => ReportEndsItsBatch
<1>1. ASSUME Invariant, [Next]_vars
      PROVE  [/\ running # Idle /\ running' # running => running \in reports /\ running' = Idle
              /\ running' # Idle /\ running' # running => running' \notin reports]_vars
  <2>1. ASSUME NEW p \in Packages, Operate(p) \/ ChangeFile(p)
        PROVE  running' = running
    BY <2>1 DEF Operate, ChangeFile, Activate
  <2>2. ASSUME NEW p \in Packages, Start(p)
        PROVE  running = Idle /\ running' \notin reports
    <3>1. /\ running = Idle /\ revision \in Nat /\ running'.started = revision + 1
      BY <1>1, <2>2 DEF Start, Invariant, TypeOK
    <3>2. \A a \in reports : a.started \in Nat /\ a.started <= revision
      BY <1>1 DEF Invariant, TypeOK, Batches
    <3> QED
      BY <3>1, <3>2
  <2>3. ASSUME NEW a \in reports, ObserveSuccess(a)
        PROVE  running \in reports /\ running' = Idle
    BY <2>3 DEF ObserveSuccess
  <2>4. CASE Handle \/ UNCHANGED vars
    BY <2>4 DEF Handle, vars, state
  <2> QED
    BY <1>1, <2>1, <2>2, <2>3, <2>4 DEF Next
<1> QED
  BY <1>1, InvariantHolds, PTL DEF Spec, ReportEndsItsBatch

(***************************************************************************)
(* The loop that lets packages go, as TriggerRelease has it.               *)
(***************************************************************************)

\* Who was free and had a wait, or had the handler; such a package is queued once.
Freed(p) == ~Busy(busy, p) /\ Targets(left, p) = {} /\ (p = receiver \/ \E w \in incoming : w[1] = p)

Elems(s)    == {s[i] : i \in 1 .. Len(s)}
Distinct(s) == \A i, j \in 1 .. Len(s) : s[i] = s[j] => i = j

LoopTypes ==
  /\ receiver \in LoopPackages /\ target \in LoopPackages
  /\ incoming \in SUBSET (LoopPackages \X LoopPackages) /\ left \subseteq incoming
  /\ ready \in Seq(LoopPackages) /\ Distinct(ready)
  /\ outgoing \in [LoopPackages -> Nat]

\* The counts are those of the waits that are left.
Counted == \A p \in LoopPackages : outgoing[p] = Cardinality(Targets(left, p))

\* A package in the queue is free, and none of the waits for it has been taken off.
Queued == \A p \in Elems(ready) : Freed(p) /\ \A w \in incoming : w[2] = p => w \in left

\* The inner loop takes off the waits for the popped package, each one once.
Popped ==
  origins # {} =>
    /\ Freed(target) /\ target \notin Elems(ready)
    /\ origins = {o \in LoopPackages : <<o, target>> \in left}

\* What has been taken off, and what has been freed.
Taken    == \A w \in incoming : w \notin left => Freed(w[2])
Sound    == \A p \in LoopPackages : Freed(p) => p \in LetGo(LoopPackages, busy, incoming, receiver)
Complete == \A p \in LoopPackages : Freed(p) =>
              p \in Elems(ready) \/ (origins # {} /\ p = target) \/ \A w \in left : w[2] # p

LoopInv == LoopTypes /\ Counted /\ Queued /\ Popped /\ Taken /\ Sound /\ Complete

LEMMA SameTriggers ==
  /\ \A pend, p : Loop!Busy(pend, p) = Busy(pend, p)
  /\ \A wait, p : Loop!Targets(wait, p) = Targets(wait, p)
  /\ \A Q, pend, wait, r : Loop!LetGo(Q, pend, wait, r) = LetGo(Q, pend, wait, r)
  BY DEF Loop!Busy, Busy, Loop!Targets, Targets, Loop!LetGo, LetGo, Loop!Closed, Closed

LEMMA SameSizes ==
  /\ \A T : Loop!IsFiniteSet(T) <=> IsFiniteSet(T)
  /\ \A T : Loop!Cardinality(T) = Cardinality(T)
<1>1. ASSUME NEW T PROVE Loop!IsFiniteSet(T) <=> IsFiniteSet(T)
  BY DEF Loop!IsFiniteSet, IsFiniteSet
<1>2. ASSUME NEW T PROVE Loop!Cardinality(T) = Cardinality(T)
  BY DEF Loop!Cardinality, Cardinality
<1> QED
  BY <1>1, <1>2

LEMMA FiniteTargets ==
  ASSUME NEW wait \in SUBSET (LoopPackages \X LoopPackages), NEW p
  PROVE  /\ IsFiniteSet(Targets(wait, p))
         /\ Cardinality(Targets(wait, p)) \in Nat
         /\ Cardinality(Targets(wait, p)) = 0 <=> Targets(wait, p) = {}
<1>1. IsFiniteSet(LoopPackages)
  BY LoopAssumption, SameSizes DEF Loop!PackageAssumption
<1>2. Targets(wait, p) \in SUBSET LoopPackages
  BY DEF Targets
<1>3. IsFiniteSet(Targets(wait, p))
  BY <1>1, <1>2, FS_Subset
<1> QED
  BY <1>3, FS_CardinalityType, FS_EmptySet

LEMMA QueueTail ==
  ASSUME NEW S, NEW s \in Seq(S), Distinct(s), s # <<>>
  PROVE  /\ Tail(s) \in Seq(S) /\ Head(s) \in S /\ Head(s) \in Elems(s)
         /\ Distinct(Tail(s)) /\ Elems(Tail(s)) = Elems(s) \ {Head(s)}
<1>1. /\ Len(s) \in Nat \ {0} /\ Tail(s) \in Seq(S) /\ Head(s) = s[1] /\ Head(s) \in S
      /\ Len(Tail(s)) = Len(s) - 1 /\ \A i \in 1 .. Len(s) - 1 : Tail(s)[i] = s[i + 1]
  OBVIOUS
<1>2. Distinct(Tail(s))
  BY <1>1 DEF Distinct
<1>3. \A x : x \in Elems(Tail(s)) <=> x \in Elems(s) /\ x # Head(s)
  <2>1. ASSUME NEW i \in 1 .. Len(Tail(s)) PROVE Tail(s)[i] \in Elems(s) /\ Tail(s)[i] # Head(s)
    BY <1>1 DEF Elems, Distinct
  <2>2. ASSUME NEW i \in 1 .. Len(s), s[i] # Head(s) PROVE s[i] \in Elems(Tail(s))
    <3>1. i - 1 \in 1 .. Len(Tail(s)) /\ Tail(s)[i - 1] = s[i]
      BY <1>1, <2>2
    <3> QED
      BY <3>1 DEF Elems
  <2> QED
    BY <2>1, <2>2 DEF Elems
<1> QED
  BY <1>1, <1>2, <1>3 DEF Elems

LEMMA QueueAppend ==
  ASSUME NEW S, NEW s \in Seq(S), Distinct(s), NEW e \in S, e \notin Elems(s)
  PROVE  Append(s, e) \in Seq(S) /\ Distinct(Append(s, e)) /\ Elems(Append(s, e)) = Elems(s) \cup {e}
<1>1. /\ Len(s) \in Nat /\ Append(s, e) \in Seq(S) /\ Len(Append(s, e)) = Len(s) + 1
      /\ Append(s, e)[Len(s) + 1] = e /\ \A i \in 1 .. Len(s) : Append(s, e)[i] = s[i]
  OBVIOUS
<1>2. Distinct(Append(s, e))
  <2> SUFFICES ASSUME NEW i \in 1 .. Len(s) + 1, NEW j \in 1 .. Len(s) + 1, Append(s, e)[i] = Append(s, e)[j]
               PROVE  i = j
    BY <1>1 DEF Distinct
  <2>1. CASE i \in 1 .. Len(s) /\ j \in 1 .. Len(s)
    BY <1>1, <2>1 DEF Distinct
  <2>2. CASE i = Len(s) + 1 \/ j = Len(s) + 1
    BY <1>1, <2>2 DEF Elems
  <2> QED
    BY <1>1, <2>1, <2>2
<1>3. \A x : x \in Elems(Append(s, e)) <=> x \in Elems(s) \/ x = e
  BY <1>1 DEF Elems
<1> QED
  BY <1>1, <1>2, <1>3

LEMMA LoopInit == Loop!Init => LoopInv
<1> SUFFICES ASSUME Loop!Init PROVE LoopInv
  OBVIOUS
<1>1. /\ receiver \in LoopPackages /\ target = receiver /\ left = incoming /\ origins = {}
      /\ incoming \in SUBSET (LoopPackages \X LoopPackages)
      /\ outgoing = [p \in LoopPackages |-> Cardinality(Targets(incoming, p))]
      /\ ready = IF ~Busy(busy, receiver) /\ outgoing[receiver] = 0 THEN <<receiver>> ELSE <<>>
  <2>1. receiver \in LoopPackages /\ target = receiver /\ left = incoming /\ origins = {}
    BY DEF Loop!Init
  <2>2. incoming \in SUBSET (LoopPackages \X LoopPackages)
    BY DEF Loop!Init
  <2>3. outgoing = [p \in LoopPackages |-> Cardinality(Targets(incoming, p))]
    BY SameTriggers, SameSizes DEF Loop!Init
  <2>4. ready = IF ~Busy(busy, receiver) /\ outgoing[receiver] = 0 THEN <<receiver>> ELSE <<>>
    BY DEF Loop!Init, Loop!Busy, Busy
  <2> QED
    BY <2>1, <2>2, <2>3, <2>4
<1>2. ASSUME NEW p \in LoopPackages
      PROVE  /\ Cardinality(Targets(incoming, p)) \in Nat
             /\ Cardinality(Targets(incoming, p)) = 0 <=> Targets(incoming, p) = {}
  BY <1>1, FiniteTargets
<1>3. Elems(ready) = {p \in LoopPackages : p = receiver /\ ~Busy(busy, p) /\ Targets(incoming, p) = {}}
      /\ ready \in Seq(LoopPackages) /\ Distinct(ready)
  <2>1. CASE ~Busy(busy, receiver) /\ outgoing[receiver] = 0
    <3>1. ready = <<receiver>> /\ Targets(incoming, receiver) = {}
      BY <1>1, <1>2, <2>1
    <3>2. Elems(<<receiver>>) = {receiver} /\ <<receiver>> \in Seq(LoopPackages) /\ Distinct(<<receiver>>)
      BY <1>1 DEF Elems, Distinct
    <3> QED
      BY <1>1, <2>1, <3>1, <3>2
  <2>2. CASE ~(~Busy(busy, receiver) /\ outgoing[receiver] = 0)
    <3>1. ready = <<>> /\ (Busy(busy, receiver) \/ Targets(incoming, receiver) # {})
      BY <1>1, <1>2, <2>2
    <3>2. Elems(<<>>) = {} /\ <<>> \in Seq(LoopPackages) /\ Distinct(<<>>)
      BY DEF Elems, Distinct
    <3> QED
      BY <1>1, <3>1, <3>2
  <2> QED
    BY <2>1, <2>2
<1>4. ASSUME NEW p \in LoopPackages, Freed(p) PROVE p = receiver /\ p \in Elems(ready)
  <2>1. p = receiver
    BY <1>1, <1>4 DEF Freed, Targets
  <2> QED
    BY <1>1, <1>3, <1>4, <2>1 DEF Freed
<1>5. LoopTypes /\ Counted
  BY <1>1, <1>2, <1>3 DEF LoopTypes, Counted
<1>6. Queued /\ Popped /\ Taken
  BY <1>1, <1>3 DEF Queued, Popped, Taken, Freed
<1>7. Sound
  <2>1. Closed(LetGo(LoopPackages, busy, incoming, receiver), busy, incoming, receiver)
    BY <1>1, LetGoClosed
  <2> QED
    BY <1>1, <1>4, <2>1 DEF Sound, Closed, Freed
<1>8. Complete
  BY <1>4 DEF Complete
<1> QED
  BY <1>5, <1>6, <1>7, <1>8 DEF LoopInv

\* A package is popped.
LEMMA PopStep ==
  ASSUME LoopInv, Loop!Pop
  PROVE  LoopInv'
<1>1. /\ origins = {} /\ ready # <<>> /\ target' = Head(ready) /\ ready' = Tail(ready)
      /\ origins' = {w[1] : w \in {v \in incoming : v[2] = target'}}
      /\ UNCHANGED <<receiver, busy, incoming, left, outgoing>>
  BY DEF Loop!Pop, Loop!input
<1>2. /\ ready' \in Seq(LoopPackages) /\ target' \in LoopPackages /\ target' \in Elems(ready)
      /\ Distinct(ready') /\ Elems(ready') = Elems(ready) \ {target'}
  BY <1>1, QueueTail DEF LoopInv, LoopTypes
<1>3. \A p : Freed(p)' = Freed(p)
  BY <1>1 DEF Freed
<1>4. Freed(target') /\ \A w \in incoming : w[2] = target' => w \in left
  BY <1>2 DEF LoopInv, Queued
<1>5. origins' = {o \in LoopPackages : <<o, target'>> \in left}
  <2>1. \A o : o \in origins' <=> \E w \in incoming : w[2] = target' /\ w[1] = o
    BY <1>1
  <2>2. \A w \in incoming : w[1] \in LoopPackages /\ w = <<w[1], w[2]>>
    BY DEF LoopInv, LoopTypes
  <2>3. left \subseteq incoming
    BY DEF LoopInv, LoopTypes
  <2> QED
    BY <1>4, <2>1, <2>2, <2>3
<1>6. LoopTypes' /\ Counted'
  BY <1>1, <1>2 DEF LoopInv, LoopTypes, Counted, Distinct
<1>7. Queued'
  BY <1>1, <1>2, <1>3 DEF LoopInv, Queued
<1>8. Popped'
  BY <1>1, <1>2, <1>3, <1>4, <1>5 DEF Popped
<1>9. Taken' /\ Sound'
  BY <1>1, <1>3 DEF LoopInv, Taken, Sound
<1>10. Complete'
  <2> SUFFICES ASSUME NEW p \in LoopPackages, Freed(p), p # target' \/ origins' = {}
               PROVE  p \in Elems(ready') \/ \A w \in left : w[2] # p
    BY <1>1, <1>3 DEF Complete
  <2>1. CASE p # target'
    BY <1>1, <1>2, <2>1 DEF LoopInv, Complete
  <2>2. CASE p = target' /\ origins' = {}
    <3>1. \A w \in left : w[1] \in LoopPackages /\ w = <<w[1], w[2]>>
      BY DEF LoopInv, LoopTypes
    <3> QED
      BY <1>5, <2>2, <3>1
  <2> QED
    BY <2>1, <2>2
<1> QED
  BY <1>6, <1>7, <1>8, <1>9, <1>10 DEF LoopInv

\* One of its waiters loses its wait, and is queued when that was the last one.
LEMMA ReleaseStep ==
  ASSUME LoopInv, NEW o \in LoopPackages, Loop!Release(o)
  PROVE  LoopInv'
<1> DEFINE x == <<o, target>>
<1>1. /\ o \in origins /\ origins' = origins \ {o} /\ left' = left \ {x}
      /\ outgoing' = [outgoing EXCEPT ![o] = @ - 1]
      /\ ready' = IF outgoing'[o] = 0 /\ ~Busy(busy, o) THEN Append(ready, o) ELSE ready
      /\ UNCHANGED <<receiver, busy, incoming, target>>
  BY SameTriggers DEF Loop!Release, Loop!input
<1>2. /\ x \in left /\ x \in incoming /\ Freed(target) /\ target \notin Elems(ready) /\ target \in LoopPackages
      /\ origins = {q \in LoopPackages : <<q, target>> \in left}
      /\ left \subseteq incoming /\ incoming \in SUBSET (LoopPackages \X LoopPackages)
  BY <1>1 DEF LoopInv, Popped, LoopTypes
<1>3. /\ \A w \in incoming : w[1] \in LoopPackages /\ w[2] \in LoopPackages /\ w = <<w[1], w[2]>>
      /\ x[1] = o /\ x[2] = target
  BY <1>2
<1> HIDE DEF x
<1>4. /\ target \in Targets(left, o) /\ Targets(left', o) = Targets(left, o) \ {target}
      /\ \A p : p # o => Targets(left', p) = Targets(left, p)
  <2>1. \A w \in left : w[1] = o /\ w[2] = target <=> w = x
    BY <1>2, <1>3 DEF x
  <2>2. \A p, t : t \in Targets(left', p) <=> \E w \in left : w # x /\ w[1] = p /\ w[2] = t
    BY <1>1 DEF Targets
  <2>3. \A p, t : t \in Targets(left, p) <=> \E w \in left : w[1] = p /\ w[2] = t
    BY DEF Targets
  <2>4. \A t : t \in Targets(left', o) <=> t \in Targets(left, o) /\ t # target
    BY <2>1, <2>2, <2>3
  <2>5. \A p, t : p # o => (t \in Targets(left', p) <=> t \in Targets(left, p))
    BY <1>3, <2>2, <2>3
  <2>6. target \in Targets(left, o)
    BY <1>2, <1>3, <2>3
  <2>7. Targets(left', o) = Targets(left, o) \ {target}
    BY <2>4
  <2>8. ASSUME NEW p, p # o PROVE Targets(left', p) = Targets(left, p)
    BY <2>5, <2>8 DEF Targets
  <2> QED
    BY <2>6, <2>7, <2>8
<1>5. ~Freed(o) /\ o # target
  BY <1>2, <1>4 DEF Freed
<1>6. o \notin Elems(ready) /\ \A w \in incoming : w[2] = o => w \in left
  BY <1>5 DEF LoopInv, Queued, Taken
<1>7. /\ outgoing' \in [LoopPackages -> Nat] /\ Counted'
      /\ outgoing'[o] = 0 <=> Targets(left', o) = {}
  <2>1. left \in SUBSET (LoopPackages \X LoopPackages) /\ left' \in SUBSET (LoopPackages \X LoopPackages)
    BY <1>1, <1>2
  <2>2. IsFiniteSet(Targets(left, o))
    BY <2>1, FiniteTargets
  <2>3. Cardinality(Targets(left', o)) = Cardinality(Targets(left, o)) - 1
    BY <1>4, <2>2, FS_RemoveElement
  <2>4. Cardinality(Targets(left', o)) \in Nat /\ (Cardinality(Targets(left', o)) = 0 <=> Targets(left', o) = {})
    BY <2>1, FiniteTargets
  <2>5. outgoing \in [LoopPackages -> Nat] /\ outgoing[o] = Cardinality(Targets(left, o))
    BY DEF LoopInv, LoopTypes, Counted
  <2>6. outgoing'[o] = Cardinality(Targets(left', o)) /\ \A p \in LoopPackages : p # o => outgoing'[p] = outgoing[p]
    BY <1>1, <2>3, <2>5
  <2>7. Counted'
    BY <1>4, <2>6 DEF LoopInv, Counted
  <2> QED
    BY <1>1, <2>4, <2>5, <2>6, <2>7
<1>8. \A p : Freed(p)' <=> Freed(p) \/ (p = o /\ ~Busy(busy, o) /\ Targets(left', o) = {})
  <2>1. Freed(o)' <=> ~Busy(busy, o) /\ Targets(left', o) = {}
    BY <1>1, <1>2, <1>3 DEF Freed
  <2>2. \A p : p # o => (Freed(p)' <=> Freed(p))
    BY <1>1, <1>4 DEF Freed
  <2> QED
    BY <1>5, <2>1, <2>2
<1>9. /\ ready' \in Seq(LoopPackages) /\ Distinct(ready')
      /\ \A p : p \in Elems(ready') <=> p \in Elems(ready) \/ (p = o /\ Freed(o)')
  <2>1. CASE outgoing'[o] = 0 /\ ~Busy(busy, o)
    <3>1. ready' = Append(ready, o) /\ Freed(o)'
      BY <1>1, <1>7, <1>8, <2>1
    <3>2. /\ Append(ready, o) \in Seq(LoopPackages) /\ Distinct(Append(ready, o))
          /\ Elems(Append(ready, o)) = Elems(ready) \cup {o}
      BY <1>6, QueueAppend DEF LoopInv, LoopTypes
    <3> QED
      BY <3>1, <3>2
  <2>2. CASE ~(outgoing'[o] = 0 /\ ~Busy(busy, o))
    <3>1. ready' = ready /\ ~Freed(o)'
      BY <1>1, <1>5, <1>7, <1>8, <2>2
    <3> QED
      BY <3>1 DEF LoopInv, LoopTypes
  <2> QED
    BY <2>1, <2>2
<1>10. LoopTypes'
  BY <1>1, <1>7, <1>9 DEF LoopInv, LoopTypes, Distinct
<1>11. Queued'
  <2> SUFFICES ASSUME NEW p, p \in Elems(ready')
               PROVE  Freed(p)' /\ \A w \in incoming : w[2] = p => w \in left'
    BY <1>1 DEF Queued
  <2>1. CASE p \in Elems(ready)
    BY <1>1, <1>2, <1>3, <1>8, <2>1 DEF LoopInv, Queued
  <2>2. CASE p = o /\ Freed(o)'
    BY <1>1, <1>3, <1>5, <1>6, <2>2
  <2> QED
    BY <1>9, <2>1, <2>2
<1>12. Popped'
  <2>1. Freed(target)'
    BY <1>1, <1>2, <1>4, <1>5 DEF Freed
  <2>2. target \notin Elems(ready')
    BY <1>2, <1>5, <1>9
  <2>3. \A q \in LoopPackages : <<q, target>> \in left' <=> <<q, target>> \in left /\ q # o
    BY <1>1 DEF x
  <2>4. origins' = {q \in LoopPackages : <<q, target>> \in left'}
    BY <1>1, <1>2, <2>3
  <2>5. target' = target /\ Elems(ready)' = Elems(ready')
    BY <1>1 DEF Elems
  <2> QED
    BY <2>1, <2>2, <2>4, <2>5 DEF Popped
<1>13. Taken'
  <2> SUFFICES ASSUME NEW w \in incoming, w \notin left' PROVE Freed(w[2])'
    BY <1>1 DEF Taken
  <2>1. CASE w = x
    BY <1>2, <1>3, <1>8, <2>1
  <2>2. CASE w # x
    BY <1>1, <1>8, <2>2 DEF LoopInv, Taken
  <2> QED
    BY <2>1, <2>2
<1>14. Sound'
  <2> DEFINE L == LetGo(LoopPackages, busy, incoming, receiver)
  <2>1. ASSUME Freed(o)' PROVE o \in L
    <3>1. \A w \in incoming : w[1] = o => w \notin left'
      BY <1>1, <1>5, <1>8, <2>1 DEF Targets
    <3>2. \A w \in incoming : w[1] = o => Freed(w[2])
      <4> SUFFICES ASSUME NEW w \in incoming, w[1] = o PROVE Freed(w[2])
        OBVIOUS
      <4>1. CASE w = x
        BY <1>2, <1>3, <4>1
      <4>2. CASE w # x
        BY <1>1, <3>1, <4>2 DEF LoopInv, Taken
      <4> QED
        BY <4>1, <4>2
    <3>3. Targets(incoming, o) \subseteq L
      BY <1>3, <3>2 DEF Targets, LoopInv, Sound
    <3>4. Closed(L, busy, incoming, receiver)
      BY LetGoClosed DEF LoopInv, LoopTypes
    <3>5. ~Busy(busy, o)
      BY <1>1, <2>1 DEF Freed
    <3> QED
      BY <1>2, <1>3, <3>3, <3>4, <3>5 DEF Closed
  <2>2. \A p \in LoopPackages : Freed(p) => p \in L
    BY DEF LoopInv, Sound
  <2>3. \A p \in LoopPackages : Freed(p)' => p \in L
    BY <1>8, <2>1, <2>2
  <2> QED
    BY <1>1, <2>3 DEF Sound
<1>15. Complete'
  <2> SUFFICES ASSUME NEW p \in LoopPackages, Freed(p)', p \notin Elems(ready'), p # target \/ origins' = {}
               PROVE  \A w \in left' : w[2] # p
    BY <1>1 DEF Complete
  <2>1. Freed(p) /\ p \notin Elems(ready)
    BY <1>8, <1>9
  <2>2. CASE p # target
    BY <1>1, <2>1, <2>2 DEF LoopInv, Complete
  <2>3. CASE p = target /\ origins' = {}
    <3>1. \A q \in LoopPackages : <<q, target>> \notin left'
      BY <1>1, <1>2, <2>3 DEF x
    <3> QED
      BY <1>1, <1>2, <1>3, <2>3, <3>1
  <2> QED
    BY <2>2, <2>3
<1> QED
  BY <1>7, <1>10, <1>11, <1>12, <1>13, <1>14, <1>15 DEF LoopInv

\* When the queue is empty, what has been freed is the least closed set.
LEMMA LoopEnds == LoopInv => Loop!LetsGoTheLeast
<1> SUFFICES ASSUME LoopInv PROVE Loop!LetsGoTheLeast
  OBVIOUS
<1> DEFINE L == LetGo(LoopPackages, busy, incoming, receiver)
           S == {p \in LoopPackages : Freed(p)}
<1>1. /\ \A w \in incoming : w[1] \in LoopPackages /\ w[2] \in LoopPackages
      /\ left \subseteq incoming /\ receiver \in LoopPackages
  BY DEF LoopInv, LoopTypes
<1>2. ASSUME origins = {}, ready = <<>> PROVE left = {w \in incoming : w[2] \notin L}
  <2>1. \A p \in S : \A w \in left : w[2] # p
    <3>1. Elems(ready) = {}
      BY <1>2 DEF Elems
    <3> QED
      BY <1>2, <3>1 DEF LoopInv, Complete
  <2>2. Closed(S, busy, incoming, receiver)
    <3>1. ~Busy(busy, receiver) /\ Targets(incoming, receiver) = {} => receiver \in S
      BY <1>1 DEF Freed, Targets
    <3>2. ASSUME NEW w \in incoming, ~Busy(busy, w[1]), Targets(incoming, w[1]) \subseteq S
          PROVE  w[1] \in S
      <4>1. Targets(left, w[1]) = {}
        BY <1>1, <2>1, <3>2 DEF Targets
      <4> QED
        BY <1>1, <3>2, <4>1 DEF Freed
    <3> QED
      BY <3>1, <3>2 DEF Closed
  <2>3. L \subseteq S
    BY <2>2, LetGoSmallest
  <2>4. S \subseteq L
    BY DEF LoopInv, Sound
  <2>5. \A w \in incoming : w \in left <=> w[2] \notin L
    BY <1>1, <2>1, <2>3, <2>4 DEF LoopInv, Taken
  <2> QED
    BY <1>1, <2>5
<1>3. \A q \in origins : <<q, target>> \in left
  BY DEF LoopInv, Popped
<1>4. \A p \in LoopPackages : outgoing[p] = Cardinality(Targets(left, p))
  BY DEF LoopInv, Counted
<1> QED
  <2>1. origins = {} /\ ready = <<>> =>
          left = {w \in incoming : w[2] \notin Loop!LetGo(LoopPackages, busy, incoming, receiver)}
    BY <1>2, SameTriggers
  <2>2. \A p \in LoopPackages : outgoing[p] = Loop!Cardinality(Loop!Targets(left, p))
    BY <1>4, SameTriggers, SameSizes
  <2> QED
    BY <1>3, <2>1, <2>2 DEF Loop!LetsGoTheLeast

\* The loop of observe_success ends the waits for the least set of packages that its rules let go,
\* whatever valid state it begins in and in whatever order it comes to the waiters; it never takes
\* off a wait twice, and its counts are right.
THEOREM TheLeastIsLetGo == MCSpec => []LetsGoTheLeast
<1>1. MCInit => (scenario = "loop" => LoopInv)
  BY LoopInit DEF MCInit
<1>2. (scenario = "loop" => LoopInv) /\ [MCNext]_<<scenario, vars, loop>> => (scenario = "loop" => LoopInv)'
  <2> SUFFICES ASSUME scenario = "loop" => LoopInv, [MCNext]_<<scenario, vars, loop>>, scenario' = "loop"
               PROVE  LoopInv'
    OBVIOUS
  <2>1. scenario = "loop" /\ (Loop!Next \/ UNCHANGED loop)
    BY DEF MCNext
  <2>2. CASE UNCHANGED loop
    <3>1. UNCHANGED <<receiver, busy, incoming, left, outgoing, ready, target, origins>>
      BY <2>2 DEF loop
    <3>2. \A p : Freed(p)' = Freed(p)
      BY <3>1 DEF Freed
    <3>3. LoopTypes' /\ Counted' /\ Queued' /\ Popped'
      BY <2>1, <3>1, <3>2 DEF LoopInv, LoopTypes, Counted, Queued, Popped
    <3>4. Taken' /\ Sound' /\ Complete'
      BY <2>1, <3>1, <3>2 DEF LoopInv, Taken, Sound, Complete
    <3> QED
      BY <3>3, <3>4 DEF LoopInv
  <2> QED
    BY <2>1, <2>2, PopStep, ReleaseStep DEF Loop!Next
<1>3. (scenario = "loop" => LoopInv) => LetsGoTheLeast
  BY LoopEnds DEF LetsGoTheLeast
<1> QED
  BY <1>1, <1>2, <1>3, PTL DEF MCSpec
=============================================================================
