--------------------------- MODULE RootSupervisor ---------------------------
(***************************************************************************)
(* The root supervisor (native/root_supervisor.py) and everything it       *)
(* interleaves in one thread: the client of the root-session controller    *)
(* (root_session_client.py), the operator and supply observers             *)
(* (operator_guard.py, supply_guard.py), the user's consent                *)
(* (plan_consent.py) and the channels to its package workers               *)
(* (root_handoff.py).                                                      *)
(*                                                                         *)
(* Abstractions.  Scopes, digests and identities are one check that may    *)
(* fail.  Time is what the code compares it with: a request is late or     *)
(* not, an observation is new, due for renewal (250 ms) or stale (1000     *)
(* ms), the common deadline has passed or not.  A sequence number is       *)
(* whether the last request has been answered.  `_current' is one          *)
(* predicate: everything it looks at stays broken once it breaks, so       *)
(* reading its parts one after the other decides nothing more.             *)
(***************************************************************************)
EXTENDS Naturals, Sequences, FiniteSets

CONSTANT MaxFaults   \* bound on the things of the world that go wrong
ASSUME FaultAssumption == MaxFaults \in Nat

Guards   == {"operator", "supply"}
Channels == {1, 2}                         \* a supervisor accepts at most two
Handoffs == {"prepare", "reinspect"}
Ops      == Handoffs \cup {"finish", "wait"}

VARIABLES
  at,       \* where the supervisor is
  op,       \* the operation its caller has called
  slot,     \* the channel of that operation
  after,    \* what follows the current _wait
  edge,     \* which boundary of the operation: 1 before its effect, 2 before the reply
  guard,    \* the two observers, with their helper processes
  truth,    \* is the operator authorized, is the supply current (world)
  admitted, \* does the native admission hold (world)
  expired,  \* the common deadline has passed
  consent,  \* PlanConsent.phase
  voice,    \* the user's unread packet
  actor,    \* is the user's process alive
  chan,     \* channel phases, "none" before the caller makes them
  inputs,   \* channels whose received descriptors are still open
  kid,      \* the package worker at the other end of each channel
  ses,      \* RootSession.phase
  link,     \* the connection to the controller
  ctl,      \* the controller's side of it
  mail,     \* what the controller has sent and the supervisor not yet read
  fit,      \* history: was everything in order when this boundary began, and
            \* has nothing been done on the strength of it yet
  prepares, \* history: prepare-freeze requests ever sent
  shown,    \* history: channels whose descriptors the controller has verified
  replied   \* history: channels that were answered

super == <<at, op, slot, after, edge, fit>>
world == <<truth, admitted, expired>>
user  == <<consent, voice, actor>>
work  == <<chan, inputs, kid, replied>>
root  == <<ses, link, ctl, mail, prepares, shown>>
vars  == <<super, guard, world, user, work, root>>

GuardPhase   == {"NEW", "PENDING", "OBSERVED", "CLOSED"}
ConsentPhase == {"NEW", "OFFERED", "CONFIRMED", "CLOSED"}
ChanPhase    == {"none", "READY", "RECEIVED", "COMPLETE", "FAILED", "CLOSED"}
SesPhase     == {"NEW", "PREPARING", "HELD", "OBSERVING", "CLOSING", "ENDED", "FAILED", "CLOSED"}

Loop    == {"loop", "poll"}       \* inside _wait: before and in its poll
Working == Loop \cup {"receive", "checkpoint", "ask", "admit", "send", "answer",
                      "physical", "release", "reply"}
Closing == {"abort", "closeWork", "closeGuards"}

Open    == {c \in Channels : chan[c] \notin {"none", "CLOSED"}}

Init ==
  /\ at = "launch" /\ op = "none" /\ slot = 1 /\ after = "none" /\ edge = 1 /\ fit = FALSE
  /\ guard = [g \in Guards |-> [phase |-> "NEW", wire |-> "none", age |-> "due",
                                late |-> FALSE, alive |-> TRUE]]
  /\ truth = [g \in Guards |-> TRUE] /\ admitted = TRUE /\ expired = FALSE
  /\ consent = "NEW" /\ voice = "none" /\ actor = TRUE
  /\ chan = [c \in Channels |-> "none"] /\ inputs = {} /\ replied = {}
  /\ kid = [c \in Channels |-> "quiet"]
  /\ ses = "NEW" /\ link = "none" /\ ctl = "none" /\ mail = <<>>
  /\ prepares = 0 /\ shown = {}
-----------------------------------------------------------------------------
(* The world: time, authority, the user, the helpers, the workers.  Once the *)
(* supervisor is closing nothing looks at it any more.                       *)

Live == at \notin Closing \cup {"closed"}

One(broken) == IF broken THEN 1 ELSE 0
Faults == One(expired) + One(~admitted) + One(~actor) + One(voice = "noise")
          + Cardinality({g \in Guards : ~truth[g]}) + Cardinality({g \in Guards : ~guard[g].alive})
          + Cardinality({c \in Channels : kid[c] \in {"malformed", "cancel", "gone"}})
Fault == Live /\ Faults < MaxFaults

Expire == /\ ~expired /\ Fault
          /\ expired' = TRUE
          /\ UNCHANGED <<super, guard, truth, admitted, user, work, root>>

Withdraw(g) == /\ truth[g] /\ Fault
               /\ truth' = [truth EXCEPT ![g] = FALSE]
               /\ UNCHANGED <<super, guard, admitted, expired, user, work, root>>

Unadmit == /\ admitted /\ Fault
           /\ admitted' = FALSE
           /\ UNCHANGED <<super, guard, truth, expired, user, work, root>>

Ages(g) ==
  /\ Live
  /\ \/ /\ guard[g].phase = "OBSERVED" /\ guard[g].age # "stale"
        /\ guard' = [guard EXCEPT ![g].age = IF @ = "new" THEN "due" ELSE "stale"]
     \/ /\ guard[g].phase = "PENDING" /\ ~guard[g].late
        /\ guard' = [guard EXCEPT ![g].late = TRUE]
  /\ UNCHANGED <<super, world, user, work, root>>

\* The helper observes after it has been asked, and answers only what is true.
Helper(g) ==
  /\ guard[g].wire = "asked" /\ guard[g].alive /\ Live
  /\ guard' = IF truth[g] THEN [guard EXCEPT ![g].wire = "answered"]
                          ELSE [guard EXCEPT ![g].alive = FALSE]
  /\ UNCHANGED <<super, world, user, work, root>>

\* It ends, or writes what nobody asked for.
HelperEnds(g) ==
  /\ guard[g].alive /\ Fault
  /\ guard' = [guard EXCEPT ![g].alive = FALSE]
  /\ UNCHANGED <<super, world, user, work, root>>

\* The user's one packet (the confirmation, or anything else), and his exit.
Speak(word) == /\ voice = "none" /\ actor /\ Live
               /\ word = "noise" => Fault
               /\ voice' = word
               /\ UNCHANGED <<super, guard, world, consent, actor, work, root>>
Depart == /\ actor /\ Fault
          /\ actor' = FALSE
          /\ UNCHANGED <<super, guard, world, consent, voice, work, root>>

\* A worker's messages: its request with two descriptors (or a malformed one),
\* then only a cancellation; or its end.
Worker(c, deed) ==
  /\ kid[c] # "gone" /\ chan[c] # "none" /\ Live
  /\ deed # "request" => Fault
  /\ \/ deed \in {"request", "malformed"} /\ kid[c] = "quiet" /\ chan[c] = "READY"
     \/ deed = "cancel" /\ kid[c] = "quiet" /\ chan[c] \in {"RECEIVED", "COMPLETE"}
     \/ deed = "gone"
  /\ kid' = [kid EXCEPT ![c] = deed]
  /\ UNCHANGED <<super, guard, world, user, chan, inputs, replied, root>>
-----------------------------------------------------------------------------
(* The controller's end of the connection, as root_session.serve_session is *)
(* seen from here.                                                          *)

ControllerFrozen ==
  /\ ctl = "asked"
  /\ mail' = Append(mail, "frozen")
  /\ shown' = shown \cup {slot}
  /\ ctl' = "held"
  /\ UNCHANGED <<super, guard, world, user, work, ses, link, prepares>>

ControllerRefuses ==
  /\ ctl = "asked" \/ (ctl = "held" /\ expired)
  /\ mail' = mail \o <<"refused", "eof">>
  /\ ctl' = "gone"
  /\ UNCHANGED <<super, guard, world, user, work, ses, link, prepares, shown>>

\* It has sealed the bank after a close, or was killed.
ControllerEnds ==
  /\ ctl \in {"asked", "held", "closing"}
  /\ mail' = Append(mail, "eof")
  /\ ctl' = "gone"
  /\ UNCHANGED <<super, guard, world, user, work, ses, link, prepares, shown>>
-----------------------------------------------------------------------------
(* Launching: the consent handshake, then the supervisor's constructor. *)

Launching == at = "launch" /\ actor /\ ~expired

\* send_offer refuses a packet that is there before the offer.
SendOffer ==
  /\ Launching
  /\ consent = "NEW" /\ voice = "none"
  /\ consent' = "OFFERED"
  /\ UNCHANGED <<super, guard, world, voice, actor, work, root>>

ReceiveConfirmation ==
  /\ Launching
  /\ consent = "OFFERED" /\ voice = "confirm"
  /\ consent' = "CONFIRMED"
  /\ voice' = "none"
  /\ UNCHANGED <<super, guard, world, actor, work, root>>

Construct ==
  /\ Launching
  /\ consent = "CONFIRMED" /\ voice = "none"
  /\ at' = "idle"
  /\ UNCHANGED <<op, slot, after, edge, fit, guard, world, user, work, root>>

\* Any of the three raises: the launcher releases what it has made.
LaunchFails ==
  /\ at = "launch"
  /\ at' = "closed"
  /\ consent' = "CLOSED" /\ ses' = "CLOSED"
  /\ guard' = [g \in Guards |-> [guard[g] EXCEPT !.phase = "CLOSED", !.alive = FALSE]]
  /\ UNCHANGED <<op, slot, after, edge, fit, world, voice, actor, work,
                 link, ctl, mail, prepares, shown>>
-----------------------------------------------------------------------------
(* _current and _wait. *)

Heard(c) == chan[c] \in {"RECEIVED", "COMPLETE"}

Bug_IgnoresDeadline ==
  /\ ses \notin {"ENDED", "FAILED", "CLOSED"}
  /\ consent = "CONFIRMED" /\ voice = "none" /\ actor
  /\ \A g \in Guards : /\ guard[g].phase # "CLOSED" /\ guard[g].alive
                       /\ guard[g].phase = "PENDING" => ~guard[g].late
  /\ \A c \in Open : /\ kid[c] # "gone"
                     /\ chan[c] = "READY" \/ (Heard(c) /\ kid[c] = "quiet")
  /\ admitted

Bug_TrustsConsent ==
  /\ ~expired
  /\ ses \notin {"ENDED", "FAILED", "CLOSED"}
  /\ consent = "CONFIRMED"
  /\ \A g \in Guards : /\ guard[g].phase # "CLOSED" /\ guard[g].alive
                       /\ guard[g].phase = "PENDING" => ~guard[g].late
  /\ \A c \in Open : /\ kid[c] # "gone"
                     /\ chan[c] = "READY" \/ (Heard(c) /\ kid[c] = "quiet")
  /\ admitted

Current ==
  /\ ~expired
  /\ ses \notin {"ENDED", "FAILED", "CLOSED"}
  /\ consent = "CONFIRMED" /\ voice = "none" /\ actor
  /\ \A g \in Guards : /\ guard[g].phase # "CLOSED" /\ guard[g].alive
                       /\ guard[g].phase = "PENDING" => ~guard[g].late
  /\ \A c \in Open : /\ kid[c] # "gone"
                     /\ chan[c] = "READY" \/ (Heard(c) /\ kid[c] = "quiet")
  /\ admitted

\* A statement of the supervisor, from one place to the next.
Goto(from, to) == at = from /\ at' = to
Stay == UNCHANGED <<op, slot, after, edge, fit>>

\* An exception in any of them closes the supervisor.  Only a bare `_current'
\* fails for the reasons `Current' names and no other.
Fails ==
  /\ at \in Working
  /\ at \in {"loop", "checkpoint"} => ~Current
  /\ at' = "abort"
  /\ ses' = IF at \in {"send", "answer"} THEN "FAILED" ELSE ses
  /\ chan' = IF at \in {"receive", "release", "reply"} THEN [chan EXCEPT ![slot] = "FAILED"] ELSE chan
  /\ inputs' = IF at \in {"receive", "release"} THEN inputs \ {slot} ELSE inputs
  /\ Stay
  /\ UNCHANGED <<guard, world, user, kid, replied, link, ctl, mail, prepares, shown>>

\* Call _wait, then go on at `next'.
Wait(next) == at' = "loop" /\ after' = next

Ask(g) == [guard[g] EXCEPT !.phase = "PENDING", !.wire = "asked", !.late = FALSE,
                              !.age = "due"]
Observed(g) == [guard[g] EXCEPT !.phase = "OBSERVED", !.wire = "none", !.age = "new"]

\* _operator and _supply: take an answer, or ask when the last one is due.
Tended(g) == CASE guard[g].phase = "PENDING" /\ guard[g].wire = "answered" -> Observed(g)
               [] guard[g].phase \in {"NEW", "OBSERVED"} /\ guard[g].age # "new" -> Ask(g)
               [] OTHER -> guard[g]

\* A turn of the loop up to its poll.  What happens meanwhile may as well have
\* happened just before, or is noticed by the next `_current'.
Tend ==
  /\ Goto("loop", "poll") /\ Stay
  /\ Current
  /\ guard' = [g \in Guards |-> Tended(g)]
  /\ UNCHANGED <<world, user, work, root>>

\* What a wait is for: two fresh observations, ...
BothObserved == after \in {"ask", "admit"} /\ \A g \in Guards : guard[g].phase = "OBSERVED"

\* ... a worker's packet, the controller, or a descriptor of the caller's that
\* may be readable at any time.
TargetReady == \/ after = "receive" /\ kid[slot] # "quiet"
               \/ after = "answer" /\ mail # <<>>
               \/ after = "idle"

WaitEnds ==
  /\ at = "poll"
  /\ BothObserved \/ TargetReady
  /\ Current
  /\ at' = after /\ after' = "none"
  /\ op' = IF after = "idle" THEN "none" ELSE op
  /\ UNCHANGED <<slot, edge, fit, guard, world, user, work, root>>

\* The controller has nothing to say unless it is asked.
WaitOn ==
  /\ Goto("poll", "loop") /\ Stay
  /\ Current /\ ~BothObserved
  /\ after = "answer" \/ mail = <<>>
  /\ UNCHANGED <<guard, world, user, work, root>>
-----------------------------------------------------------------------------
(* The operations. *)

\* The caller hands over a channel in READY: prepare, or reinspect, whose scope
\* names the root that the session holds.
Start(o, c) ==
  /\ at = "idle"
  /\ chan[c] = "none" /\ \A d \in Channels : d < c => chan[d] # "none"
  /\ o = "reinspect" => ses = "HELD"
  /\ op' = o /\ slot' = c /\ edge' = 1
  /\ chan' = [chan EXCEPT ![c] = "READY"]
  /\ Wait("receive")
  /\ UNCHANGED <<fit, guard, world, user, inputs, kid, replied, root>>

StartFinish ==
  /\ Goto("idle", "checkpoint")
  /\ op' = "finish" /\ edge' = 1
  /\ UNCHANGED <<slot, after, fit, guard, world, user, work, root>>

\* wait_readable: the caller has something else to wait for.
StartWait ==
  /\ at = "idle"
  /\ op' = "wait"
  /\ Wait("idle")
  /\ UNCHANGED <<slot, edge, fit, guard, world, user, work, root>>

\* A wrong phase or scope is refused like any other error.
StartRefused(o) ==
  /\ at = "idle"
  /\ op' = o
  /\ at' = "abort"
  /\ UNCHANGED <<slot, after, edge, fit, guard, world, user, work, root>>

\* Channel.receive: the first packet must be the scope with two descriptors,
\* and nothing may follow it.
Receive ==
  /\ Goto("receive", "checkpoint") /\ Stay
  /\ kid[slot] = "request" /\ ~expired
  /\ chan' = [chan EXCEPT ![slot] = "RECEIVED"]
  /\ inputs' = inputs \cup {slot}
  /\ kid' = [kid EXCEPT ![slot] = "quiet"]
  /\ UNCHANGED <<guard, world, user, replied, root>>

\* Everything the next effect depends on, as of now.
Fit == /\ \A g \in Guards : truth[g]
       /\ admitted /\ ~expired /\ voice = "none" /\ actor
       /\ \A c \in Open : kid[c] = "quiet"

Bug_PendingIsFresh ==
  /\ at = "checkpoint"
  /\ Current
  /\ fit' = Fit
  /\ IF \E g \in Guards : guard[g].phase = "PENDING"
     THEN Wait("admit")
     ELSE at' = "ask" /\ after' = after
  /\ UNCHANGED <<op, slot, edge, guard, world, user, work, root>>

\* A check that is already pending is not the boundary's own: wait it out.
Checkpoint ==
  /\ at = "checkpoint"
  /\ Current
  /\ fit' = Fit
  /\ IF \E g \in Guards : guard[g].phase = "PENDING"
     THEN Wait("ask")
     ELSE at' = "ask" /\ after' = after
  /\ UNCHANGED <<op, slot, edge, guard, world, user, work, root>>

AskBoth ==
  /\ at = "ask"
  /\ \A g \in Guards : guard[g].phase # "PENDING" /\ guard[g].alive
  /\ ~expired /\ voice = "none" /\ actor
  /\ guard' = [g \in Guards |-> Ask(g)]
  /\ Wait("admit")
  /\ UNCHANGED <<op, slot, edge, fit, world, user, work, root>>

\* _effect_current: both observations at most 1000 ms old.
EffectCurrent == Current /\ \A g \in Guards : guard[g].phase = "OBSERVED" /\ guard[g].age # "stale"

Admit ==
  /\ at = "admit"
  /\ EffectCurrent
  /\ at' = IF edge = 1 THEN "send" ELSE "physical"
  /\ Stay
  /\ UNCHANGED <<guard, world, user, work, root>>

\* What the controller makes of a request.
Told == /\ ctl' = CASE op \in Handoffs /\ ctl \in {"none", "held"} -> "asked"
                     [] op = "finish" /\ ctl = "held" -> "closing"
                     [] OTHER -> ctl
        /\ prepares' = prepares + (IF op = "prepare" THEN 1 ELSE 0)

Bug_PrepareAgain ==
  /\ at = "send" /\ Wait("answer")
  /\ ~expired
  /\ \/ op = "prepare" /\ ses \in {"NEW", "HELD"} /\ ses' = "PREPARING" /\ link' = "open"
     \/ op = "reinspect" /\ ses = "HELD" /\ ses' = "OBSERVING" /\ link' = link
     \/ op = "finish" /\ ses = "HELD" /\ ses' = "CLOSING" /\ link' = link
  /\ Told /\ fit' = FALSE
  /\ UNCHANGED <<op, slot, edge, guard, world, user, work, mail, shown>>

\* RootSession.prepare, observe and finish: one request, in order.
Send ==
  /\ at = "send" /\ Wait("answer")
  /\ ~expired
  /\ \/ op = "prepare" /\ ses = "NEW" /\ ses' = "PREPARING" /\ link' = "open"
     \/ op = "reinspect" /\ ses = "HELD" /\ ses' = "OBSERVING" /\ link' = link
     \/ op = "finish" /\ ses = "HELD" /\ ses' = "CLOSING" /\ link' = link
  /\ Told /\ fit' = FALSE
  /\ UNCHANGED <<op, slot, edge, guard, world, user, work, mail, shown>>

Bug_AnyMessageIsEvidence ==
  /\ at = "answer"
  /\ mail # <<>> /\ ~expired
  /\ mail' = Tail(mail)
  /\ \/ /\ ses \in {"PREPARING", "OBSERVING"}
        /\ ses' = "HELD" /\ edge' = 2 /\ at' = "checkpoint"
     \/ /\ Head(mail) = "eof" /\ ses = "CLOSING"
        /\ ses' = "ENDED" /\ edge' = edge /\ at' = "abort"
  /\ UNCHANGED <<op, slot, after, fit, guard, world, user, work, link, ctl, prepares, shown>>

\* RootSession.receive: the frozen evidence, checked physically, or the
\* controller's end of file after a close.
Answer ==
  /\ at = "answer"
  /\ mail # <<>> /\ ~expired
  /\ mail' = Tail(mail)
  /\ \/ /\ Head(mail) = "frozen" /\ ses \in {"PREPARING", "OBSERVING"}
        /\ ses' = "HELD" /\ edge' = 2 /\ at' = "checkpoint"
     \/ /\ Head(mail) = "eof" /\ ses = "CLOSING"
        /\ ses' = "ENDED" /\ edge' = edge /\ at' = "abort"
  /\ UNCHANGED <<op, slot, after, fit, guard, world, user, work, link, ctl, prepares, shown>>

\* Its own look at the root, then once more the age of the authority.
Physical ==
  /\ Goto("physical", "release") /\ Stay
  /\ EffectCurrent
  /\ UNCHANGED <<guard, world, user, work, root>>

\* Channel.complete: the inputs are released before anything is answered.
Release ==
  /\ Goto("release", "reply") /\ Stay
  /\ inputs' = inputs \ {slot}
  /\ UNCHANGED <<guard, world, user, chan, kid, replied, root>>

Reply ==
  /\ Goto("reply", "idle")
  /\ kid[slot] = "quiet" /\ ~expired
  /\ chan' = [chan EXCEPT ![slot] = "COMPLETE"]
  /\ replied' = replied \cup {slot}
  /\ op' = "none" /\ fit' = FALSE
  /\ UNCHANGED <<slot, after, edge, guard, world, user, inputs, kid, root>>
-----------------------------------------------------------------------------
(* close: the controller first, the observers last. *)

\* The owner leaves its with block.
Exit == /\ Goto("idle", "abort")
        /\ op' = "finish"
        /\ UNCHANGED <<slot, after, edge, fit, guard, world, user, work, root>>

Bug_AbortKeepsLink ==
  /\ Goto("abort", "closeWork") /\ Stay
  /\ ses' = "CLOSED"
  /\ UNCHANGED <<guard, world, user, work, link, ctl, mail, prepares, shown>>

Abort ==
  /\ Goto("abort", "closeWork") /\ Stay
  /\ ses' = "CLOSED"
  /\ link' = IF link = "open" THEN "closed" ELSE link
  /\ ctl' = IF ctl = "none" THEN "none" ELSE "gone"
  /\ mail' = <<>>
  /\ UNCHANGED <<guard, world, user, work, prepares, shown>>

CloseWork ==
  /\ Goto("closeWork", "closeGuards") /\ Stay
  /\ chan' = [c \in Channels |-> IF c \in Open THEN "CLOSED" ELSE chan[c]]
  /\ inputs' = {}
  /\ consent' = "CLOSED"
  /\ UNCHANGED <<guard, world, voice, actor, kid, replied, root>>

\* The helpers are killed and awaited for up to five seconds each.
CloseGuards ==
  /\ Goto("closeGuards", "closed")
  /\ guard' = [g \in Guards |-> [guard[g] EXCEPT !.phase = "CLOSED", !.alive = FALSE, !.wire = "none"]]
  /\ op' = "none"
  /\ UNCHANGED <<slot, after, edge, fit, world, user, work, root>>
-----------------------------------------------------------------------------
World == \/ Expire \/ Unadmit \/ Depart
         \/ \E g \in Guards : Withdraw(g) \/ Ages(g) \/ Helper(g) \/ HelperEnds(g)
         \/ \E w \in {"confirm", "noise"} : Speak(w)
         \/ \E c \in Channels, d \in {"request", "malformed", "cancel", "gone"} : Worker(c, d)

Controller == ControllerFrozen \/ ControllerRefuses \/ ControllerEnds

Launch == SendOffer \/ ReceiveConfirmation \/ Construct \/ LaunchFails

Waiting == Tend \/ WaitEnds \/ WaitOn

Call == \/ (\E o \in Handoffs, c \in Channels : Start(o, c)) \/ StartFinish \/ StartWait \/ Exit
        \/ (\E o \in Handoffs : StartRefused(o))

Operation == Receive \/ Checkpoint \/ AskBoth \/ Admit \/ Send \/ Answer
             \/ Physical \/ Release \/ Reply

Close == Abort \/ CloseWork \/ CloseGuards

Next == World \/ Controller \/ Launch \/ Waiting \/ Call \/ Operation \/ Fails \/ Close

Spec == Init /\ [][Next]_vars

\* The supervisor's thread runs.  Nothing is assumed of anyone else.
Fairness == WF_vars(Waiting \/ Operation \/ Fails \/ Close)
FairSpec == Spec /\ Fairness
=============================================================================
