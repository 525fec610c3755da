----------------------- MODULE RootSupervisor_proofs -----------------------
(***************************************************************************)
(* What is proved of the root supervisor: its types, and each of the       *)
(* safety properties of RootSupervisorProps, for every number of faults.   *)
(*                                                                         *)
(* The invariant says, place by place, what the supervisor may rely on:    *)
(* who still watches while the controller can hear it, what the mail       *)
(* holds, in which phase the channel of the operation is, and why an       *)
(* effect cannot come after authority was lost.                            *)
(***************************************************************************)
EXTENDS RootSupervisorProps, SequenceTheorems, TLAPS

\* The supervisor is in a place or waits to go on there.
Bound(place) == at = place \/ (at \in Loop /\ after = place)

Up == at = "idle" \/ at = "abort" \/ at \in Working

\* Before the constructor nothing exists; after the first step of close nobody
\* is at the other end of the connection.
Watched ==
  /\ at = "launch" => /\ consent # "CLOSED" /\ ctl = "none"
                      /\ \A g \in Guards : guard[g].phase = "NEW"
                      /\ \A c \in Channels : chan[c] = "none"
  /\ Up => /\ consent = "CONFIRMED"
           /\ \A g \in Guards : guard[g].phase # "CLOSED"
           /\ \A c \in Channels : chan[c] # "CLOSED"
  /\ ~Up => link # "open" /\ ctl \in {"none", "gone"}

\* What the controller can have said, by where it is.
Letters ==
  /\ ctl \in {"none", "asked", "closing"} => mail = <<>>
  /\ ctl = "held" => mail \in {<<>>, <<"frozen">>}
  /\ ctl = "gone" => mail \in {<<>>, <<"eof">>, <<"refused", "eof">>, <<"frozen", "eof">>,
                               <<"frozen", "refused", "eof">>}

Unread == mail # <<>> /\ Head(mail) = "frozen"

\* An unread answer, and a request without one, are about the channel of the
\* operation in progress; once the answer is taken that channel has been shown.
Evidence ==
  /\ Unread \/ ctl = "asked" => Bound("answer") \/ at = "abort"
  /\ Unread => slot \in shown
  /\ edge = 2 /\ (\E p \in {"checkpoint", "ask", "admit"} : Bound(p)) =>
       op \in Handoffs /\ slot \in shown
  /\ at \in {"physical", "release", "reply"} => op \in Handoffs /\ slot \in shown
  /\ Bound("answer") /\ ses \in {"PREPARING", "OBSERVING"} => op \in Handoffs

\* One preparation: the session leaves NEW with the request.
Once == prepares <= 1 /\ (ses = "NEW" => prepares = 0)

\* The channel of the operation, from the hand-over to the answer.
Channelled ==
  /\ Bound("receive") => op \in Handoffs /\ edge = 1 /\ chan[slot] = "READY"
  /\ op \in Handoffs /\ (\/ \E p \in {"checkpoint", "ask", "admit", "answer"} : Bound(p)
                         \/ at \in {"send", "physical", "release", "reply"})
       => chan[slot] = "RECEIVED"
  /\ at = "reply" => slot \notin inputs
  /\ \A c \in replied : chan[c] \in {"COMPLETE", "CLOSED"} /\ c \in shown
  /\ at = "idle" \/ at \in Working =>
       \A c \in Channels : /\ chan[c] # "FAILED"
                           /\ chan[c] = "READY" => Bound("receive") /\ slot = c

\* Authority lost before a boundary began is still lost: it stops the boundary at
\* an observation that its helper will never answer.
Lost == \E g \in Guards : ~truth[g]
Unanswerable == \E g \in Guards : /\ ~truth[g] /\ guard[g].phase = "PENDING"
                                  /\ guard[g].wire # "answered"
Strength ==
  /\ Bound("ask") => fit \/ Lost
  /\ Bound("admit") => fit \/ Unanswerable
  /\ at \in {"send", "physical", "release", "reply"} => fit

IInv == TypeOK /\ Watched /\ Letters /\ Evidence /\ Once /\ Channelled /\ Strength
-----------------------------------------------------------------------------
(* The cases of a step. *)

LEMMA NextCases ==
  ASSUME [Next]_vars
  PROVE  \/ World \/ UNCHANGED vars
         \/ ControllerFrozen \/ ControllerRefuses \/ ControllerEnds
         \/ SendOffer \/ ReceiveConfirmation \/ Construct \/ LaunchFails
         \/ Tend \/ WaitEnds \/ WaitOn
         \/ (\E o \in Handoffs, c \in Channels : Start(o, c)) \/ StartFinish \/ StartWait \/ Exit
         \/ (\E o \in Handoffs : StartRefused(o))
         \/ Receive \/ Checkpoint \/ AskBoth \/ Admit \/ Send \/ Answer
         \/ Physical \/ Release \/ Reply \/ Fails \/ Abort \/ CloseWork \/ CloseGuards
BY DEF Next, Controller, Launch, Waiting, Call, Operation, Close

\* A step of the world leaves the supervisor's own state alone; what it changes
\* of the observers is never a phase, and no helper answers for what is lost.
LEMMA WorldEffect ==
  ASSUME TypeOK, World \/ UNCHANGED vars
  PROVE  /\ UNCHANGED <<super, consent, chan, inputs, replied, root>>
         /\ \A g \in Guards : guard'[g].phase = guard[g].phase
         /\ \A g \in Guards : ~truth[g] => ~truth'[g]
         /\ \A g \in Guards : guard[g].wire # "answered" /\ ~truth[g] => guard'[g].wire # "answered"
<1> USE DEF TypeOK, GuardType, WorldType, super, user, work, root, world
<1>1. CASE UNCHANGED vars
  BY <1>1 DEF vars
<1>2. CASE Expire \/ Unadmit \/ Depart
  BY <1>2 DEF Expire, Unadmit, Depart
<1>3. ASSUME NEW g \in Guards, Withdraw(g) PROVE /\ UNCHANGED <<super, consent, chan, inputs, replied, root, guard>>
                                              /\ \A h \in Guards : ~truth[h] => ~truth'[h]
  BY <1>3 DEF Withdraw
<1>4. ASSUME NEW g \in Guards, Ages(g) \/ Helper(g) \/ HelperEnds(g)
      PROVE  /\ UNCHANGED <<super, consent, chan, inputs, replied, root, truth>>
             /\ \A h \in Guards : guard'[h].phase = guard[h].phase
             /\ \A h \in Guards : guard[h].wire # "answered" /\ ~truth[h] => guard'[h].wire # "answered"
  BY <1>4 DEF Ages, Helper, HelperEnds
<1>5. ASSUME NEW w \in {"confirm", "noise"}, Speak(w)
      PROVE UNCHANGED <<super, consent, chan, inputs, replied, root, guard, truth>>
  BY <1>5 DEF Speak
<1>6. ASSUME NEW c \in Channels, NEW d \in {"request", "malformed", "cancel", "gone"}, Worker(c, d)
      PROVE UNCHANGED <<super, consent, chan, inputs, replied, root, guard, truth>>
  BY <1>6 DEF Worker
<1> QED
  BY <1>1, <1>2, <1>3, <1>4, <1>5, <1>6 DEF World
-----------------------------------------------------------------------------
(* Types. *)

LEMMA Initially == Init => IInv
<1> SUFFICES ASSUME Init PROVE IInv
  OBVIOUS
<1> USE DEF Init
<1>1. SuperType /\ GuardType /\ WorldType
  BY DEF SuperType, GuardType, WorldType, Working, Loop, Closing, Ops, Handoffs, Channels,
         GuardPhase, ConsentPhase
<1>4. WorkType /\ RootType /\ \A c \in inputs : chan[c] \in {"RECEIVED", "FAILED"}
  BY DEF WorkType, RootType, ChanPhase, SesPhase
<1>2. Watched /\ Letters /\ Once /\ Strength
  BY DEF Watched, Letters, Once, Strength, Up, Working, Loop, Bound
<1>3. Evidence /\ Channelled
  BY DEF Evidence, Channelled, Bound, Unread, Loop, Working
<1> QED
  BY <1>1, <1>2, <1>3, <1>4 DEF IInv, TypeOK

LEMMA SuperTypeStep == TypeOK /\ [Next]_vars => SuperType'
<1> SUFFICES ASSUME TypeOK, [Next]_vars PROVE SuperType'
  OBVIOUS
<1> USE DEF TypeOK, SuperType, Working, Loop, Closing, Ops, Handoffs, Channels
<1>1. CASE World \/ UNCHANGED vars
  BY <1>1, WorldEffect DEF super
<1>2. CASE ControllerFrozen \/ ControllerRefuses \/ ControllerEnds \/ SendOffer \/ ReceiveConfirmation
  BY <1>2 DEF ControllerFrozen, ControllerRefuses, ControllerEnds, SendOffer, ReceiveConfirmation, super
<1>3. CASE Construct \/ LaunchFails \/ Exit \/ StartFinish \/ StartWait \/ (\E o \in Handoffs : StartRefused(o))
  BY <1>3 DEF Construct, LaunchFails, Exit, StartFinish, StartWait, StartRefused, Goto, Wait
<1>4. CASE \E o \in Handoffs, c \in Channels : Start(o, c)
  BY <1>4 DEF Start, Wait
<1>5. CASE Tend \/ WaitOn \/ Receive \/ Physical \/ Release \/ Admit
  BY <1>5 DEF Tend, WaitOn, Receive, Physical, Release, Admit, Goto, Stay
<1>6. CASE WaitEnds
  BY <1>6 DEF WaitEnds, BothObserved, TargetReady
<1>7. CASE Checkpoint
  <2>1. fit' \in BOOLEAN
    BY <1>7 DEF Checkpoint, Fit
  <2> QED
    BY <1>7, <2>1 DEF Checkpoint, Wait
<1>8. CASE AskBoth \/ Send \/ Answer \/ Reply
  BY <1>8 DEF AskBoth, Send, Answer, Reply, Wait, Goto
<1>9. CASE Fails \/ Abort \/ CloseWork \/ CloseGuards
  BY <1>9 DEF Fails, Abort, CloseWork, CloseGuards, Goto, Stay
<1> QED
  BY <1>1, <1>2, <1>3, <1>4, <1>5, <1>6, <1>7, <1>8, <1>9, NextCases

Observer == [phase : GuardPhase, wire : {"none", "asked", "answered"},
             age : {"new", "due", "stale"}, late : BOOLEAN, alive : BOOLEAN]

LEMMA GuardTypeStep == TypeOK /\ [Next]_vars => GuardType'
<1> SUFFICES ASSUME TypeOK, [Next]_vars PROVE GuardType'
  OBVIOUS
<1> USE DEF TypeOK, GuardType, GuardPhase
<1>1. CASE UNCHANGED guard
  BY <1>1
<1>2. ASSUME NEW g \in Guards, Ages(g) \/ Helper(g) \/ HelperEnds(g) PROVE GuardType'
  <2>1. CASE Ages(g)
    BY <2>1 DEF Ages
  <2>2. CASE Helper(g)
    <3>1. guard' = [guard EXCEPT ![g].wire = "answered"] \/ guard' = [guard EXCEPT ![g].alive = FALSE]
      BY <2>2 DEF Helper
    <3> QED
      BY <3>1
  <2>3. CASE HelperEnds(g)
    BY <2>3 DEF HelperEnds
  <2> QED
    BY <1>2, <2>1, <2>2, <2>3
<1>3. CASE World
  BY <1>1, <1>2, <1>3 DEF World, Expire, Unadmit, Depart, Withdraw, Speak, Worker
<1>4. CASE Tend \/ AskBoth
  <2>1. ASSUME NEW g \in Guards
        PROVE  Ask(g) \in Observer /\ Observed(g) \in Observer /\ Tended(g) \in Observer
    BY DEF Ask, Observed, Tended, Observer
  <2> QED
    BY <1>4, <2>1 DEF Tend, AskBoth, Observer
<1>5. CASE LaunchFails \/ CloseGuards
  <2>1. ASSUME NEW g \in Guards PROVE guard'[g] \in Observer
    <3>1. CASE LaunchFails
      BY <3>1 DEF LaunchFails, Observer
    <3>2. CASE CloseGuards
      BY <3>2 DEF CloseGuards, Observer
    <3> QED
      BY <1>5, <3>1, <3>2
  <2>2. guard' = [g \in Guards |-> guard'[g]]
    BY <1>5 DEF LaunchFails, CloseGuards
  <2> QED
    BY <2>1, <2>2 DEF Observer
<1> QED
  BY <1>1, <1>3, <1>4, <1>5, NextCases
     DEF vars, ControllerFrozen, ControllerRefuses, ControllerEnds, SendOffer, ReceiveConfirmation,
         Construct, WaitEnds, WaitOn, Start, StartFinish, StartWait, Exit, StartRefused, Receive,
         Checkpoint, Admit, Send, Answer, Physical, Release, Reply, Fails, Abort, CloseWork

LEMMA WorldTypeStep == TypeOK /\ [Next]_vars => WorldType'
<1> SUFFICES ASSUME TypeOK, [Next]_vars PROVE WorldType'
  OBVIOUS
<1> USE DEF TypeOK, WorldType, ConsentPhase, world, user
<1>1. CASE UNCHANGED <<world, user>>
  BY <1>1
<1>2. CASE World
  BY <1>2 DEF World, Expire, Unadmit, Depart, Withdraw, Ages, Helper, HelperEnds, Speak, Worker
<1>3. CASE SendOffer \/ ReceiveConfirmation \/ LaunchFails \/ CloseWork
  BY <1>3 DEF SendOffer, ReceiveConfirmation, LaunchFails, CloseWork
<1> QED
  BY <1>1, <1>2, <1>3, NextCases
     DEF vars, ControllerFrozen, ControllerRefuses, ControllerEnds, Construct, Tend, AskBoth,
         CloseGuards, WaitEnds, WaitOn, Start, StartFinish, StartWait, Exit, StartRefused, Receive,
         Checkpoint, Admit, Send, Answer, Physical, Release, Reply, Fails, Abort

LEMMA WorkTypeStep == TypeOK /\ [Next]_vars => WorkType'
<1> SUFFICES ASSUME TypeOK, [Next]_vars PROVE WorkType'
  OBVIOUS
<1> USE DEF TypeOK, WorkType, ChanPhase, SuperType, work
<1>1. CASE UNCHANGED work
  BY <1>1
<1>2. CASE World
  <2>1. ASSUME NEW c \in Channels, NEW d \in {"request", "malformed", "cancel", "gone"}, Worker(c, d)
        PROVE WorkType'
    BY <2>1 DEF Worker
  <2> QED
    BY <1>1, <1>2, <2>1 DEF World, Expire, Unadmit, Depart, Withdraw, Ages, Helper, HelperEnds, Speak
<1>3. CASE \E o \in Handoffs, c \in Channels : Start(o, c)
  BY <1>3 DEF Start
<1>4. CASE Receive \/ Release \/ Reply \/ Fails
  BY <1>4 DEF Receive, Release, Reply, Fails
<1>5. CASE CloseWork
  BY <1>5 DEF CloseWork
<1> QED
  BY <1>1, <1>2, <1>3, <1>4, <1>5, NextCases
     DEF vars, ControllerFrozen, ControllerRefuses, ControllerEnds, SendOffer, ReceiveConfirmation,
         Construct, LaunchFails, Tend, AskBoth, CloseGuards, WaitEnds, WaitOn, StartFinish,
         StartWait, Exit, StartRefused, Checkpoint, Admit, Send, Answer, Physical, Abort

\* The mail, message by message.
Words == {"frozen", "refused", "eof"}

LEMMA FrozenRefused == <<"frozen">> \o <<"refused", "eof">> = <<"frozen", "refused", "eof">>
<1> DEFINE s == <<"frozen">> \o <<"refused", "eof">>
           t == <<"frozen", "refused", "eof">>
<1>1. s \in Seq(Words) /\ t \in Seq(Words) /\ Len(s) = 3 /\ Len(t) = 3
  BY DEF Words
<1>2. s[1] = t[1] /\ s[2] = t[2] /\ s[3] = t[3]
  OBVIOUS
<1> HIDE DEF s, t
<1>3. s = t
  BY <1>1, <1>2, SeqEqual
<1> QED
  BY <1>3 DEF s, t

LEMMA FrozenEnded == Append(<<"frozen">>, "eof") = <<"frozen", "eof">>
<1> DEFINE s == Append(<<"frozen">>, "eof")
           t == <<"frozen", "eof">>
<1>1. s \in Seq(Words) /\ t \in Seq(Words) /\ Len(s) = 2 /\ Len(t) = 2
  BY DEF Words
<1>2. s[1] = t[1] /\ s[2] = t[2]
  OBVIOUS
<1> HIDE DEF s, t
<1>3. s = t
  BY <1>1, <1>2, SeqEqual
<1> QED
  BY <1>3 DEF s, t

LEMMA MailBag ==
  /\ <<>> \o <<"refused", "eof">> = <<"refused", "eof">>
  /\ Append(<<>>, "frozen") = <<"frozen">> /\ Append(<<>>, "eof") = <<"eof">>
  /\ Tail(<<"frozen">>) = <<>> /\ Tail(<<"eof">>) = <<>>
  /\ Tail(<<"refused", "eof">>) = <<"eof">> /\ Tail(<<"frozen", "eof">>) = <<"eof">>
  /\ Tail(<<"frozen", "refused", "eof">>) = <<"refused", "eof">>
  /\ Head(<<"frozen">>) = "frozen" /\ Head(<<"eof">>) = "eof" /\ Head(<<"refused", "eof">>) = "refused"
  /\ Head(<<"frozen", "eof">>) = "frozen" /\ Head(<<"frozen", "refused", "eof">>) = "frozen"
OBVIOUS

LEMMA AtMostThree == ASSUME NEW n, n = 0 \/ n = 1 \/ n = 2 \/ n = 3 PROVE n <= 3
OBVIOUS

\* Nothing else is ever in the mail, and it is never more than three messages.
LEMMA MailWords ==
  ASSUME NEW m \in {<<>>, <<"frozen">>, <<"eof">>, <<"refused", "eof">>, <<"frozen", "eof">>,
                    <<"frozen", "refused", "eof">>}
  PROVE  m \in Seq({"frozen", "refused", "eof"}) /\ Len(m) <= 3
<1>1. <<>> \in Seq(Words) /\ <<"frozen">> \in Seq(Words) /\ <<"eof">> \in Seq(Words)
  BY DEF Words
<1>2. <<"refused", "eof">> \in Seq(Words) /\ <<"frozen", "eof">> \in Seq(Words)
  BY DEF Words
<1>3. <<"frozen", "refused", "eof">> \in Seq(Words)
  BY DEF Words
<1>4. /\ Len(<<>>) = 0 /\ Len(<<"frozen">>) = 1 /\ Len(<<"eof">>) = 1
      /\ Len(<<"refused", "eof">>) = 2 /\ Len(<<"frozen", "eof">>) = 2
      /\ Len(<<"frozen", "refused", "eof">>) = 3
  OBVIOUS
<1>5. m \in Seq(Words)
  BY <1>1, <1>2, <1>3
<1>6. Len(m) = 0 \/ Len(m) = 1 \/ Len(m) = 2 \/ Len(m) = 3
  BY <1>4, Zenon
<1>7. Len(m) <= 3
  BY <1>6, AtMostThree, Zenon
<1> QED
  BY <1>5, <1>7, Zenon DEF Words

LEMMA LettersStep == IInv /\ [Next]_vars => Letters'
<1> SUFFICES ASSUME IInv, [Next]_vars PROVE Letters'
  OBVIOUS
<1> USE DEF IInv, Letters
<1>1. CASE World \/ UNCHANGED vars
  BY <1>1, WorldEffect DEF root
<1>2. CASE ControllerFrozen \/ ControllerRefuses \/ ControllerEnds
  BY <1>2, MailBag, FrozenRefused, FrozenEnded DEF ControllerFrozen, ControllerRefuses, ControllerEnds
<1>3. CASE Send
  <2>1. at = "send" /\ mail' = mail
    BY <1>3 DEF Send
  <2>2. ctl = "held" => mail = <<>>
    BY <2>1, MailBag DEF Evidence, Unread, Bound, Loop
  <2>3. ctl' \in {ctl, "asked", "closing"} /\ (ctl' # ctl => ctl \in {"none", "held"})
    BY <1>3 DEF Send, Told
  <2> QED
    BY <2>1, <2>2, <2>3
<1>4. CASE Answer
  <2>1. mail # <<>> /\ mail' = Tail(mail) /\ ctl' = ctl
    BY <1>4 DEF Answer
  <2>2. mail \in {<<"frozen">>, <<"eof">>, <<"refused", "eof">>, <<"frozen", "eof">>,
                  <<"frozen", "refused", "eof">>} /\ ctl \in {"held", "gone"}
    BY <2>1 DEF TypeOK, RootType
  <2> QED
    BY <2>1, <2>2, MailBag
<1>5. CASE Abort
  BY <1>5 DEF Abort
<1> QED
  BY <1>1, <1>2, <1>3, <1>4, <1>5, NextCases
     DEF root, SendOffer, ReceiveConfirmation, Construct, LaunchFails, Tend, AskBoth, CloseGuards,
         WaitEnds, WaitOn, Start, StartFinish, StartWait, Exit, StartRefused, Receive, Checkpoint,
         Admit, Physical, Release, Reply, Fails, CloseWork

LEMMA RootTypeStep == IInv /\ [Next]_vars => RootType'
<1> SUFFICES ASSUME IInv, [Next]_vars PROVE RootType'
  OBVIOUS
<1> USE DEF IInv, TypeOK, RootType, SesPhase
<1>0. mail' \in Seq({"frozen", "refused", "eof"}) /\ Len(mail') <= 3
  <2>1. Letters'
    BY LettersStep
  <2>2. ctl' \in {"none", "asked", "held", "closing", "gone"}
    <3>1. CASE World \/ UNCHANGED vars
      BY <3>1, WorldEffect DEF root
    <3>2. CASE Send
      BY <3>2 DEF Send, Told
    <3>3. CASE ControllerFrozen \/ ControllerRefuses \/ ControllerEnds \/ Answer \/ Abort \/ Fails \/ LaunchFails
      BY <3>3 DEF ControllerFrozen, ControllerRefuses, ControllerEnds, Answer, Abort, Fails, LaunchFails
    <3> QED
      BY <3>1, <3>2, <3>3, NextCases
         DEF root, SendOffer, ReceiveConfirmation, Construct, Tend, AskBoth, CloseGuards, WaitEnds,
             WaitOn, Start, StartFinish, StartWait, Exit, StartRefused, Receive, Checkpoint, Admit,
             Physical, Release, Reply, CloseWork
  <2>3. \A m \in {<<>>, <<"frozen">>, <<"eof">>, <<"refused", "eof">>, <<"frozen", "eof">>,
                  <<"frozen", "refused", "eof">>} : m \in Seq({"frozen", "refused", "eof"}) /\ Len(m) <= 3
    BY MailWords
  <2>4. mail' \in {<<>>, <<"frozen">>, <<"eof">>, <<"refused", "eof">>, <<"frozen", "eof">>,
                  <<"frozen", "refused", "eof">>}
    BY <2>1, <2>2 DEF Letters
  <2> QED
    BY <2>3, <2>4
<1>1. CASE World \/ UNCHANGED vars
  BY <1>1, WorldEffect DEF root
<1>2. CASE ControllerFrozen \/ ControllerRefuses \/ ControllerEnds
  BY <1>0, <1>2 DEF ControllerFrozen, ControllerRefuses, ControllerEnds, SuperType
<1>3. CASE Send
  <2>1. ses' \in SesPhase /\ link' \in {"none", "open", "closed"} /\ shown' = shown /\ prepares' \in Nat
    BY <1>3 DEF Send, Told
  <2>2. ctl' \in {"none", "asked", "held", "closing", "gone"}
    BY <1>3 DEF Send, Told
  <2> QED
    BY <1>0, <2>1, <2>2
<1>4. CASE Answer \/ Abort
  BY <1>0, <1>4 DEF Answer, Abort
<1>5. CASE Fails \/ LaunchFails
  BY <1>5 DEF Fails, LaunchFails
<1> QED
  BY <1>1, <1>2, <1>3, <1>4, <1>5, NextCases
     DEF root, SendOffer, ReceiveConfirmation, Construct, Tend, AskBoth, CloseGuards,
         WaitEnds, WaitOn, Start, StartFinish, StartWait, Exit, StartRefused, Receive, Checkpoint,
         Admit, Physical, Release, Reply, CloseWork

\* Descriptors are held only while the channel waits for its answer.
LEMMA InputsStep == IInv /\ [Next]_vars => \A c \in inputs' : chan'[c] \in {"RECEIVED", "FAILED"}
<1> SUFFICES ASSUME IInv, [Next]_vars, NEW c \in inputs' PROVE chan'[c] \in {"RECEIVED", "FAILED"}
  OBVIOUS
<1> USE DEF IInv, TypeOK, WorkType, SuperType
<1>1. CASE World \/ UNCHANGED vars
  BY <1>1, WorldEffect
<1>2. CASE \E o \in Handoffs, d \in Channels : Start(o, d)
  BY <1>2 DEF Start
<1>3. CASE Receive
  BY <1>3 DEF Receive
<1>4. CASE Release
  BY <1>4 DEF Release
<1>5. CASE Reply
  BY <1>5 DEF Reply, Goto, Channelled
<1>6. CASE Fails
  BY <1>6 DEF Fails
<1>7. CASE CloseWork
  BY <1>7 DEF CloseWork
<1> QED
  BY <1>1, <1>2, <1>3, <1>4, <1>5, <1>6, <1>7, NextCases
     DEF work, ControllerFrozen, ControllerRefuses, ControllerEnds, SendOffer, ReceiveConfirmation,
         Construct, LaunchFails, Tend, AskBoth, CloseGuards, WaitEnds, WaitOn, StartFinish,
         StartWait, Exit, StartRefused, Checkpoint, Admit, Send, Answer, Physical, Abort
-----------------------------------------------------------------------------
(* The parts of the invariant. *)

LEMMA WatchedStep == IInv /\ [Next]_vars => Watched'
<1> SUFFICES ASSUME IInv, [Next]_vars PROVE Watched'
  OBVIOUS
<1> USE DEF IInv, Watched, Up, Working, Loop, Closing
<1>1. CASE World \/ UNCHANGED vars
  BY <1>1, WorldEffect DEF super, root
<1>2. CASE ControllerFrozen \/ ControllerRefuses \/ ControllerEnds
  BY <1>2 DEF ControllerFrozen, ControllerRefuses, ControllerEnds, super, work, user, Evidence, Bound
<1>3. CASE SendOffer \/ ReceiveConfirmation \/ Construct
  BY <1>3 DEF SendOffer, ReceiveConfirmation, Construct, Launching, super, work, root, user
<1>4. CASE LaunchFails
  BY <1>4 DEF LaunchFails
<1>5. CASE Tend \/ AskBoth
  <2>1. ASSUME NEW g \in Guards PROVE Ask(g).phase # "CLOSED" /\ Observed(g).phase # "CLOSED"
    BY DEF Ask, Observed, TypeOK, GuardType
  <2>2. \A g \in Guards : guard'[g] \in {guard[g], Ask(g), Observed(g)}
    BY <1>5 DEF Tend, AskBoth, Tended
  <2> QED
    BY <1>5, <2>1, <2>2 DEF Tend, AskBoth, Goto, Wait, work, user, root, Stay
<1>6. CASE WaitEnds \/ WaitOn
  BY <1>6 DEF WaitEnds, WaitOn, BothObserved, TargetReady, Goto, Stay, work, user, root
<1>7. CASE \E o \in Handoffs, c \in Channels : Start(o, c)
  BY <1>7 DEF Start, Wait, user, root, TypeOK, WorkType
<1>8. CASE StartFinish \/ StartWait \/ Exit \/ (\E o \in Handoffs : StartRefused(o))
  BY <1>8 DEF StartFinish, StartWait, Exit, StartRefused, Goto, Wait, user, work, root
<1>9. CASE Receive \/ Reply
  BY <1>9 DEF Receive, Reply, Goto, user, root, TypeOK, WorkType, SuperType
<1>10. CASE Checkpoint \/ Admit \/ Physical \/ Release \/ Answer
  BY <1>10 DEF Checkpoint, Admit, Physical, Release, Answer, Goto, Wait, Stay, user, work, root
<1>11. CASE Send
  BY <1>11 DEF Send, Wait, user, work
<1>12. CASE Fails
  BY <1>12 DEF Fails, user, root, TypeOK, WorkType, SuperType
<1>13. CASE Abort
  BY <1>13 DEF Abort, Goto, TypeOK, RootType
<1>14. CASE CloseWork \/ CloseGuards
  BY <1>14 DEF CloseWork, CloseGuards, Goto, root
<1> QED
  BY <1>1, <1>2, <1>3, <1>4, <1>5, <1>6, <1>7, <1>8, <1>9, <1>10, <1>11, <1>12, <1>13, <1>14, NextCases

LEMMA OnceStep == IInv /\ [Next]_vars => Once'
<1> SUFFICES ASSUME IInv, [Next]_vars PROVE Once'
  OBVIOUS
<1> USE DEF IInv, Once, TypeOK, RootType, SesPhase
<1>1. CASE World \/ UNCHANGED vars
  BY <1>1, WorldEffect DEF root
<1>2. CASE Send
  <2>1. CASE op = "prepare"
    BY <1>2, <2>1 DEF Send, Told
  <2>2. CASE op # "prepare"
    BY <1>2, <2>2 DEF Send, Told
  <2> QED
    BY <2>1, <2>2
<1>3. CASE Answer \/ Abort \/ Fails \/ LaunchFails
  BY <1>3 DEF Answer, Abort, Fails, LaunchFails
<1> QED
  BY <1>1, <1>2, <1>3, NextCases
     DEF root, ControllerFrozen, ControllerRefuses, ControllerEnds, SendOffer, ReceiveConfirmation,
         Construct, Tend, AskBoth, CloseGuards, WaitEnds, WaitOn, Start, StartFinish, StartWait,
         Exit, StartRefused, Receive, Checkpoint, Admit, Physical, Release, Reply, CloseWork

LEMMA EvidenceStep == IInv /\ [Next]_vars => Evidence'
<1> SUFFICES ASSUME IInv, [Next]_vars PROVE Evidence'
  OBVIOUS
<1> USE DEF IInv, Evidence, Bound, Working, Loop, Closing
<1>1. CASE World \/ UNCHANGED vars
  BY <1>1, WorldEffect DEF super, root, Unread
<1>2. CASE ControllerFrozen
  BY <1>2, MailBag DEF ControllerFrozen, Unread, super, Letters
<1>3. CASE ControllerRefuses \/ ControllerEnds
  <2>1. UNCHANGED <<super, ses, shown>> /\ ctl' = "gone"
    BY <1>3 DEF ControllerRefuses, ControllerEnds
  <2>2. ctl \in {"asked", "held", "closing"}
    BY <1>3 DEF ControllerRefuses, ControllerEnds
  <2>3. Unread' => Unread
    <3>1. mail = <<>> => ~Unread'
      BY <1>3, MailBag DEF ControllerRefuses, ControllerEnds, Unread
    <3>2. mail # <<>> => mail = <<"frozen">>
      BY <2>2 DEF Letters
    <3> QED
      BY <3>1, <3>2, MailBag DEF Unread
  <2> QED
    BY <2>1, <2>3 DEF super
<1>4. CASE SendOffer \/ ReceiveConfirmation \/ Construct \/ LaunchFails
  BY <1>4 DEF SendOffer, ReceiveConfirmation, Construct, LaunchFails, Launching, super, root, Unread
<1>5. CASE Tend \/ WaitOn \/ Receive \/ Checkpoint \/ AskBoth \/ Release
  BY <1>5 DEF Tend, WaitOn, Receive, Checkpoint, AskBoth, Release, Goto, Wait, Stay, root, Unread, Channelled
<1>6. CASE WaitEnds
  BY <1>6 DEF WaitEnds, BothObserved, TargetReady, root, Unread
<1>7. CASE \E o \in Handoffs, c \in Channels : Start(o, c)
  BY <1>7 DEF Start, Wait, root, Unread
<1>8. CASE StartFinish \/ StartWait \/ Exit \/ (\E o \in Handoffs : StartRefused(o))
  BY <1>8 DEF StartFinish, StartWait, Exit, StartRefused, Goto, Wait, root, Unread
<1>9. CASE Admit \/ Physical
  BY <1>9 DEF Admit, Physical, Goto, Stay, root, Unread, TypeOK, SuperType
<1>10. CASE Send
  <2>1. /\ at = "send" /\ at' = "loop" /\ after' = "answer" /\ UNCHANGED <<op, slot, shown, mail>>
        /\ ses' \in {"PREPARING", "OBSERVING"} => op \in Handoffs
    BY <1>10 DEF Send, Wait, Handoffs
  <2> QED
    BY <2>1 DEF Unread
<1>11. CASE Answer
  <2>1. ~Unread'
    <3>1. mail # <<>> /\ mail' = Tail(mail)
      BY <1>11 DEF Answer
    <3>2. mail \in {<<"frozen">>, <<"eof">>, <<"refused", "eof">>, <<"frozen", "eof">>,
                    <<"frozen", "refused", "eof">>}
      BY <3>1 DEF Letters, TypeOK, RootType
    <3> QED
      BY <3>1, <3>2, MailBag DEF Unread
  <2>2. ctl' # "asked"
    BY <1>11 DEF Answer, Letters
  <2> QED
    BY <1>11, <2>1, <2>2 DEF Answer, Unread
<1>12. CASE Reply
  BY <1>12 DEF Reply, Goto, root, Unread
<1>13. CASE Fails
  BY <1>13 DEF Fails, Stay, Unread
<1>14. CASE Abort
  BY <1>14 DEF Abort, Goto, Unread
<1>15. CASE CloseWork \/ CloseGuards
  BY <1>15 DEF CloseWork, CloseGuards, Goto, root, Unread
<1> QED
  BY <1>1, <1>2, <1>3, <1>4, <1>5, <1>6, <1>7, <1>8, <1>9, <1>10, <1>11, <1>12, <1>13, <1>14,
     <1>15, NextCases

LEMMA ChannelledStep == IInv /\ [Next]_vars => Channelled'
<1> SUFFICES ASSUME IInv, [Next]_vars PROVE Channelled'
  OBVIOUS
<1> USE DEF IInv, Channelled, Bound, Working, Loop, Closing
<1>1. CASE World \/ UNCHANGED vars
  BY <1>1, WorldEffect DEF super, root
<1>2. CASE ControllerFrozen \/ ControllerRefuses \/ ControllerEnds
  BY <1>2 DEF ControllerFrozen, ControllerRefuses, ControllerEnds, super, work
<1>3. CASE SendOffer \/ ReceiveConfirmation \/ Construct \/ LaunchFails
  BY <1>3 DEF SendOffer, ReceiveConfirmation, Construct, LaunchFails, Launching, super, work, root, Watched
<1>4. CASE Tend \/ WaitOn \/ AskBoth \/ Checkpoint
  BY <1>4 DEF Tend, WaitOn, AskBoth, Checkpoint, Goto, Wait, Stay, work, root
<1>5. CASE WaitEnds
  BY <1>5 DEF WaitEnds, BothObserved, TargetReady, work, root
<1>6. CASE \E o \in Handoffs, c \in Channels : Start(o, c)
  BY <1>6 DEF Start, Wait, root, TypeOK, WorkType
<1>7. CASE StartFinish \/ StartWait \/ Exit \/ (\E o \in Handoffs : StartRefused(o))
  BY <1>7 DEF StartFinish, StartWait, Exit, StartRefused, Goto, Wait, work, root, Handoffs
<1>8. CASE Receive
  BY <1>8 DEF Receive, Goto, Stay, root, TypeOK, WorkType, SuperType
<1>9. CASE Admit \/ Physical
  BY <1>9 DEF Admit, Physical, Goto, Stay, work, root
<1>10. CASE Send \/ Answer
  BY <1>10 DEF Send, Answer, Wait, work
<1>11. CASE Release
  BY <1>11 DEF Release, Goto, Stay, root
<1>12. CASE Reply
  BY <1>12 DEF Reply, Goto, root, Evidence, TypeOK, WorkType, SuperType
<1>13. CASE Fails
  <2>1. /\ at' = "abort" /\ Stay /\ replied' = replied /\ shown' = shown
        /\ chan' \in {chan, [chan EXCEPT ![slot] = "FAILED"]}
    BY <1>13 DEF Fails
  <2>2. chan' # chan => slot \notin replied
    BY <1>13 DEF Fails, Evidence
  <2> QED
    BY <2>1, <2>2 DEF Stay, TypeOK, WorkType
<1>14. CASE Abort
  BY <1>14 DEF Abort, Goto, Stay, work
<1>15. CASE CloseWork \/ CloseGuards
  BY <1>15 DEF CloseWork, CloseGuards, Goto, root, work, TypeOK, WorkType
<1> QED
  BY <1>1, <1>2, <1>3, <1>4, <1>5, <1>6, <1>7, <1>8, <1>9, <1>10, <1>11, <1>12, <1>13, <1>14,
     <1>15, NextCases

\* What _current leaves open at the beginning of a boundary is the authority
\* alone: the rest it has just looked at.
LEMMA CurrentIsFit ==
  ASSUME IInv, at = "checkpoint", Current
  PROVE  Fit \/ Lost
<1>1. \A c \in Open : kid[c] = "quiet"
  BY DEF Current, Heard, Open, IInv, Channelled, Bound, Working, Loop
<1> QED
  BY <1>1 DEF Current, Fit, Lost

LEMMA StrengthStep == IInv /\ [Next]_vars => Strength'
<1> SUFFICES ASSUME IInv, [Next]_vars PROVE Strength'
  OBVIOUS
<1> USE DEF IInv, Strength, Bound, Working, Loop, Closing
<1>1. CASE World \/ UNCHANGED vars
  BY <1>1, WorldEffect DEF super, Lost, Unanswerable
<1>2. CASE ControllerFrozen \/ ControllerRefuses \/ ControllerEnds
  BY <1>2 DEF ControllerFrozen, ControllerRefuses, ControllerEnds, super, world, Lost, Unanswerable
<1>3. CASE SendOffer \/ ReceiveConfirmation \/ Construct \/ LaunchFails
  BY <1>3 DEF SendOffer, ReceiveConfirmation, Construct, LaunchFails, Launching, super
<1>4. CASE Tend
  <2>1. Unanswerable => Unanswerable'
    BY <1>4 DEF Tend, Tended, Unanswerable, world
  <2> QED
    BY <1>4, <2>1 DEF Tend, Goto, Stay, world, Lost
<1>5. CASE WaitOn
  BY <1>5 DEF WaitOn, Goto, Stay, world, Lost, Unanswerable
<1>6. CASE WaitEnds
  BY <1>6 DEF WaitEnds, BothObserved, TargetReady, world, Lost, Unanswerable
<1>7. CASE StartFinish \/ StartWait \/ Exit \/ (\E o \in Handoffs : StartRefused(o))
  BY <1>7 DEF StartFinish, StartWait, Exit, StartRefused, Goto, Wait
<1>8. CASE \E o \in Handoffs, c \in Channels : Start(o, c)
  BY <1>8 DEF Start, Wait
<1>9. CASE Checkpoint
  <2>1. fit' \/ Lost'
    BY <1>9, CurrentIsFit DEF Checkpoint, Lost, world
  <2> QED
    BY <1>9, <2>1 DEF Checkpoint, Wait
<1>10. CASE AskBoth
  <2>1. Lost => Unanswerable'
    <3>1. \A g \in Guards : guard'[g].phase = "PENDING" /\ guard'[g].wire = "asked"
      BY <1>10 DEF AskBoth, Ask, TypeOK, GuardType
    <3> QED
      BY <1>10, <3>1 DEF AskBoth, Lost, Unanswerable, world
  <2> QED
    BY <1>10, <2>1 DEF AskBoth, Wait
<1>11. CASE Admit
  BY <1>11 DEF Admit, EffectCurrent, Stay, Unanswerable
<1>12. CASE Receive \/ Send \/ Answer \/ Physical \/ Release \/ Reply
  BY <1>12 DEF Receive, Send, Answer, Physical, Release, Reply, Goto, Stay, Wait
<1>13. CASE Fails \/ Abort \/ CloseWork \/ CloseGuards
  BY <1>13 DEF Fails, Abort, CloseWork, CloseGuards, Goto
<1> QED
  BY <1>1, <1>2, <1>3, <1>4, <1>5, <1>6, <1>7, <1>8, <1>9, <1>10, <1>11, <1>12, <1>13, NextCases
-----------------------------------------------------------------------------
LEMMA Step == IInv /\ [Next]_vars => IInv'
BY SuperTypeStep, GuardTypeStep, WorldTypeStep, WorkTypeStep, RootTypeStep, InputsStep, WatchedStep,
   LettersStep, EvidenceStep, OnceStep, ChannelledStep, StrengthStep DEF IInv, TypeOK

\* The invariant of the specification.
LEMMA Invariant == Spec => []IInv
<1>1. IInv /\ [Next]_vars => IInv'
  BY Step
<1> QED
  BY Initially, <1>1, PTL DEF Spec

\* Every variable keeps its range, and descriptors are held for nobody else than
\* a channel that waits for its answer.
THEOREM TypeCorrect == Spec => []TypeOK
<1>1. IInv => TypeOK
  BY DEF IInv
<1> QED
  BY <1>1, Invariant, PTL

\* The controller gets one prepare-freeze request in the life of a supervisor,
\* through whichever channels, refusals and reinspections it goes.
THEOREM OneRequestHolds == Spec => []OneRequest
<1>1. IInv => OneRequest
  BY DEF IInv, Once, OneRequest
<1> QED
  BY <1>1, Invariant, PTL

\* A worker that was answered has been shown to the controller, and its
\* descriptors are closed.
THEOREM AnsweredMeansDoneHolds == Spec => []AnsweredMeansDone
<1>1. IInv => AnsweredMeansDone
  BY DEF IInv, TypeOK, WorkType, Channelled, AnsweredMeansDone
<1> QED
  BY <1>1, Invariant, PTL

\* While the controller can hear the supervisor, everybody who watches it does.
THEOREM ControllerCutFirstHolds == Spec => []ControllerCutFirst
<1>1. IInv => ControllerCutFirst
  BY DEF IInv, Watched, ControllerCutFirst
<1> QED
  BY <1>1, Invariant, PTL

\* A request to the controller and an answer to a worker rest on a boundary that
\* began with the operator authorized, the supply current, the admission valid
\* and the user's consent unrevoked, whatever is lost and whenever a periodic
\* check is under way.
THEOREM BoundaryAuthorityHolds == Spec => BoundaryAuthority
<1>1. ASSUME IInv, [Next]_vars
      PROVE (prepares' # prepares \/ (ses' # ses /\ ses' \in {"OBSERVING", "CLOSING"}) \/ replied' # replied)
              => fit
  <2>1. CASE World \/ UNCHANGED vars
    BY <1>1, <2>1, WorldEffect DEF root, work, IInv
  <2>2. CASE Send \/ Reply
    <3>1. at \in {"send", "reply"}
      BY <2>2 DEF Send, Reply, Goto
    <3> QED
      BY <1>1, <3>1 DEF IInv, Strength
  <2>3. CASE Answer \/ Abort \/ Fails \/ LaunchFails
    <3>1. CASE Answer \/ Abort
      BY <3>1 DEF Answer, Abort, work
    <3>3. CASE Fails \/ LaunchFails
      BY <3>3 DEF Fails, LaunchFails, work
    <3> QED
      BY <2>3, <3>1, <3>3
  <2> QED
    BY <1>1, <2>1, <2>2, <2>3, NextCases
       DEF root, work, ControllerFrozen, ControllerRefuses, ControllerEnds, SendOffer,
           ReceiveConfirmation, Construct, Tend, AskBoth, CloseGuards, WaitEnds, WaitOn, Start,
           StartFinish, StartWait, Exit, StartRefused, Receive, Checkpoint, Admit, Physical,
           Release, CloseWork
<1>2. IInv /\ [Next]_vars =>
        [(prepares' # prepares \/ (ses' # ses /\ ses' \in {"OBSERVING", "CLOSING"}) \/ replied' # replied)
           => fit]_vars
  BY <1>1
<1> QED
  BY <1>2, Invariant, PTL DEF Spec, BoundaryAuthority
=============================================================================
