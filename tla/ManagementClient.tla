-------------------------- MODULE ManagementClient --------------------------
(***************************************************************************)
(* One adopted command, native/management_client.py, against the root      *)
(* service that plans it: the request, at most one offer of a plan, the    *)
(* answer typed at the terminal, the confirmation (PlanConsent of          *)
(* native/plan_consent.py on the service's side) and one final result.     *)
(* Either side may fail or be interrupted anywhere; nothing is repeated.   *)
(*                                                                         *)
(* The planner behind the service is not part of the repository: it plans, *)
(* commits or refuses as it likes, and answers with any of the five        *)
(* dispositions, except that it says COMMITTED only of what it committed   *)
(* and REFUSED only of what it did not.                                    *)
(***************************************************************************)
EXTENDS Integers, Sequences, SequencesExt

CONSTANTS WaitTime,    \* the client's 600 s
          OfferTime,   \* what is left of an offer when it is made, at most 120 s
          Lines        \* bound: lines typed at the terminal

ConstantAssumption == {WaitTime, OfferTime, Lines} \subseteq Nat \ {0}

VARIABLES action,    \* what the command asks for: read, preview, change
          at,        \* where execute and confirm are
          sent,      \* delivery of the request may have happened
          offered, confirmed,
          timer,     \* what is left of the client's own deadline
          report,    \* what the user was told
          status,    \* the exit status, or -1
          typed,     \* the lines waiting at the terminal
          shown,     \* the plan is on the terminal
          lines,     \* bounds Type
          said,      \* a yes was typed when older lines were flushed / when the plan was shown
          inbox,     \* messages to the client
          request,   \* the request reached the service
          reply,     \* the confirmation on its way: none, yes, no
          phase,     \* the service with its PlanConsent
          left,      \* what is left of the offer
          effects    \* the plan was committed

client   == <<at, sent, offered, confirmed, timer, report, status>>
terminal == <<typed, shown, lines, said>>
server   == <<request, phase, left, effects>>
vars     == <<action, client, terminal, inbox, reply, server>>

Results == {"COMMITTED", "REFUSED", "INDETERMINATE", "PREVIEW", "READ_ONLY"}

Init ==
    /\ action \in {"read", "preview", "change"}
    /\ at = "start" /\ sent = FALSE /\ offered = FALSE /\ confirmed = FALSE
    /\ timer = 0 /\ report = "none" /\ status = -1
    /\ typed = <<>> /\ shown = FALSE /\ lines = 0 /\ said = {}
    /\ inbox = <<>> /\ reply = "none"
    /\ request = FALSE /\ phase = "idle" /\ left = 0 /\ effects = FALSE
-----------------------------------------------------------------------------
(* The client. *)

End(what, code) ==
    /\ at' = "done" /\ report' = what /\ status' = code
    /\ timer' = 0
    /\ UNCHANGED <<sent, offered, confirmed>>

(* Any OSError, ValueError or KeyboardInterrupt.                            *)
Failed == End(IF sent THEN "unconfirmed" ELSE "no request was sent", 1)

Step(place) == at' = place /\ UNCHANGED <<sent, offered, confirmed, timer, report, status>>

(* Mutant of Connected: the flag follows the send.                          *)
Bug_MarksSentLater ==
    /\ at = "start"
    /\ Step("sending")
    /\ UNCHANGED <<terminal, inbox, reply, server>>

(* The connection is there; from now on delivery is possible.               *)
Connected ==
    /\ at = "start"
    /\ at' = "sending" /\ sent' = TRUE
    /\ UNCHANGED <<offered, confirmed, timer, report, status, terminal, inbox, reply, server>>

SendRequest ==
    /\ at = "sending"
    /\ request' = TRUE
    /\ at' = "wait" /\ sent' = TRUE /\ timer' = WaitTime
    /\ UNCHANGED <<offered, confirmed, report, status, terminal, inbox, reply, phase, left, effects>>

(* The delivery happened but the client stops before it knows: an error or  *)
(* an interrupt between the send and the next statement.                    *)
SendUnnoticed ==
    /\ at = "sending"
    /\ request' = TRUE
    /\ Failed
    /\ UNCHANGED <<terminal, inbox, reply, phase, left, effects>>

(* An offer is taken once, for a change that is not a preview, in time.     *)
TakeOffer ==
    /\ at = "wait" /\ timer > 0 /\ inbox # <<>> /\ Head(inbox) = "OFFER"
    /\ inbox' = Tail(inbox)
    /\ IF action = "change" /\ ~offered /\ left > 0
         THEN at' = "flush" /\ offered' = TRUE /\ UNCHANGED <<sent, confirmed, timer, report, status>>
         ELSE Failed
    /\ UNCHANGED <<terminal, reply, server>>

(* What was typed before is dropped, then the plan is shown and the         *)
(* terminal asked.                                                          *)
Flush ==
    /\ at = "flush"
    /\ typed' = <<>>
    /\ Step("show")
    /\ UNCHANGED <<shown, lines, said, inbox, reply, server>>

Show ==
    /\ at = "show"
    /\ shown' = TRUE
    /\ Step("ask")
    /\ UNCHANGED <<typed, lines, said, inbox, reply, server>>

(* The service's next packet or its end comes before the terminal's answer. *)
Ask ==
    /\ at = "ask" /\ left > 0
    /\ IF inbox # <<>> THEN Failed /\ UNCHANGED typed
       ELSE /\ typed # <<>> /\ typed' = Tail(typed)
            /\ at' = "answer" /\ confirmed' = Head(typed)
            /\ UNCHANGED <<sent, offered, timer, report, status>>
    /\ UNCHANGED <<shown, lines, said, inbox, reply, server>>

(* The reply is sent while the offer lives; the client waits for the result *)
(* no longer than that.                                                     *)
Reply ==
    /\ at = "answer" /\ left > 0
    /\ IF phase = "closed" THEN Failed /\ UNCHANGED reply
       ELSE /\ reply' = IF confirmed THEN "yes" ELSE "no"
            /\ IF confirmed THEN at' = "wait" /\ timer' = left
                                 /\ UNCHANGED <<sent, offered, confirmed, report, status>>
                            ELSE End("cancelled", 1)
    /\ UNCHANGED <<terminal, inbox, server>>

(* The dispositions that succeed: a commit after a consent, a preview, a    *)
(* display.                                                                 *)
Succeeds(result) == \/ result = "COMMITTED" /\ confirmed /\ action = "change"
                    \/ result = "PREVIEW" /\ action = "preview"
                    \/ result \in {"READ_ONLY", "LIST"} /\ action = "read"

TakeResult ==
    /\ at = "wait" /\ timer > 0 /\ inbox # <<>> /\ Head(inbox) \in Results \cup {"LIST", "EOF"}
    /\ inbox' = Tail(inbox)
    /\ LET result == Head(inbox)
       IN  \/ Succeeds(result) /\ End(result, 0)
           \/ result \in {"REFUSED", "INDETERMINATE"} /\ End(result, 1)
           \/ ~Succeeds(result) /\ result \notin {"REFUSED", "INDETERMINATE"} /\ Failed
    /\ UNCHANGED <<terminal, reply, server>>

(* A deadline, a broken connection, a missing terminal, Ctrl-C: anywhere.   *)
Fail ==
    /\ at # "done"
    /\ Failed
    /\ UNCHANGED <<terminal, inbox, reply, server>>

Deadline ==
    /\ \/ at = "wait" /\ timer = 0
       \/ at \in {"ask", "answer"} /\ left = 0
    /\ Failed
    /\ UNCHANGED <<terminal, inbox, reply, server>>

(* The person at the terminal types a line, yes or anything else.           *)
Type(yes) ==
    /\ lines < Lines /\ lines' = lines + 1
    /\ typed' = Append(typed, yes)
    /\ said' = said \cup {since \in {"flushed", "shown"} :
                            yes /\ offered /\ at # "flush" /\ (since = "shown" => shown)}
    /\ UNCHANGED <<client, shown, inbox, reply, server>>
-----------------------------------------------------------------------------
(* The service. *)

Gone == at = "done"

Tell(message) == inbox' = IF Gone THEN inbox ELSE Append(inbox, message)

Receive ==
    /\ phase = "idle" /\ request
    /\ phase' = "planning"
    /\ UNCHANGED <<client, terminal, inbox, reply, request, left, effects>>

(* PlanConsent is made for a live peer whose next packet is not there yet.  *)
Offer ==
    /\ phase = "planning" /\ action = "change" /\ ~Gone
    /\ phase' = "offered" /\ left' = OfferTime
    /\ Tell("OFFER")
    /\ UNCHANGED <<client, terminal, reply, request, effects>>

ReceiveConfirmation ==
    /\ phase = "offered" /\ reply # "none"
    /\ reply' = "none"
    /\ phase' = IF reply = "yes" /\ left > 0 /\ ~Gone THEN "confirmed" ELSE "failed"
    /\ UNCHANGED <<client, terminal, inbox, request, left, effects>>

(* Mutant of Commit: the consent counts as it was when it was received.     *)
Bug_CommitsUnchecked ==
    /\ phase = "confirmed"
    /\ effects' = TRUE /\ phase' = "committed"
    /\ UNCHANGED <<client, terminal, inbox, reply, request, left>>

(* The consent is checked with the effects: still confirmed, in time, and   *)
(* nothing from the client, neither its end nor a packet.                   *)
Commit ==
    /\ phase = "confirmed"
    /\ IF left > 0 /\ ~Gone THEN effects' = TRUE /\ phase' = "committed"
                            ELSE phase' = "failed" /\ UNCHANGED effects
    /\ UNCHANGED <<client, terminal, inbox, reply, request, left>>

Result(result) ==
    /\ phase \in {"planning", "offered", "confirmed", "committed", "failed"}
    /\ result = "COMMITTED" => effects
    /\ result = "REFUSED" => ~effects
    /\ result = "LIST" => action = "read"
    /\ phase' = "closed"
    /\ Tell(result)
    /\ UNCHANGED <<client, terminal, reply, request, left, effects>>

(* The service ends or drops the connection.                                *)
Drop ==
    /\ phase # "closed"
    /\ phase' = "closed"
    /\ Tell("EOF")
    /\ UNCHANGED <<client, terminal, reply, request, left, effects>>
-----------------------------------------------------------------------------
Tick ==
    LET Down(time) == IF time > 0 THEN time - 1 ELSE 0
    IN  /\ timer' = Down(timer) /\ left' = Down(left)
        /\ <<timer', left'>> # <<timer, left>>
        /\ UNCHANGED <<at, sent, offered, confirmed, report, status, terminal, inbox, reply, request, phase, effects>>

Execute == \/ Connected \/ SendRequest \/ SendUnnoticed \/ TakeOffer \/ Flush \/ Show \/ Ask
           \/ Reply \/ TakeResult \/ Deadline
Serve == Receive \/ Offer \/ ReceiveConfirmation \/ Commit \/ Drop \/ \E r \in Results \cup {"LIST"} : Result(r)

Next == /\ Execute \/ Fail \/ Serve \/ Tick \/ \E yes \in BOOLEAN : Type(yes)
        /\ UNCHANGED action

Spec == Init /\ [][Next]_vars

-----------------------------------------------------------------------------
(* Properties. *)

TypeOK ==
    /\ action \in {"read", "preview", "change"}
    /\ at \in {"start", "sending", "wait", "flush", "show", "ask", "answer", "done"}
    /\ {sent, offered, confirmed, shown, request, effects} \subseteq BOOLEAN
    /\ timer \in Nat /\ left \in Nat /\ lines \in Nat /\ status \in {-1, 0, 1}
    /\ report \in {"none", "no request was sent", "unconfirmed", "cancelled", "LIST"} \cup Results
    /\ typed \in Seq(BOOLEAN) /\ said \subseteq {"flushed", "shown"}
    /\ inbox \in Seq(Results \cup {"OFFER", "LIST", "EOF"})
    /\ reply \in {"none", "yes", "no"}
    /\ phase \in {"idle", "planning", "offered", "confirmed", "committed", "failed", "closed"}

(* What the user is told of a request stays true whatever the service does  *)
(* later: nothing arrived when no request was sent, nothing is ever         *)
(* committed after a cancelled plan or a refusal, and a change that exits   *)
(* with 0 is committed; whatever else happened is called unconfirmed.       *)
ReportIsTrue ==
    /\ report = "no request was sent" => ~request
    /\ report \in {"cancelled", "REFUSED", "no request was sent"} => ~effects
    /\ status = 0 /\ action = "change" => effects

(* A plan is committed only behind a yes that was typed after all earlier   *)
(* lines were dropped, and only while it counts: in the step that commits,  *)
(* the offer's time is not over and the client that sent the yes is still   *)
(* there, waiting for the result.                                           *)
CommittedMeansYes ==
    [][effects' # effects => /\ confirmed /\ "flushed" \in said
                             /\ left > 0 /\ at = "wait"]_effects

(* native/plan-consent.ja.md:26-27: the plan is shown, what was typed       *)
(* before is flushed and an explicit yes is taken; so a yes answers the     *)
(* plan that is on the terminal.  The code does not keep it (README,        *)
(* Findings): a line typed between Flush and Show is taken for the answer.  *)
YesAnswersTheShownPlan == effects => "shown" \in said
=============================================================================
