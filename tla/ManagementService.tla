------------------------- MODULE ManagementService -------------------------
(***************************************************************************)
(* The package command service, native/management_service.py: one process  *)
(* that serves the connections of a systemd socket one after the other,    *)
(* each with one bounded child, native/catalog_query.py.  The service may  *)
(* be stopped at any moment (Restart=no, KillMode=control-group) and is    *)
(* started again by the next connection; connections that were not         *)
(* accepted wait in the socket's backlog meanwhile.                        *)
(*                                                                         *)
(* Deadlines and the entries of the per-user history are the ticks that    *)
(* are left of them: 0 is expired.                                         *)
(***************************************************************************)
EXTENDS Integers, Sequences, SequencesExt, FiniteSets, Functions

CONSTANTS Connections,   \* every connection that is ever made
          Users,         \* the accounts that may connect
          User,          \* the account of each connection
          PerUser,       \* 4 queries of one account ...
          Window,        \* ... in 10 s
          MaxUsers,      \* 1024 accounts in the history
          RequestTime,   \* 2 s for the request
          QueryTime,     \* 120 s for a query
          Stops          \* bound: times the service is stopped

ASSUME ConstantAssumption ==
    /\ User \in [Connections -> Users]
    /\ {PerUser, Window, MaxUsers, RequestTime, QueryTime} \subseteq Nat \ {0}
    /\ Stops \in Nat
    /\ "none" \notin Connections

VARIABLES pc,         \* where serve is
          cur,        \* the connection it serves
          timer,      \* what is left of its deadline
          fine,       \* query is about to return a snapshot
          recent,     \* per account: what is left of each admitted query's window
          backlog,    \* connections made and not accepted
          link,       \* per connection: none, queued, open, closed
          sent,       \* what the client sent: no, query, other (refused)
          disturbed,  \* its client ended, hung up or sent something more
          answers,    \* what the client was sent
          child,      \* the query process: none, runs, done, failed; and waited for:
                      \* reaped (after success), dead
          output,     \* what it wrote: part (or nothing), whole
          eof,        \* its output has ended
          unkillable, \* connections whose child outlived the wait for its end
          stops       \* bounds Stop

service == <<pc, cur, timer, fine, recent>>
clients == <<backlog, link, sent, disturbed>>
process == <<child, output, eof, unkillable>>
vars == <<service, clients, process, answers, stops>>

None == "none"

Init ==
    /\ pc = "down" /\ cur = None /\ timer = 0 /\ fine = FALSE
    /\ recent = [u \in Users |-> <<>>]
    /\ backlog = <<>>
    /\ link = [c \in Connections |-> "none"] /\ sent = [c \in Connections |-> "no"]
    /\ disturbed = [c \in Connections |-> FALSE]
    /\ answers = [c \in Connections |-> <<>>]
    /\ child = [c \in Connections |-> "none"] /\ output = [c \in Connections |-> "part"]
    /\ eof = [c \in Connections |-> FALSE]
    /\ unkillable = {}
    /\ stops = 0
-----------------------------------------------------------------------------
(* Clients.  What one does before its connection is accepted is seen only   *)
(* then, as if it did it just after.                                        *)

Connect(c) ==
    /\ link[c] = "none"
    /\ link' = [link EXCEPT ![c] = "queued"]
    /\ backlog' = Append(backlog, c)
    /\ UNCHANGED <<service, process, sent, disturbed, answers, stops>>

Send(c, what) ==
    /\ link[c] = "open" /\ sent[c] = "no" /\ ~disturbed[c]
    /\ sent' = [sent EXCEPT ![c] = what]
    /\ UNCHANGED <<service, process, backlog, link, disturbed, answers, stops>>

Disturb(c) ==
    /\ link[c] = "open" /\ ~disturbed[c]
    /\ disturbed' = [disturbed EXCEPT ![c] = TRUE]
    /\ UNCHANGED <<service, process, backlog, link, sent, answers, stops>>

(* The query process: it writes, closes its output and ends as it likes,    *)
(* or hangs.                                                                *)
Write(c) ==
    /\ child[c] = "runs" /\ ~eof[c] /\ output[c] = "part"
    /\ output' = [output EXCEPT ![c] = "whole"]
    /\ UNCHANGED <<service, clients, child, eof, unkillable, answers, stops>>

EndOutput(c) ==
    /\ child[c] = "runs" /\ ~eof[c]
    /\ eof' = [eof EXCEPT ![c] = TRUE]
    /\ UNCHANGED <<service, clients, child, output, unkillable, answers, stops>>

Exit(c, how) ==
    /\ child[c] = "runs"
    /\ child' = [child EXCEPT ![c] = how]
    /\ eof' = [eof EXCEPT ![c] = TRUE] \/ eof' = eof   \* a descendant may hold the pipe
    /\ UNCHANGED <<service, clients, output, unkillable, answers, stops>>
-----------------------------------------------------------------------------
(* The service. *)

(* systemd starts it for a waiting connection; its history is empty.        *)
Start ==
    /\ pc = "down" /\ backlog # <<>>
    /\ pc' = "accept"
    /\ UNCHANGED <<cur, timer, fine, recent, clients, process, answers, stops>>

Accept ==
    /\ pc = "accept" /\ backlog # <<>>
    /\ pc' = "request" /\ cur' = Head(backlog) /\ timer' = RequestTime
    /\ backlog' = Tail(backlog)
    /\ link' = [link EXCEPT ![cur'] = "open"]
    /\ UNCHANGED <<fine, recent, sent, disturbed, process, answers, stops>>

(* The control flow of serve and query, which leaves the rest alone.        *)
Goto(place) == pc' = place /\ UNCHANGED <<cur, recent, clients, answers, stops>>

(* The request arrived and is well formed, from a live client and in time;  *)
(* only queries are connected to anything.                                  *)
ReadRequest ==
    /\ pc = "request" /\ (sent[cur] # "no" \/ disturbed[cur])
    /\ \/ sent[cur] = "query" /\ timer > 0 /\ Goto("admit")
       \/ (sent[cur] # "query" \/ disturbed[cur]) /\ Goto("refuse")
    /\ UNCHANGED <<timer, fine, process>>

(* Mutant of RequestTimeout: the first poll has no timeout.                 *)
Bug_WaitsForEver ==
    /\ pc = "request" /\ timer = 0 /\ disturbed[cur]
    /\ Goto("refuse")
    /\ UNCHANGED <<timer, fine, process>>

RequestTimeout ==
    /\ pc = "request" /\ timer = 0
    /\ Goto("refuse")
    /\ UNCHANGED <<timer, fine, process>>

(* Expired entries of every account are forgotten.  The history counts a    *)
(* query when it is admitted, whatever becomes of it.                       *)
Admit ==
    LET Alive(left) == left > 0
        kept == [u \in Users |-> SelectSeq(recent[u], Alive)]
        mine == kept[User[cur]]
        users == Cardinality({u \in Users : kept[u] # <<>>})
    IN  /\ pc = "admit"
        /\ IF Len(mine) >= PerUser \/ (mine = <<>> /\ users >= MaxUsers)
           THEN pc' = "refuse" /\ recent' = kept /\ UNCHANGED timer
           ELSE /\ pc' = "spawn" /\ timer' = QueryTime
                /\ recent' = [kept EXCEPT ![User[cur]] = Append(@, Window)]
        /\ UNCHANGED <<cur, fine, clients, process, answers, stops>>

Spawn ==
    /\ pc = "spawn" /\ fine' = FALSE
    /\ \/ Goto("refuse") /\ UNCHANGED child
       \/ Goto("poll") /\ child' = [child EXCEPT ![cur] = "runs"]
    /\ UNCHANGED <<timer, output, eof, unkillable>>

(* Mutant of Expire: the deadline skips the clean-up of the child.          *)
Bug_LeavesLateChild ==
    /\ pc = "poll" /\ timer = 0
    /\ Goto("refuse")
    /\ UNCHANGED <<timer, fine, process>>

(* The poll loop of query ends at the deadline, at anything from the        *)
(* client, when the budget of events is used up by an exited child whose    *)
(* output does not end, or with the child's exit after the end of its       *)
(* output.                                                                  *)
Expire ==
    /\ pc = "poll" /\ timer = 0
    /\ Goto("cleanup")
    /\ UNCHANGED <<timer, fine, process>>

Cancel ==
    /\ pc = "poll" /\ (disturbed[cur] \/ (child[cur] # "runs" /\ ~eof[cur]))
    /\ Goto("cleanup")
    /\ UNCHANGED <<timer, fine, process>>

(* Other errors of query once its process is there, which nothing in the    *)
(* model decides: no pidfd for it, more output than the limit, more events  *)
(* than the budget.                                                         *)
Fault ==
    /\ pc = "poll"
    /\ Goto("cleanup")
    /\ UNCHANGED <<timer, fine, process>>

(* Mutant of Collect: the end of the output is taken for the whole result.  *)
Bug_TrustsEndOfOutput ==
    /\ pc = "poll" /\ eof[cur]
    /\ fine' = (child[cur] # "failed" /\ output[cur] = "whole")
    /\ Goto("cleanup")
    /\ UNCHANGED <<timer, process>>

Collect ==
    /\ pc = "poll" /\ eof[cur] /\ child[cur] # "runs"
    /\ fine' = (child[cur] = "done" /\ output[cur] = "whole")
    /\ Goto("cleanup")
    /\ UNCHANGED <<timer, process>>

(* The group is killed and the child is waited for, 5 s at most.            *)
Cleanup ==
    /\ pc = "cleanup"
    /\ \/ /\ child' = [child EXCEPT ![cur] = IF @ = "done" THEN "reaped" ELSE "dead"]
          /\ eof' = [eof EXCEPT ![cur] = TRUE]
          /\ Goto(IF fine THEN "deliver" ELSE "refuse")
          /\ UNCHANGED unkillable
       \/ /\ child[cur] = "runs" /\ unkillable' = unkillable \cup {cur}
          /\ Goto("refuse")
          /\ UNCHANGED <<child, eof>>
    /\ UNCHANGED <<timer, fine, output>>

(* serve ends: the answer, if it can be sent, then the close.               *)
Answer(what) ==
    /\ answers' = [answers EXCEPT ![cur] = Append(@, what)] \/ (disturbed[cur] /\ UNCHANGED answers)
    /\ pc' = "accept" /\ cur' = None /\ timer' = 0 /\ fine' = FALSE
    /\ link' = [link EXCEPT ![cur] = "closed"]
    /\ UNCHANGED <<recent, backlog, sent, disturbed, process, stops>>

(* It is too late, the client is gone or sent more, or the list cannot be   *)
(* presented (no package matches the operands, a text is too long).         *)
Deliver ==
    /\ pc = "deliver"
    /\ \/ Goto("refuse") /\ UNCHANGED <<timer, fine, process>>
       \/ timer > 0 /\ ~disturbed[cur] /\ Answer("READ")

Refuse == pc = "refuse" /\ Answer("REFUSED")

(* SIGTERM, or the death of the service: what it serves is closed without   *)
(* an answer, its history is lost and systemd kills the whole group.        *)
Stop ==
    /\ pc # "down" /\ stops < Stops /\ stops' = stops + 1
    /\ pc' = "down" /\ cur' = None /\ timer' = 0 /\ fine' = FALSE
    /\ recent' = [u \in Users |-> <<>>]
    /\ link' = [c \in Connections |-> IF c = cur THEN "closed" ELSE link[c]]
    /\ LET running == {c \in Connections : child[c] = "runs"}
       IN  \E left \in SUBSET running :
             /\ unkillable' = unkillable \cup left
             /\ child' = [c \in Connections |->
                            IF child[c] \in {"none", "reaped"} \/ c \in left THEN child[c] ELSE "dead"]
    /\ UNCHANGED <<backlog, sent, disturbed, output, eof, answers>>

(* Time passes.                                                             *)
Tick ==
    LET Down(left) == IF left > 0 THEN left - 1 ELSE 0
    IN  /\ timer' = Down(timer)
        /\ recent' = [u \in Users |-> [i \in DOMAIN recent[u] |-> Down(recent[u][i])]]
        /\ <<timer', recent'>> # <<timer, recent>>
        /\ UNCHANGED <<pc, cur, fine, clients, process, answers, stops>>

Serve == \/ Start \/ Accept \/ ReadRequest \/ RequestTimeout \/ Admit \/ Spawn \/ Expire
         \/ Cancel \/ Collect \/ Cleanup \/ Deliver \/ Refuse
Client == \E c \in Connections :
            Connect(c) \/ Disturb(c) \/ \E what \in {"query", "other"} : Send(c, what)
Child == \E c \in Connections : Write(c) \/ EndOutput(c) \/ \E how \in {"done", "failed"} : Exit(c, how)

Next == Serve \/ Fault \/ Client \/ Child \/ Stop \/ Tick

Spec == Init /\ [][Next]_vars

(* The service runs and time passes.  A client may never send, a child may  *)
(* never end, and no Fault need come to the rescue.                                                           *)
FairSpec == Spec /\ WF_vars(Serve) /\ WF_vars(Tick)
-----------------------------------------------------------------------------
(* Properties. *)

TypeOK ==
    /\ pc \in {"down", "accept", "request", "admit", "spawn", "poll", "cleanup", "deliver", "refuse"}
    /\ cur \in Connections \cup {None} /\ timer \in Nat /\ fine \in BOOLEAN
    /\ recent \in [Users -> Seq(Nat)]
    /\ backlog \in Seq(Connections)
    /\ link \in [Connections -> {"none", "queued", "open", "closed"}]
    /\ sent \in [Connections -> {"no", "query", "other"}]
    /\ disturbed \in [Connections -> BOOLEAN]
    /\ answers \in [Connections -> Seq({"READ", "REFUSED"})]
    /\ child \in [Connections -> {"none", "runs", "done", "failed", "reaped", "dead"}]
    /\ output \in [Connections -> {"part", "whole"}]
    /\ eof \in [Connections -> BOOLEAN]
    /\ unkillable \subseteq Connections

Alone(c) == \/ child[c] \in {"none", "reaped", "dead"}
            \/ c \in unkillable
            \/ c = cur /\ pc \in {"poll", "cleanup"}

(* Whatever way a query ends (an answer, a deadline, a client that goes, a  *)
(* stop), its process is reaped before the service goes on, except one that *)
(* even SIGKILL did not end in time.                                        *)
NoQueryLeftBehind == \A c \in Connections : Alone(c)

(* A list is sent only once, to the client whose own query process wrote    *)
(* all of it, exited with success and was reaped, whatever was killed,      *)
(* cancelled or late before; nothing else is sent with it.                  *)
AnswerIsWhole ==
    \A c \in Connections : "READ" \in Range(answers[c]) =>
        /\ answers[c] = <<"READ">> /\ sent[c] = "query"
        /\ child[c] = "reaped" /\ eof[c] /\ output[c] = "whole" /\ c \notin unkillable

(* management_service.py:6: "One bounded query child is owned and supervised *)
(* at a time."  The code does not keep it (README, Findings): a child that   *)
(* SIGKILL does not end in time is left, and the next query is started.      *)
OneQueryAtATime == Cardinality({c \in Connections : child[c] = "runs"}) <= 1

(* Every connection is served or closed in the end, in front of silent      *)
(* clients, hanging children, children that cannot be killed and stops.     *)
EveryConnectionEnds == \A c \in Connections : link[c] = "queued" ~> link[c] = "closed"

=============================================================================
