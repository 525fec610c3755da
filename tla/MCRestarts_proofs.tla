--------------------------- MODULE MCRestarts_proofs ---------------------------
(***************************************************************************)
(* What is proved of the programs that MCRestarts runs: the package        *)
(* command service, an adopted command, and the collectors of sources; for *)
(* any connections, accounts, times, jobs and bounds.                      *)
(***************************************************************************)
EXTENDS MCRestarts, TLAPS

(***************************************************************************)
(* The package command service.                                            *)
(***************************************************************************)

Places == {"down", "accept", "request", "admit", "spawn", "poll", "cleanup", "deliver", "refuse"}

\* The part of its type invariant that the proof rests on.
ServiceTypes ==
  /\ pc \in Places /\ cur \in Connections \cup {None} /\ fine \in BOOLEAN
  /\ backlog \in Seq(Connections)
  /\ link \in [Connections -> {"none", "queued", "open", "closed"}]
  /\ sent \in [Connections -> {"no", "query", "other"}]
  /\ disturbed \in [Connections -> BOOLEAN]
  /\ answers \in [Connections -> Seq({"READ", "REFUSED"})]
  /\ child \in [Connections -> {"none", "runs", "done", "failed", "reaped", "dead"}]
  /\ output \in [Connections -> {"part", "whole"}]
  /\ eof \in [Connections -> BOOLEAN]
  /\ unkillable \subseteq Connections

\* A connection waits once, and one at a time is served.
Queueing ==
  /\ \A i \in DOMAIN backlog : link[backlog[i]] = "queued"
  /\ \A i, j \in DOMAIN backlog : backlog[i] = backlog[j] => i = j
  /\ IF pc \in {"down", "accept"} THEN cur = None ELSE cur \in Connections /\ link[cur] = "open"
  /\ \A x \in Connections : link[x] = "open" => x = cur

\* What has happened to a connection by the time it has come so far.
Progress ==
  /\ \A x \in Connections :
       /\ link[x] \in {"none", "queued"} \/ (x = cur /\ pc \in {"request", "admit", "spawn"}) =>
            child[x] = "none" /\ x \notin unkillable
       /\ link[x] # "closed" => answers[x] = <<>>
  /\ pc \in {"poll", "cleanup", "deliver"} => cur \notin unkillable
  /\ pc \in {"admit", "spawn", "poll", "cleanup", "deliver"} => sent[cur] = "query"
  /\ pc = "poll" => ~fine
  /\ pc = "cleanup" /\ fine => child[cur] = "done" /\ eof[cur] /\ output[cur] = "whole"
  /\ pc = "deliver" => child[cur] = "reaped" /\ eof[cur] /\ output[cur] = "whole"

ServiceInv == ServiceTypes /\ Queueing /\ Progress /\ NoQueryLeftBehind /\ AnswerIsWhole

LEMMA ServiceInit == Init => ServiceInv
<1> SUFFICES ASSUME Init PROVE ServiceInv
  OBVIOUS
<1> USE ConstantAssumption DEF Init, None
<1>1. ServiceTypes
  <2>1. backlog \in Seq(Connections)
    OBVIOUS
  <2>2. answers \in [Connections -> Seq({"READ", "REFUSED"})]
    OBVIOUS
  <2>3. /\ link \in [Connections -> {"none", "queued", "open", "closed"}]
        /\ sent \in [Connections -> {"no", "query", "other"}]
        /\ disturbed \in [Connections -> BOOLEAN]
        /\ child \in [Connections -> {"none", "runs", "done", "failed", "reaped", "dead"}]
        /\ output \in [Connections -> {"part", "whole"}]
        /\ eof \in [Connections -> BOOLEAN]
    OBVIOUS
  <2>4. pc \in Places /\ cur \in Connections \cup {None} /\ fine \in BOOLEAN /\ unkillable \subseteq Connections
    BY DEF Places
  <2> QED
    BY <2>1, <2>2, <2>3, <2>4 DEF ServiceTypes
<1>2. Queueing
  <2>1. backlog = <<>> /\ DOMAIN backlog = {} /\ pc = "down" /\ cur = None
    BY SMT
  <2>2. \A x \in Connections : link[x] = "none"
    OBVIOUS
  <2> QED
    BY <2>1, <2>2 DEF Queueing
<1>3. Progress
  BY DEF Progress
<1>4. NoQueryLeftBehind /\ AnswerIsWhole
  BY DEF NoQueryLeftBehind, Alone, AnswerIsWhole, Range
<1> QED
  BY <1>1, <1>2, <1>3, <1>4 DEF ServiceInv

\* Clients and the query process, between the steps of the service.
LEMMA OutsideStep ==
  ASSUME ServiceInv, Client \/ Child
  PROVE  ServiceInv'
<1> USE DEF ServiceInv
<1>1. ASSUME NEW x \in Connections, Connect(x) PROVE ServiceInv'
  <2>1. /\ link[x] = "none" /\ link' = [link EXCEPT ![x] = "queued"] /\ backlog' = Append(backlog, x)
        /\ UNCHANGED <<pc, cur, fine, sent, disturbed, answers, child, output, eof, unkillable>>
    BY <1>1 DEF Connect, service, process
  <2>2. ServiceTypes'
    BY <2>1 DEF ServiceTypes
  <2>3. /\ DOMAIN backlog' = 1 .. Len(backlog) + 1 /\ DOMAIN backlog = 1 .. Len(backlog) /\ Len(backlog) \in Nat
        /\ \A i \in DOMAIN backlog' : backlog'[i] = IF i = Len(backlog) + 1 THEN x ELSE backlog[i]
        /\ \A i \in DOMAIN backlog : backlog[i] \in Connections
    BY <2>1 DEF ServiceTypes
  <2>4. \A i \in DOMAIN backlog : backlog[i] # x
    BY <2>1 DEF Queueing
  <2>5. Queueing'
    <3>1. \A i \in DOMAIN backlog' : link'[backlog'[i]] = "queued"
      BY <2>1, <2>3, <2>4 DEF Queueing, ServiceTypes
    <3>2. \A i, j \in DOMAIN backlog' : backlog'[i] = backlog'[j] => i = j
      BY <2>3, <2>4 DEF Queueing
    <3>3. \A y \in Connections : link'[y] = "open" <=> link[y] = "open"
      BY <2>1 DEF ServiceTypes
    <3> QED
      BY <2>1, <3>1, <3>2, <3>3 DEF Queueing
  <2>6. Progress'
    BY <2>1 DEF Progress, ServiceTypes
  <2> QED
    BY <2>1, <2>2, <2>5, <2>6 DEF NoQueryLeftBehind, Alone, AnswerIsWhole
<1>2. ASSUME NEW x \in Connections, Disturb(x) PROVE ServiceInv'
  <2>1. /\ disturbed' \in [Connections -> BOOLEAN]
        /\ UNCHANGED <<pc, cur, fine, backlog, link, sent, answers, child, output, eof, unkillable>>
    BY <1>2 DEF Disturb, service, process, ServiceTypes
  <2> QED
    BY <2>1 DEF ServiceTypes, Queueing, Progress, NoQueryLeftBehind, Alone, AnswerIsWhole
<1>3. ASSUME NEW x \in Connections, NEW what \in {"query", "other"}, Send(x, what) PROVE ServiceInv'
  <2>1. /\ sent[x] = "no" /\ sent' = [sent EXCEPT ![x] = what]
        /\ UNCHANGED <<pc, cur, fine, backlog, link, disturbed, answers, child, output, eof, unkillable>>
    BY <1>3 DEF Send, service, process
  <2> QED
    BY <2>1 DEF ServiceTypes, Queueing, Progress, NoQueryLeftBehind, Alone, AnswerIsWhole
<1>4. ASSUME NEW x \in Connections, Write(x) \/ EndOutput(x) \/ (\E how \in {"done", "failed"} : Exit(x, how))
      PROVE  ServiceInv'
  <2>1. /\ child[x] = "runs" /\ child' \in {child, [child EXCEPT ![x] = "done"], [child EXCEPT ![x] = "failed"]}
        /\ output' \in {output, [output EXCEPT ![x] = "whole"]}
        /\ eof' \in {eof, [eof EXCEPT ![x] = TRUE]}
        /\ UNCHANGED <<pc, cur, fine, backlog, link, sent, disturbed, answers, unkillable>>
    BY <1>4 DEF Write, EndOutput, Exit, service, clients
  <2>2. ServiceTypes'
    BY <2>1 DEF ServiceTypes
  <2>3. \A y \in Connections : y # x => child'[y] = child[y] /\ output'[y] = output[y] /\ eof'[y] = eof[y]
    BY <2>1 DEF ServiceTypes
  <2>4. child'[x] \in {"runs", "done", "failed"}
    BY <2>1 DEF ServiceTypes
  <2>5. Progress' /\ Queueing'
    BY <2>1, <2>3, <2>4 DEF Progress, Queueing, ServiceTypes
  <2>6. NoQueryLeftBehind' /\ AnswerIsWhole'
    BY <2>1, <2>3, <2>4 DEF NoQueryLeftBehind, Alone, AnswerIsWhole
  <2> QED
    BY <2>2, <2>5, <2>6
<1> QED
  BY <1>1, <1>2, <1>3, <1>4 DEF Client, Child

\* The steps of the service that only go on, or refuse.
LEMMA GoOnStep ==
  ASSUME ServiceInv, Start \/ ReadRequest \/ RequestTimeout \/ Admit \/ Expire \/ Cancel \/ Fault
  PROVE  ServiceInv'
<1> USE DEF ServiceInv
<1>1. /\ UNCHANGED <<cur, backlog, link, sent, disturbed, answers, child, output, eof, unkillable>> /\ fine' = fine
      /\ \/ pc = "down" /\ pc' = "accept"
         \/ pc = "request" /\ pc' = "admit" /\ sent[cur] = "query"
         \/ pc \in {"request", "admit"} /\ pc' = "refuse"
         \/ pc = "admit" /\ pc' = "spawn"
         \/ pc = "poll" /\ pc' = "cleanup"
  <2>1. CASE Start
    BY <2>1 DEF Start, clients, process
  <2>2. CASE ReadRequest
    BY <2>2 DEF ReadRequest, Goto, clients, process
  <2>3. CASE RequestTimeout
    BY <2>3 DEF RequestTimeout, Goto, clients, process
  <2>4. CASE Admit
    BY <2>4 DEF Admit, clients, process
  <2>5. CASE Expire \/ Cancel \/ Fault
    BY <2>5 DEF Expire, Cancel, Fault, Goto, clients, process
  <2> QED
    BY <2>1, <2>2, <2>3, <2>4, <2>5
<1>2. ServiceTypes' /\ Queueing'
  BY <1>1 DEF ServiceTypes, Places, Queueing
<1>3. Progress'
  BY <1>1 DEF Progress, ServiceTypes, Places
<1>4. NoQueryLeftBehind'
  BY <1>1 DEF NoQueryLeftBehind, Alone
<1>5. AnswerIsWhole'
  BY <1>1 DEF AnswerIsWhole
<1> QED
  BY <1>2, <1>3, <1>4, <1>5

LEMMA AcceptStep ==
  ASSUME ServiceInv, Accept
  PROVE  ServiceInv'
<1> USE DEF ServiceInv
<1> DEFINE first == Head(backlog)
<1>1. /\ pc = "accept" /\ backlog # <<>> /\ pc' = "request" /\ cur' = first /\ backlog' = Tail(backlog)
      /\ link' = [link EXCEPT ![first] = "open"]
      /\ UNCHANGED <<fine, sent, disturbed, answers, child, output, eof, unkillable>>
  BY DEF Accept, process
<1>2. /\ Len(backlog) \in Nat /\ Len(backlog) > 0 /\ DOMAIN backlog = 1 .. Len(backlog) /\ first = backlog[1]
      /\ backlog' \in Seq(Connections) /\ DOMAIN backlog' = 1 .. Len(backlog) - 1
      /\ \A i \in DOMAIN backlog' : i + 1 \in DOMAIN backlog /\ backlog'[i] = backlog[i + 1]
      /\ \A i \in DOMAIN backlog : backlog[i] \in Connections
  BY <1>1, SMT DEF ServiceTypes
<1>3. first \in Connections /\ link[first] = "queued"
  BY <1>2 DEF Queueing
<1> HIDE DEF first
<1>4. ServiceTypes'
  BY <1>1, <1>2, <1>3 DEF ServiceTypes, Places
<1>5. \A y \in Connections : link'[y] = IF y = first THEN "open" ELSE link[y]
  BY <1>1, <1>3 DEF ServiceTypes
<1>6. Queueing'
  <2>1. \A i \in DOMAIN backlog' : backlog'[i] # first
    <3> SUFFICES ASSUME NEW i \in DOMAIN backlog', backlog'[i] = first PROVE FALSE
      OBVIOUS
    <3>1. 1 \in DOMAIN backlog /\ i + 1 \in DOMAIN backlog /\ backlog[i + 1] = backlog[1] /\ i + 1 # 1
      BY <1>2
    <3> QED
      BY <3>1 DEF Queueing
  <2>2. \A i \in DOMAIN backlog' : link'[backlog'[i]] = "queued"
    BY <1>2, <1>5, <2>1 DEF Queueing
  <2>3. \A i, j \in DOMAIN backlog' : backlog'[i] = backlog'[j] => i = j
    <3> SUFFICES ASSUME NEW i \in DOMAIN backlog', NEW j \in DOMAIN backlog', backlog'[i] = backlog'[j]
                 PROVE  i = j
      OBVIOUS
    <3>1. i + 1 = j + 1
      BY <1>2 DEF Queueing
    <3> QED
      BY <3>1, <1>2
  <2>4. \A y \in Connections : link'[y] = "open" => y = cur'
    BY <1>1, <1>5, ConstantAssumption DEF Queueing, None
  <2> QED
    BY <1>1, <1>3, <1>5, <2>2, <2>3, <2>4 DEF Queueing
<1>7. Progress'
  BY <1>1, <1>3, <1>5 DEF Progress, ServiceTypes
<1>8. NoQueryLeftBehind' /\ AnswerIsWhole'
  BY <1>1 DEF NoQueryLeftBehind, Alone, AnswerIsWhole
<1> QED
  BY <1>4, <1>6, <1>7, <1>8

LEMMA SpawnStep ==
  ASSUME ServiceInv, Spawn
  PROVE  ServiceInv'
<1> USE DEF ServiceInv
<1>1. /\ pc = "spawn" /\ ~fine' /\ UNCHANGED <<cur, backlog, link, sent, disturbed, answers, output, eof, unkillable>>
      /\ \/ pc' = "refuse" /\ child' = child
         \/ pc' = "poll" /\ child' = [child EXCEPT ![cur] = "runs"]
  BY DEF Spawn, Goto, clients, ServiceTypes
<1>2. cur \in Connections /\ link[cur] = "open" /\ child[cur] = "none" /\ cur \notin unkillable /\ sent[cur] = "query"
  BY <1>1 DEF Queueing, Progress
<1>3. fine' = FALSE
  BY DEF Spawn
<1>4. ServiceTypes' /\ Queueing'
  BY <1>1, <1>2, <1>3 DEF ServiceTypes, Queueing, Places
<1>5. Progress'
  BY <1>1, <1>2 DEF Progress, ServiceTypes, Queueing
<1>6. NoQueryLeftBehind' /\ AnswerIsWhole'
  BY <1>1, <1>2 DEF NoQueryLeftBehind, Alone, AnswerIsWhole, ServiceTypes
<1> QED
  BY <1>4, <1>5, <1>6

LEMMA CollectStep ==
  ASSUME ServiceInv, Collect
  PROVE  ServiceInv'
<1> USE DEF ServiceInv
<1>1. /\ pc = "poll" /\ eof[cur] /\ pc' = "cleanup" /\ fine' = (child[cur] = "done" /\ output[cur] = "whole")
      /\ UNCHANGED <<cur, backlog, link, sent, disturbed, answers, child, output, eof, unkillable>>
  BY DEF Collect, Goto, clients, process
<1>2. ServiceTypes' /\ Queueing'
  BY <1>1 DEF ServiceTypes, Queueing, Places
<1>3. Progress'
  BY <1>1 DEF Progress
<1>4. NoQueryLeftBehind' /\ AnswerIsWhole'
  BY <1>1 DEF NoQueryLeftBehind, Alone, AnswerIsWhole
<1> QED
  BY <1>2, <1>3, <1>4

LEMMA CleanupStep ==
  ASSUME ServiceInv, Cleanup
  PROVE  ServiceInv'
<1> USE DEF ServiceInv
<1> DEFINE reaped == IF child[cur] = "done" THEN "reaped" ELSE "dead"
<1>1. /\ pc = "cleanup" /\ UNCHANGED <<cur, fine, backlog, link, sent, disturbed, answers, output>>
      /\ \/ /\ child' = [child EXCEPT ![cur] = reaped] /\ eof' = [eof EXCEPT ![cur] = TRUE]
            /\ pc' = (IF fine THEN "deliver" ELSE "refuse") /\ unkillable' = unkillable
         \/ /\ child[cur] = "runs" /\ unkillable' = unkillable \cup {cur} /\ pc' = "refuse"
            /\ child' = child /\ eof' = eof
  <2>1. pc = "cleanup" /\ UNCHANGED <<fine, output>>
    BY DEF Cleanup
  <2>2. CASE /\ child' = [child EXCEPT ![cur] = IF @ = "done" THEN "reaped" ELSE "dead"]
             /\ eof' = [eof EXCEPT ![cur] = TRUE]
             /\ Goto(IF fine THEN "deliver" ELSE "refuse")
             /\ UNCHANGED unkillable
    BY <2>1, <2>2 DEF Goto, clients, ServiceTypes
  <2>3. CASE /\ child[cur] = "runs" /\ unkillable' = unkillable \cup {cur}
             /\ Goto("refuse")
             /\ UNCHANGED <<child, eof>>
    BY <2>1, <2>3 DEF Goto, clients
  <2> QED
    BY <2>2, <2>3 DEF Cleanup
<1>2. cur \in Connections /\ link[cur] = "open" /\ cur \notin unkillable /\ sent[cur] = "query" /\ answers[cur] = <<>>
  BY <1>1 DEF Queueing, Progress
<1>3. ServiceTypes'
  BY <1>1, <1>2 DEF ServiceTypes, Places
<1>4. Queueing'
  BY <1>1 DEF Queueing
<1>5. Progress'
  <2>1. \A y \in Connections : y # cur => child'[y] = child[y] /\ (y \in unkillable' <=> y \in unkillable)
    BY <1>1 DEF ServiceTypes
  <2>2. pc' = "deliver" => child'[cur] = "reaped" /\ eof'[cur] /\ output'[cur] = "whole" /\ cur \notin unkillable'
    BY <1>1, <1>2 DEF Progress, ServiceTypes
  <2> QED
    BY <1>1, <1>2, <2>1, <2>2 DEF Progress, Queueing
<1>6. NoQueryLeftBehind'
  BY <1>1, <1>2 DEF NoQueryLeftBehind, Alone, ServiceTypes
<1>7. AnswerIsWhole'
  <2> SUFFICES ASSUME NEW y \in Connections, "READ" \in Range(answers[y])
               PROVE  /\ answers[y] = <<"READ">> /\ sent[y] = "query"
                      /\ child'[y] = "reaped" /\ eof'[y] /\ output'[y] = "whole" /\ y \notin unkillable'
    BY <1>1 DEF AnswerIsWhole
  <2>1. y # cur
    BY <1>2 DEF Range
  <2> QED
    BY <1>1, <2>1 DEF AnswerIsWhole, ServiceTypes
<1> QED
  BY <1>3, <1>4, <1>5, <1>6, <1>7

\* What is in an answer of one part.
LEMMA OneAnswer ==
  ASSUME NEW what
  PROVE  Range(<<what>>) = {what} /\ Range(<<>>) = {} /\ Append(<<>>, what) = <<what>>
<1>1. DOMAIN <<what>> = {1} /\ <<what>>[1] = what /\ DOMAIN <<>> = {}
  OBVIOUS
<1>2. Append(<<>>, what) = <<what>>
  OBVIOUS
<1> QED
  BY <1>1, <1>2 DEF Range

\* The end of serve, with a whole list or with a refusal.
LEMMA AnswerStep ==
  ASSUME ServiceInv, NEW what \in {"READ", "REFUSED"}, Answer(what), pc \in {"deliver", "refuse"},
         what = "READ" => pc = "deliver"
  PROVE  ServiceInv'
<1> USE DEF ServiceInv
<1>1. /\ pc' = "accept" /\ cur' = None /\ fine' = FALSE /\ link' = [link EXCEPT ![cur] = "closed"]
      /\ UNCHANGED <<backlog, sent, disturbed, child, output, eof, unkillable>>
      /\ answers' = [answers EXCEPT ![cur] = Append(answers[cur], what)] \/ answers' = answers
  BY DEF Answer, process
<1>2. cur \in Connections /\ link[cur] = "open" /\ answers[cur] = <<>> /\ cur \notin {None}
  BY ConstantAssumption DEF Queueing, Progress, None
<1>3. answers' = [answers EXCEPT ![cur] = <<what>>] \/ answers' = answers
  BY <1>1, <1>2, OneAnswer
<1>4. ServiceTypes'
  <2>1. <<what>> \in Seq({"READ", "REFUSED"})
    OBVIOUS
  <2>2. answers' \in [Connections -> Seq({"READ", "REFUSED"})]
    BY <1>2, <1>3, <2>1 DEF ServiceTypes
  <2> QED
    BY <1>1, <1>2, <2>2 DEF ServiceTypes, Places
<1>5. \A y \in Connections : link'[y] = IF y = cur THEN "closed" ELSE link[y]
  BY <1>1, <1>2 DEF ServiceTypes
<1>6. Queueing'
  <2>1. \A i \in DOMAIN backlog : backlog[i] \in Connections /\ backlog[i] # cur
    BY <1>2 DEF Queueing, ServiceTypes
  <2> QED
    BY <1>1, <1>5, <2>1 DEF Queueing
<1>7. Progress'
  <2>1. \A y \in Connections : y # cur => answers'[y] = answers[y]
    BY <1>2, <1>3 DEF ServiceTypes
  <2> QED
    BY <1>1, <1>5, <2>1 DEF Progress
<1>8. NoQueryLeftBehind'
  BY <1>1, <1>2 DEF NoQueryLeftBehind, Alone
<1>9. AnswerIsWhole'
  <2> SUFFICES ASSUME NEW y \in Connections, "READ" \in Range(answers'[y])
               PROVE  /\ answers'[y] = <<"READ">> /\ sent[y] = "query"
                      /\ child[y] = "reaped" /\ eof[y] /\ output[y] = "whole" /\ y \notin unkillable
    BY <1>1 DEF AnswerIsWhole
  <2>1. CASE answers'[y] = answers[y]
    BY <2>1 DEF AnswerIsWhole
  <2>2. CASE y = cur /\ answers'[y] = <<what>>
    <3>1. what = "READ"
      BY <2>2, OneAnswer
    <3> QED
      BY <2>2, <3>1, <1>2 DEF Progress, NoQueryLeftBehind, Queueing
  <2> QED
    BY <1>2, <1>3, <2>1, <2>2 DEF ServiceTypes
<1> QED
  BY <1>4, <1>6, <1>7, <1>8, <1>9

LEMMA DeliverStep ==
  ASSUME ServiceInv, Deliver
  PROVE  ServiceInv'
<1>1. CASE Answer("READ")
  BY <1>1, AnswerStep DEF Deliver
<1>2. CASE Goto("refuse") /\ UNCHANGED <<timer, fine, process>>
  <2> USE DEF ServiceInv
  <2>1. /\ pc = "deliver" /\ pc' = "refuse"
        /\ UNCHANGED <<cur, fine, backlog, link, sent, disturbed, answers, child, output, eof, unkillable>>
    BY <1>2 DEF Deliver, Goto, clients, process
  <2>2. ServiceTypes' /\ Queueing' /\ Progress'
    BY <2>1 DEF ServiceTypes, Queueing, Progress, Places
  <2> QED
    BY <2>1, <2>2 DEF NoQueryLeftBehind, Alone, AnswerIsWhole
<1> QED
  BY <1>1, <1>2 DEF Deliver

LEMMA StopStep ==
  ASSUME ServiceInv, Stop
  PROVE  ServiceInv'
<1> USE DEF ServiceInv
<1> DEFINE running == {y \in Connections : child[y] = "runs"}
<1>1. PICK remaining \in SUBSET running :
        /\ unkillable' = unkillable \cup remaining
        /\ child' = [y \in Connections |->
                       IF child[y] \in {"none", "reaped"} \/ y \in remaining THEN child[y] ELSE "dead"]
  BY DEF Stop
<1>2. /\ pc' = "down" /\ cur' = None /\ fine' = FALSE
      /\ link' = [y \in Connections |-> IF y = cur THEN "closed" ELSE link[y]]
      /\ UNCHANGED <<backlog, sent, disturbed, output, eof, answers>>
  BY DEF Stop
<1>3. remaining \subseteq Connections /\ \A y \in remaining : child[y] = "runs"
  OBVIOUS
<1>4. ServiceTypes'
  BY <1>1, <1>2, <1>3 DEF ServiceTypes, Places
<1>5. \A y \in Connections : link'[y] \in {"none", "queued"} => link[y] = link'[y]
  BY <1>2
<1>6. Queueing'
  <2>1. \A i \in DOMAIN backlog : backlog[i] \in Connections /\ backlog[i] # cur
    BY ConstantAssumption DEF Queueing, ServiceTypes, None
  <2>2. \A y \in Connections : link'[y] # "open"
    BY <1>2 DEF Queueing
  <2> QED
    BY <1>2, <2>1, <2>2 DEF Queueing
<1>7. Progress'
  <2>1. \A y \in Connections : link'[y] # "closed" => link[y] # "closed"
    BY <1>2
  <2> QED
    BY <1>1, <1>2, <1>3, <1>5, <2>1 DEF Progress
<1>8. NoQueryLeftBehind'
  BY <1>1, <1>3 DEF NoQueryLeftBehind, Alone, ServiceTypes
<1>9. AnswerIsWhole'
  BY <1>1, <1>2, <1>3 DEF AnswerIsWhole
<1> QED
  BY <1>4, <1>6, <1>7, <1>8, <1>9

LEMMA ServiceStep ==
  ASSUME ServiceInv, [Next]_vars
  PROVE  ServiceInv'
<1>1. CASE Serve
  <2>1. CASE Refuse
    BY <2>1, AnswerStep DEF Refuse
  <2> QED
    BY <1>1, <2>1, GoOnStep, AcceptStep, SpawnStep, CollectStep, CleanupStep, DeliverStep DEF Serve
<1>2. CASE Client \/ Child
  BY <1>2, OutsideStep
<1>3. CASE Stop
  BY <1>3, StopStep
<1>4. CASE Fault
  BY <1>4, GoOnStep
<1>5. CASE Tick \/ UNCHANGED vars
  <2>1. UNCHANGED <<pc, cur, fine, backlog, link, sent, disturbed, answers, child, output, eof, unkillable>>
    BY <1>5 DEF Tick, vars, service, clients, process
  <2> QED
    BY <2>1 DEF ServiceInv, ServiceTypes, Queueing, Progress, NoQueryLeftBehind, Alone, AnswerIsWhole
<1> QED
  BY <1>1, <1>2, <1>3, <1>4, <1>5 DEF Next

\* ManagementService by itself: whatever way a query ends, its process is reaped before
\* the service goes on, but for one that SIGKILL did not end (query, _stop_child).
THEOREM QueriesAreReaped == Spec => []NoQueryLeftBehind
<1>1. ServiceInv => NoQueryLeftBehind
  BY DEF ServiceInv
<1> QED
  BY <1>1, ServiceInit, ServiceStep, PTL DEF Spec

\* A list is sent only to the client whose own query wrote all of it, succeeded and was
\* reaped, and nothing else is sent with it (serve and query).
THEOREM OwnWholeAnswer == Spec => []AnswerIsWhole
<1>1. ServiceInv => AnswerIsWhole
  BY DEF ServiceInv
<1> QED
  BY <1>1, ServiceInit, ServiceStep, PTL DEF Spec

-----------------------------------------------------------------------------
(***************************************************************************)
(* An adopted command.                                                     *)
(***************************************************************************)

\* The request: what the client marks of it, and what the service can know of it.
Requests ==
  /\ place = "start" => ~asked
  /\ ~asked => place \in {"start", "done"} /\ ~request
  /\ told = "no request was sent" => place = "done" /\ ~asked
  /\ ~request => phase \in {"idle", "closed"} /\ ~effects

\* The consent, from the line that was typed to the commit.
Consent ==
  /\ place \in {"flush", "show", "ask", "answer"} => offered
  /\ place \in {"show", "ask"} => \A i \in DOMAIN typed : typed[i] => "flushed" \in said
  /\ confirmed => offered /\ "flushed" \in said
  /\ phase \in {"confirmed", "committed"} \/ effects \/ reply = "yes" =>
       confirmed /\ place \in {"wait", "done"}
  /\ told = "cancelled" => place = "done" /\ ~confirmed

\* The result, from the service to the user.
Outcome ==
  /\ \A i \in DOMAIN inbox : /\ inbox[i] = "REFUSED" => phase = "closed" /\ ~effects
                             /\ inbox[i] = "COMMITTED" => effects
  /\ told = "REFUSED" => place = "done" /\ phase = "closed" /\ ~effects
  /\ status = 0 => place = "done" /\ (action = "change" => effects)

CommandInv == Command!TypeOK /\ Requests /\ Consent /\ Outcome

\* One more at the end of a sequence, and one less at its front.
LEMMA OneMore ==
  ASSUME NEW S, NEW s \in Seq(S), NEW e \in S
  PROVE  /\ Append(s, e) \in Seq(S)
         /\ \A i \in DOMAIN Append(s, e) : Append(s, e)[i] = e \/ (i \in DOMAIN s /\ Append(s, e)[i] = s[i])
  OBVIOUS

LEMMA OneLess ==
  ASSUME NEW S, NEW s \in Seq(S), s # <<>>
  PROVE  /\ Tail(s) \in Seq(S) /\ Head(s) = s[1] /\ s[1] \in S /\ 1 \in DOMAIN s
         /\ \A i \in DOMAIN Tail(s) : i + 1 \in DOMAIN s /\ Tail(s)[i] = s[i + 1]
  OBVIOUS

LEMMA CommandInit == Command!Init => CommandInv
<1> SUFFICES ASSUME Command!Init PROVE CommandInv
  OBVIOUS
<1> USE DEF Command!Init
<1>1. Command!TypeOK
  <2>1. typed \in Seq(BOOLEAN) /\ inbox \in Seq(Command!Results \cup {"OFFER", "LIST", "EOF"})
    OBVIOUS
  <2> QED
    BY <2>1 DEF Command!TypeOK
<1>2. DOMAIN inbox = {} /\ DOMAIN typed = {}
  OBVIOUS
<1> QED
  BY <1>1, <1>2 DEF CommandInv, Requests, Consent, Outcome

\* What the client may find when it reads: nothing that was not sent.
Messages == Seq(Command!Results \cup {"OFFER", "LIST", "EOF"})
NothingNew == inbox' \in Messages /\ \A i \in DOMAIN inbox' : \E k \in DOMAIN inbox : inbox'[i] = inbox[k]

LEMMA Reading ==
  ASSUME Command!TypeOK, inbox' = inbox \/ (inbox # <<>> /\ inbox' = Tail(inbox))
  PROVE  NothingNew
<1>1. inbox \in Messages
  BY DEF Command!TypeOK, Messages
<1>2. CASE inbox' = inbox
  BY <1>1, <1>2 DEF NothingNew
<1>3. CASE inbox # <<>> /\ inbox' = Tail(inbox)
  BY <1>1, <1>3, OneLess DEF NothingNew, Messages
<1> QED
  BY <1>2, <1>3

\* The client ends with an error, wherever it is, and knows whether it sent anything.
LEMMA FailedStep ==
  ASSUME CommandInv, Command!Failed, place # "done", request' = request \/ (asked /\ request' = TRUE),
         typed' \in Seq(BOOLEAN), UNCHANGED <<action, shown, lines, said, reply, phase, left, effects>>,
         NothingNew
  PROVE  CommandInv'
<1> USE DEF CommandInv
<1>1. /\ place' = "done" /\ told' = (IF asked THEN "unconfirmed" ELSE "no request was sent") /\ status' = 1
      /\ clock' = 0 /\ UNCHANGED <<asked, offered, confirmed>>
  BY DEF Command!Failed, Command!End
<1>2. Command!TypeOK'
  BY <1>1 DEF Command!TypeOK, NothingNew, Messages
<1>3. Requests'
  <2>1. place' = "start" => ~asked'
    BY <1>1
  <2>2. ~asked' => place' \in {"start", "done"} /\ ~request'
    BY <1>1 DEF Requests, Command!TypeOK
  <2>3. told' = "no request was sent" => place' = "done" /\ ~asked'
    BY <1>1 DEF Requests, Command!TypeOK
  <2>4. ~request' => phase' \in {"idle", "closed"} /\ ~effects'
    BY <1>1 DEF Requests, Command!TypeOK
  <2> QED
    BY <2>1, <2>2, <2>3, <2>4 DEF Requests
<1>4. Consent'
  BY <1>1 DEF Consent
<1>5. Outcome'
  <2>1. told' # "REFUSED" /\ status' # 0
    <3>1. told' # "REFUSED"
      BY <1>1
    <3>2. status' # 0
      <4>1. 1 # 0
        OBVIOUS
      <4> QED
        BY <1>1, <4>1, Zenon
    <3> QED
      BY <3>1, <3>2
  <2>2. \A i \in DOMAIN inbox' : /\ inbox'[i] = "REFUSED" => phase = "closed" /\ ~effects
                                 /\ inbox'[i] = "COMMITTED" => effects
    BY DEF Outcome, NothingNew
  <2> QED
    BY <2>1, <2>2 DEF Outcome
<1> QED
  BY <1>2, <1>3, <1>4, <1>5

\* From the start to the wait for an offer or a result.
LEMMA RequestStep ==
  ASSUME CommandInv, Command!Connected \/ Command!SendRequest \/ Command!SendUnnoticed, UNCHANGED action
  PROVE  CommandInv'
<1> USE DEF CommandInv
<1>1. CASE Command!Connected
  <2>1. /\ place = "start" /\ place' = "sending" /\ asked' = TRUE
        /\ UNCHANGED <<offered, confirmed, clock, told, status, typed, shown, lines, said, inbox, request, reply, phase, left, effects>>
    BY <1>1 DEF Command!Connected, Command!terminal, Command!server
  <2> QED
    BY <2>1 DEF Command!TypeOK, Requests, Consent, Outcome
<1>2. CASE Command!SendRequest
  <2>1. /\ place = "sending" /\ place' = "wait" /\ asked' = TRUE /\ clock' = WaitTime /\ request' = TRUE
        /\ UNCHANGED <<offered, confirmed, told, status, typed, shown, lines, said, inbox, reply, phase, left, effects>>
    BY <1>2 DEF Command!SendRequest, Command!terminal
  <2>2. WaitTime \in Nat
    BY OtherAssumptions DEF Command!ConstantAssumption
  <2> QED
    BY <2>1, <2>2 DEF Command!TypeOK, Requests, Consent, Outcome
<1>3. CASE Command!SendUnnoticed
  <2>1. asked
    BY <1>3 DEF Command!SendUnnoticed, Requests
  <2>2. NothingNew
    BY <1>3, Reading DEF Command!SendUnnoticed
  <2> QED
    BY <1>3, <2>1, <2>2, FailedStep DEF Command!SendUnnoticed, Command!terminal, CommandInv, Command!TypeOK
<1> QED
  BY <1>1, <1>2, <1>3

\* An offer: taken, or refused by the client.
LEMMA TakeOfferStep ==
  ASSUME CommandInv, Command!TakeOffer, UNCHANGED action
  PROVE  CommandInv'
<1>1. /\ place = "wait" /\ UNCHANGED <<typed, shown, lines, said, reply, request, phase, left, effects>>
  BY DEF Command!TakeOffer, Command!terminal, Command!server
<1>2. NothingNew
  BY Reading DEF Command!TakeOffer, CommandInv
<1>3. CASE Command!Failed
  BY <1>1, <1>2, <1>3, FailedStep DEF CommandInv, Command!TypeOK
<1>4. CASE place' = "flush" /\ offered' = TRUE /\ ~offered /\ UNCHANGED <<asked, confirmed, clock, told, status>>
  BY <1>1, <1>2, <1>4 DEF CommandInv, Command!TypeOK, Requests, Consent, Outcome, NothingNew, Messages
<1> QED
  BY <1>3, <1>4 DEF Command!TakeOffer

\* The typed lines are dropped, the plan is shown, and the terminal is asked.
LEMMA PlanStep ==
  ASSUME CommandInv, Command!Flush \/ Command!Show \/ Command!Ask, UNCHANGED action
  PROVE  CommandInv'
<1>1. CASE Command!Flush
  <2>1. /\ place = "flush" /\ place' = "show" /\ typed' = <<>>
        /\ UNCHANGED <<asked, offered, confirmed, clock, told, status, shown, lines, said, inbox, reply, request, phase, left, effects>>
    BY <1>1 DEF Command!Flush, Command!Step, Command!server
  <2>2. typed' \in Seq(BOOLEAN) /\ DOMAIN typed' = {}
    BY <2>1
  <2> QED
    BY <2>1, <2>2 DEF CommandInv, Command!TypeOK, Requests, Consent, Outcome
<1>2. CASE Command!Show
  <2>1. /\ place = "show" /\ place' = "ask" /\ shown' = TRUE
        /\ UNCHANGED <<asked, offered, confirmed, clock, told, status, typed, lines, said, inbox, reply, request, phase, left, effects>>
    BY <1>2 DEF Command!Show, Command!Step, Command!server
  <2> QED
    BY <2>1 DEF CommandInv, Command!TypeOK, Requests, Consent, Outcome
<1>3. CASE Command!Ask
  <2>1. place = "ask" /\ UNCHANGED <<shown, lines, said, inbox, reply, request, phase, left, effects>>
    BY <1>3 DEF Command!Ask, Command!server
  <2>2. CASE Command!Failed /\ UNCHANGED typed
    <3>1. NothingNew
      BY <2>1, Reading DEF CommandInv
    <3> QED
      BY <2>1, <2>2, <3>1, FailedStep DEF CommandInv, Command!TypeOK
  <2>3. CASE /\ typed # <<>> /\ typed' = Tail(typed) /\ place' = "answer" /\ confirmed' = Head(typed)
             /\ UNCHANGED <<asked, offered, clock, told, status>>
    <3>1. typed' \in Seq(BOOLEAN) /\ confirmed' \in BOOLEAN /\ 1 \in DOMAIN typed /\ confirmed' = typed[1]
      BY <2>3, OneLess DEF CommandInv, Command!TypeOK
    <3>2. confirmed' => "flushed" \in said
      BY <2>1, <3>1 DEF CommandInv, Consent
    <3>3. offered /\ told # "cancelled"
      BY <2>1 DEF CommandInv, Consent
    <3>4. ~(phase \in {"confirmed", "committed"} \/ effects \/ reply = "yes")
      BY <2>1 DEF CommandInv, Consent
    <3>5. Command!TypeOK'
      BY <2>1, <2>3, <3>1 DEF CommandInv, Command!TypeOK
    <3>6. Consent'
      BY <2>1, <2>3, <3>2, <3>3, <3>4 DEF Consent
    <3> QED
      BY <2>1, <2>3, <3>5, <3>6 DEF CommandInv, Requests, Outcome
  <2> QED
    BY <1>3, <2>2, <2>3 DEF Command!Ask
<1> QED
  BY <1>1, <1>2, <1>3

\* The typed answer goes to the service; a no ends the command.
LEMMA ReplyStep ==
  ASSUME CommandInv, Command!Reply, UNCHANGED action
  PROVE  CommandInv'
<1>1. /\ place = "answer"
      /\ UNCHANGED <<typed, shown, lines, said, inbox, request, phase, left, effects>>
  BY DEF Command!Reply, Command!terminal, Command!server
<1>2. CASE Command!Failed /\ UNCHANGED reply
  <2>1. NothingNew
    BY <1>1, Reading DEF CommandInv
  <2> QED
    BY <1>1, <1>2, <2>1, FailedStep DEF CommandInv, Command!TypeOK
<1>3. CASE confirmed /\ reply' = "yes" /\ place' = "wait" /\ clock' = left
           /\ UNCHANGED <<asked, offered, confirmed, told, status>>
  BY <1>1, <1>3 DEF CommandInv, Command!TypeOK, Requests, Consent, Outcome
<1>4. CASE ~confirmed /\ reply' = "no" /\ Command!End("cancelled", 1)
  <2>1. place' = "done" /\ told' = "cancelled" /\ status' = 1 /\ clock' = 0 /\ UNCHANGED <<asked, offered, confirmed>>
    BY <1>4 DEF Command!End
  <2>2. Command!TypeOK' /\ Requests' /\ Consent'
    BY <1>1, <1>4, <2>1 DEF CommandInv, Command!TypeOK, Requests, Consent
  <2>3. status' # 0
    <3>1. 1 # 0
      OBVIOUS
    <3> QED
      BY <2>1, <3>1, Zenon
  <2>4. Outcome'
    BY <1>1, <2>1, <2>3 DEF CommandInv, Outcome
  <2> QED
    BY <2>2, <2>4 DEF CommandInv
<1> QED
  BY <1>2, <1>3, <1>4 DEF Command!Reply

LEMMA TakeResultStep ==
  ASSUME CommandInv, Command!TakeResult, UNCHANGED action
  PROVE  CommandInv'
<1> DEFINE result == Head(inbox)
<1>1. /\ place = "wait" /\ inbox # <<>> /\ result \in Command!Results \cup {"LIST", "EOF"}
      /\ UNCHANGED <<typed, shown, lines, said, reply, request, phase, left, effects>>
  BY DEF Command!TakeResult, Command!terminal, Command!server
<1>2. NothingNew
  BY Reading DEF Command!TakeResult, CommandInv
<1>3. result = inbox[1] /\ 1 \in DOMAIN inbox
  BY <1>1, OneLess DEF CommandInv, Command!TypeOK
<1>4. (result = "REFUSED" => phase = "closed" /\ ~effects) /\ (result = "COMMITTED" => effects)
  BY <1>3 DEF CommandInv, Outcome
<1>5. \/ Command!Failed
      \/ Command!Succeeds(result) /\ Command!End(result, 0)
      \/ result \in {"REFUSED", "INDETERMINATE"} /\ Command!End(result, 1)
  BY DEF Command!TakeResult
<1> HIDE DEF result
<1>6. CASE Command!Failed
  BY <1>1, <1>2, <1>6, FailedStep DEF CommandInv, Command!TypeOK
<1>7. ASSUME NEW code \in {0, 1}, Command!End(result, code),
             result \in {"COMMITTED", "PREVIEW", "READ_ONLY", "LIST", "REFUSED", "INDETERMINATE"},
             code = 0 => Command!Succeeds(result)
      PROVE  CommandInv'
  <2>1. /\ place' = "done" /\ told' = result /\ status' = code /\ clock' = 0
        /\ UNCHANGED <<asked, offered, confirmed>>
    BY <1>7 DEF Command!End
  <2>2. Command!TypeOK'
    <3>1. status' \in {-1, 0, 1} /\ clock' \in Nat
      BY <2>1
    <3>2. told' \in {"none", "no request was sent", "unconfirmed", "cancelled", "LIST"} \cup Command!Results
      BY <1>7, <2>1 DEF Command!Results
    <3> QED
      BY <1>1, <1>2, <2>1, <3>1, <3>2 DEF CommandInv, Command!TypeOK, NothingNew, Messages
  <2>3. Requests' /\ Consent'
    BY <1>1, <1>7, <2>1 DEF CommandInv, Requests, Consent
  <2>4. status' = 0 => (action' = "change" => effects)
    BY <1>4, <1>7, <2>1 DEF Command!Succeeds
  <2>5. Outcome'
    BY <1>1, <1>2, <1>4, <2>1, <2>4 DEF CommandInv, Outcome, NothingNew
  <2> QED
    BY <2>2, <2>3, <2>5 DEF CommandInv
<1>8. CASE Command!Succeeds(result) /\ Command!End(result, 0)
  BY <1>7, <1>8 DEF Command!Succeeds
<1>9. CASE result \in {"REFUSED", "INDETERMINATE"} /\ Command!End(result, 1)
  <2>1. 1 # 0 /\ 1 \in {0, 1}
    OBVIOUS
  <2> QED
    BY <1>7, <1>9, <2>1, Zenon
<1> QED
  BY <1>5, <1>6, <1>8, <1>9

\* A deadline or any failure.
LEMMA EndStep ==
  ASSUME CommandInv, UNCHANGED action, Command!Fail \/ Command!Deadline
  PROVE  CommandInv'
<1>1. /\ place # "done" /\ Command!Failed
      /\ UNCHANGED <<inbox, typed, shown, lines, said, reply, request, phase, left, effects>>
      /\ typed \in Seq(BOOLEAN)
  BY DEF CommandInv, Command!TypeOK, Command!Fail, Command!Deadline, Command!terminal, Command!server
<1>2. NothingNew
  BY <1>1, Reading DEF CommandInv
<1> QED
  BY <1>1, <1>2, FailedStep

\* A line typed at the terminal, or the passing of time, keeps the types.
LEMMA SmallSteps ==
  ASSUME Command!TypeOK, typed' \in Seq(BOOLEAN), said' \subseteq {"flushed", "shown"},
         lines' \in Nat, clock' \in Nat, left' \in Nat,
         UNCHANGED <<action, place, asked, offered, confirmed, told, status, shown, inbox, reply, request,
                     phase, effects>>
  PROVE  Command!TypeOK'
<1>1. {asked', offered', confirmed', shown', request', effects'} \subseteq BOOLEAN
  BY DEF Command!TypeOK
<1>2. status' \in {-1, 0, 1}
  BY DEF Command!TypeOK
<1>3. /\ action' \in {"read", "preview", "change"}
      /\ place' \in {"start", "sending", "wait", "flush", "show", "ask", "answer", "done"}
      /\ reply' \in {"none", "yes", "no"}
      /\ phase' \in {"idle", "planning", "offered", "confirmed", "committed", "failed", "closed"}
  BY DEF Command!TypeOK
<1>4. told' \in {"none", "no request was sent", "unconfirmed", "cancelled", "LIST"} \cup Command!Results
  BY DEF Command!TypeOK
<1>5. inbox' \in Seq(Command!Results \cup {"OFFER", "LIST", "EOF"})
  BY DEF Command!TypeOK
<1> QED
  BY <1>1, <1>2, <1>3, <1>4, <1>5 DEF Command!TypeOK

LEMMA TypeStep ==
  ASSUME CommandInv, UNCHANGED action
  PROVE  (\E yes \in BOOLEAN : Command!Type(yes)) => CommandInv'
<1>1. ASSUME NEW yes \in BOOLEAN, Command!Type(yes) PROVE CommandInv'
  <2>1. UNCHANGED <<place, asked, offered, confirmed, clock, told, status, shown, inbox, reply, request, phase, left, effects>>
    BY <1>1 DEF Command!Type, Command!client, Command!server
  <2>2. typed' = Append(typed, yes)
    BY <1>1 DEF Command!Type
  <2>3. said \subseteq said' /\ said' \subseteq {"flushed", "shown"}
        /\ (yes /\ offered /\ place # "flush" => "flushed" \in said')
    BY <1>1 DEF Command!Type, CommandInv, Command!TypeOK
  <2>4. /\ typed' \in Seq(BOOLEAN)
        /\ \A i \in DOMAIN typed' : (i \in DOMAIN typed /\ typed'[i] = typed[i]) \/ typed'[i] = yes
    <3>1. typed \in Seq(BOOLEAN)
      BY DEF CommandInv, Command!TypeOK
    <3>2. /\ Append(typed, yes) \in Seq(BOOLEAN)
          /\ \A i \in DOMAIN Append(typed, yes) :
               Append(typed, yes)[i] = yes \/ (i \in DOMAIN typed /\ Append(typed, yes)[i] = typed[i])
      BY <3>1, OneMore
    <3> QED
      BY <2>2, <3>2, Zenon
  <2>5. lines' \in Nat
    <3>1. lines \in Nat
      BY DEF CommandInv, Command!TypeOK
    <3>2. lines' = lines + 1
      BY <1>1 DEF Command!Type
    <3> QED
      BY <3>1, <3>2
  <2>6. Command!TypeOK'
    <3>1. typed' \in Seq(BOOLEAN)
      BY <2>4
    <3>2. said' \subseteq {"flushed", "shown"}
      BY <2>3
    <3>3. clock' \in Nat /\ left' \in Nat
      BY <2>1 DEF CommandInv, Command!TypeOK
    <3> QED
      BY <2>1, <2>5, <3>1, <3>2, <3>3, SmallSteps DEF CommandInv
  <2>7. Consent'
    <3>1. place' \in {"show", "ask"} => \A i \in DOMAIN typed' : typed'[i] => "flushed" \in said'
      BY <2>1, <2>3, <2>4 DEF CommandInv, Consent
    <3> QED
      BY <2>1, <2>3, <3>1 DEF CommandInv, Consent
  <2> QED
    BY <2>1, <2>6, <2>7 DEF CommandInv, Requests, Outcome
<1> QED
  BY <1>1

\* What the service sends is all that the client finds more.
LEMMA Telling ==
  ASSUME Command!TypeOK, NEW message \in Command!Results \cup {"OFFER", "LIST", "EOF"}, Command!Tell(message)
  PROVE  /\ inbox' \in Messages
         /\ \A i \in DOMAIN inbox' : inbox'[i] = message \/ \E k \in DOMAIN inbox : inbox'[i] = inbox[k]
<1>1. inbox \in Messages
  BY DEF Command!TypeOK, Messages
<1>2. CASE inbox' = inbox
  BY <1>1, <1>2
<1>3. CASE inbox' = Append(inbox, message)
  BY <1>1, <1>3, OneMore DEF Messages
<1> QED
  BY <1>2, <1>3 DEF Command!Tell

\* The service with its PlanConsent, up to the commit.
LEMMA PlanConsentStep ==
  ASSUME CommandInv, UNCHANGED action,
         Command!Receive \/ Command!Offer \/ Command!ReceiveConfirmation \/ Command!Commit
  PROVE  CommandInv'
<1>1. CASE Command!Receive
  <2>1. /\ phase = "idle" /\ request /\ phase' = "planning"
        /\ UNCHANGED <<place, asked, offered, confirmed, clock, told, status, typed, shown, lines, said, inbox, reply,
                       request, left, effects>>
    BY <1>1 DEF Command!Receive, Command!client, Command!terminal
  <2>2. Command!TypeOK'
    BY <2>1 DEF CommandInv, Command!TypeOK
  <2>3. Requests' /\ Consent' /\ Outcome'
    BY <2>1 DEF CommandInv, Requests, Consent, Outcome
  <2> QED
    BY <2>2, <2>3 DEF CommandInv
<1>2. CASE Command!Offer
  <2>1. /\ phase = "planning" /\ phase' = "offered" /\ left' = OfferTime
        /\ UNCHANGED <<place, asked, offered, confirmed, clock, told, status, typed, shown, lines, said, reply,
                       request, effects>>
    BY <1>2 DEF Command!Offer, Command!client, Command!terminal
  <2>2. /\ inbox' \in Messages
        /\ \A i \in DOMAIN inbox' : inbox'[i] = "OFFER" \/ \E k \in DOMAIN inbox : inbox'[i] = inbox[k]
    BY <1>2, Telling DEF Command!Offer, CommandInv
  <2>3. left' \in Nat
    BY <2>1, OtherAssumptions DEF Command!ConstantAssumption
  <2>4. Command!TypeOK'
    BY <2>1, <2>2, <2>3 DEF CommandInv, Command!TypeOK, Messages
  <2>5. Outcome'
    BY <2>1, <2>2 DEF CommandInv, Outcome
  <2> QED
    BY <2>1, <2>4, <2>5 DEF CommandInv, Requests, Consent
<1>3. CASE Command!ReceiveConfirmation
  <2>1. /\ phase = "offered" /\ reply' = "none"
        /\ phase' = "failed" \/ (reply = "yes" /\ phase' = "confirmed")
        /\ UNCHANGED <<place, asked, offered, confirmed, clock, told, status, typed, shown, lines, said, inbox,
                       request, left, effects>>
    BY <1>3 DEF Command!ReceiveConfirmation, Command!client, Command!terminal
  <2> QED
    BY <2>1 DEF CommandInv, Command!TypeOK, Requests, Consent, Outcome
<1>4. CASE Command!Commit
  <2>1. /\ phase = "confirmed"
        /\ UNCHANGED <<place, asked, offered, confirmed, clock, told, status, typed, shown, lines, said, inbox, reply,
                       request, left>>
    BY <1>4 DEF Command!Commit, Command!client, Command!terminal
  <2>2. CASE phase' = "failed" /\ UNCHANGED effects
    BY <2>1, <2>2 DEF CommandInv, Command!TypeOK, Requests, Consent, Outcome
  <2>3. CASE phase' = "committed" /\ effects' = TRUE
    BY <2>1, <2>3 DEF CommandInv, Command!TypeOK, Requests, Consent, Outcome
  <2> QED
    BY <1>4, <2>2, <2>3 DEF Command!Commit
<1> QED
  BY <1>1, <1>2, <1>3, <1>4

\* The result, or the end of the connection.
LEMMA CloseStep ==
  ASSUME CommandInv, UNCHANGED action,
         Command!Drop \/ \E result \in Command!Results \cup {"LIST"} : Command!Result(result)
  PROVE  CommandInv'
<1>1. PICK message \in Command!Results \cup {"LIST", "EOF"} :
        /\ Command!Tell(message) /\ (message = "COMMITTED" => effects) /\ (message = "REFUSED" => ~effects)
        /\ phase' = "closed" /\ (phase = "idle" => message = "EOF")
        /\ UNCHANGED <<place, asked, offered, confirmed, clock, told, status, typed, shown, lines, said, reply,
                       request, left, effects>>
  <2>1. CASE Command!Drop
    BY <2>1 DEF Command!Drop, Command!client, Command!terminal, Command!Results
  <2>2. CASE \E result \in Command!Results \cup {"LIST"} : Command!Result(result)
    BY <2>2 DEF Command!Result, Command!client, Command!terminal
  <2> QED
    BY <2>1, <2>2
<1>2. /\ inbox' \in Messages
      /\ \A i \in DOMAIN inbox' : inbox'[i] = message \/ \E k \in DOMAIN inbox : inbox'[i] = inbox[k]
  BY <1>1, Telling DEF CommandInv
<1>3. Command!TypeOK'
  BY <1>1, <1>2 DEF CommandInv, Command!TypeOK, Messages
<1>4. Requests' /\ Consent'
  BY <1>1 DEF CommandInv, Requests, Consent
<1>5. Outcome'
  BY <1>1, <1>2 DEF CommandInv, Outcome
<1> QED
  BY <1>3, <1>4, <1>5 DEF CommandInv

LEMMA CommandStep ==
  ASSUME CommandInv, Command!Next \/ UNCHANGED command
  PROVE  CommandInv'
<1>1. CASE UNCHANGED command
  <2>1. /\ UNCHANGED <<action, place, asked, offered, confirmed, told, status, typed, shown, lines, said, inbox, reply,
                       request, phase, effects>>
        /\ UNCHANGED <<clock, left>>
    BY <1>1 DEF command
  <2>2. /\ typed' \in Seq(BOOLEAN) /\ said' \subseteq {"flushed", "shown"} /\ lines' \in Nat
        /\ clock' \in Nat /\ left' \in Nat
    BY <2>1 DEF CommandInv, Command!TypeOK
  <2>3. Command!TypeOK'
    BY <2>1, <2>2, SmallSteps DEF CommandInv
  <2> QED
    BY <2>1, <2>3 DEF CommandInv, Requests, Consent, Outcome
<1>2. CASE Command!Tick /\ UNCHANGED action
  <2>1. UNCHANGED <<action, place, asked, offered, confirmed, told, status, typed, shown, lines, said, inbox, reply,
                    request, phase, effects>>
    BY <1>2 DEF Command!Tick, Command!terminal
  <2>2. clock' \in Nat /\ left' \in Nat
    <3>1. clock \in Nat /\ left \in Nat
      BY DEF CommandInv, Command!TypeOK
    <3>2. clock' = (IF clock > 0 THEN clock - 1 ELSE 0) /\ left' = (IF left > 0 THEN left - 1 ELSE 0)
      BY <1>2 DEF Command!Tick
    <3> QED
      BY <3>1, <3>2
  <2>3. typed' \in Seq(BOOLEAN) /\ said' \subseteq {"flushed", "shown"} /\ lines' \in Nat
    BY <2>1 DEF CommandInv, Command!TypeOK
  <2>4. Command!TypeOK'
    BY <2>1, <2>2, <2>3, SmallSteps DEF CommandInv
  <2> QED
    BY <2>1, <2>4 DEF CommandInv, Requests, Consent, Outcome
<1>3. CASE Command!Execute /\ UNCHANGED action
  BY <1>3, RequestStep, TakeOfferStep, PlanStep, ReplyStep, TakeResultStep, EndStep DEF Command!Execute
<1>4. CASE Command!Serve /\ UNCHANGED action
  BY <1>4, PlanConsentStep, CloseStep DEF Command!Serve
<1>5. CASE Command!Fail /\ UNCHANGED action
  BY <1>5, EndStep
<1>6. CASE (\E yes \in BOOLEAN : Command!Type(yes)) /\ UNCHANGED action
  BY <1>6, TypeStep
<1> QED
  BY <1>1, <1>2, <1>3, <1>4, <1>5, <1>6 DEF Command!Next

LEMMA CommandSafe == CommandInv => Command!ReportIsTrue
  BY DEF CommandInv, Command!TypeOK, Requests, Consent, Outcome, Command!ReportIsTrue

\* The step that commits, and what holds in it.
CommitsAtYes == effects' # effects => /\ confirmed /\ "flushed" \in said
                                      /\ left > 0 /\ place = "wait"

\* Only Commit changes the effects, and what it checks adds to what Consent knows.
LEMMA CommitStep ==
  ASSUME CommandInv, Command!Next
  PROVE  CommitsAtYes
<1>1. CASE Command!Execute \/ Command!Fail \/ Command!Tick \/ \E yes \in BOOLEAN : Command!Type(yes)
  <2>1. CASE Command!Execute
    BY <2>1 DEF Command!Execute, Command!Connected, Command!SendRequest, Command!SendUnnoticed, Command!TakeOffer,
                Command!Flush, Command!Show, Command!Ask, Command!Reply, Command!TakeResult, Command!Deadline,
                Command!server, CommitsAtYes
  <2>2. CASE Command!Fail \/ Command!Tick \/ \E yes \in BOOLEAN : Command!Type(yes)
    BY <2>2 DEF Command!Fail, Command!Tick, Command!Type, Command!server, CommitsAtYes
  <2> QED
    BY <1>1, <2>1, <2>2
<1>2. CASE Command!Serve
  <2>1. CASE Command!Commit
    <3>1. phase = "confirmed" /\ (effects' # effects => left > 0 /\ place # "done")
      BY <2>1 DEF Command!Commit, Command!Gone
    <3>2. confirmed /\ "flushed" \in said /\ place \in {"wait", "done"}
      BY <3>1 DEF CommandInv, Consent
    <3> QED
      BY <3>1, <3>2 DEF CommitsAtYes
  <2>2. CASE Command!Receive \/ Command!Offer \/ Command!ReceiveConfirmation \/ Command!Drop
             \/ \E result \in Command!Results \cup {"LIST"} : Command!Result(result)
    BY <2>2 DEF Command!Receive, Command!Offer, Command!ReceiveConfirmation, Command!Drop, Command!Result, CommitsAtYes
  <2> QED
    BY <1>2, <2>1, <2>2 DEF Command!Serve
<1> QED
  BY <1>1, <1>2 DEF Command!Next

\* The programs of MCRestarts do not disturb each other.
LEMMA CommandAlone ==
  /\ MCInit /\ program = "command" => CommandInv
  /\ (program = "command" => CommandInv) /\ [MCNext]_<<program, vars, command, collection>>
       => (program = "command" => CommandInv)'
<1>1. MCInit /\ program = "command" => CommandInv
  BY CommandInit DEF MCInit
<1>2. ASSUME program = "command" => CommandInv, [MCNext]_<<program, vars, command, collection>>,
             program' = "command"
      PROVE  CommandInv'
  <2>1. program = "command" /\ (Command!Next \/ UNCHANGED command)
    BY <1>2 DEF MCNext
  <2> QED
    BY <1>2, <2>1, CommandStep
<1> QED
  BY <1>1, <1>2

\* What the user of an adopted command is told stays true, whatever the service does
\* later (execute and confirm of management_client.py).
THEOREM WhatIsToldStaysTrue == MCSpec => []ReportIsTrue
<1>1. (program = "command" => CommandInv) => ReportIsTrue
  BY CommandSafe DEF ReportIsTrue
<1>2. MCInit => (program = "command" => CommandInv)
  BY CommandAlone
<1> QED
  BY <1>1, <1>2, CommandAlone, PTL DEF MCSpec

\* A plan is committed only behind a yes that was typed after older lines were dropped,
\* and in a step that finds the offer's time not over and the client still waiting for
\* the result (confirm of management_client.py with PlanConsent).
THEOREM ConsentIsFresh == MCSpec => CommittedMeansYes
<1>1. MCInit => (program = "command" => CommandInv)
  BY CommandAlone
<1>2. (program = "command" => CommandInv) /\ [MCNext]_<<program, vars, command, collection>>
        => [CommitsAtYes]_effects
  <2> SUFFICES ASSUME program = "command" => CommandInv, MCNext, effects' # effects
               PROVE  CommitsAtYes
    BY DEF command
  <2>1. program = "command" /\ Command!Next
    BY DEF MCNext, command
  <2> QED
    BY <2>1, CommitStep
<1>3. CommittedMeansYes <=> [][CommitsAtYes]_effects
  BY DEF CommittedMeansYes, Command!CommittedMeansYes, CommitsAtYes
<1> QED
  BY <1>1, <1>2, <1>3, CommandAlone, PTL DEF MCSpec

-----------------------------------------------------------------------------
(***************************************************************************)
(* The collectors of sources.                                              *)
(***************************************************************************)

\* What a run has seen whole, and what it has recorded, before its position.
Seen ==
  at # "idle" =>
    /\ memory.result # "none"
    /\ \A i \in 1 .. position - 1 :
         /\ file[Collection!Items[i]] = "whole" \/ (at = "copy" /\ Collection!Items[i] = Collection!Item)
         /\ Collection!Items[i] \in Collection!Rows => Collection!Items[i] \in memory.rows

\* Where a run can be.
Run ==
  /\ at # "idle" => store
  /\ at \in {"copy", "verify"} => position <= Len(Collection!Items)
  /\ memory.result = "pass" => position > Len(Collection!Items) /\ at \in {"write", "rename", "sync", "done"}
  /\ at = "done" => memory.result = "pass"

\* The reports, each later than the next: in memory, under its name, and on the disk.
Saved ==
  /\ ~store => report = Collection!Nothing /\ disk = Collection!Nothing
  /\ \A r \in {report, disk} : r.result = "pass" => r.rows = Collection!Rows
  /\ disk.result # "none" => report.result # "none"
  /\ job.tool = "collect" => /\ disk.rows \subseteq report.rows
                             /\ at # "idle" => report.rows \subseteq memory.rows

CollectionInv == Collection!TypeOK /\ Seen /\ Run /\ Saved

\* What a step of the collector does not touch: the job and what is read of it.
LEMMA SameJob ==
  ASSUME job' = job
  PROVE  /\ Collection!Items' = Collection!Items /\ Collection!Wanted' = Collection!Wanted
         /\ Collection!Rows' = Collection!Rows /\ Collection!Reports' = Collection!Reports
  BY DEF Collection!Items, Collection!Wanted, Collection!Rows, Collection!Reports

LEMMA JobItems ==
  ASSUME Collection!TypeOK
  PROVE  /\ Len(Collection!Items) \in Nat /\ position \in Nat
         /\ \A i \in 1 .. Len(Collection!Items) : Collection!Items[i] \in Collection!Wanted
         /\ \A p \in Collection!Wanted : \E i \in 1 .. Len(Collection!Items) : Collection!Items[i] = p
         /\ Collection!Rows \subseteq Collection!Wanted
         /\ Collection!Nothing \in Collection!Reports
         /\ Collection!Nothing.rows = {} /\ Collection!Nothing.result = "none"
<1>1. job.items \in Seq(Collection!ItemsOf(job))
  BY OtherAssumptions DEF Collection!CollectionAssumption, Collection!TypeOK
<1>2. Len(Collection!Items) \in Nat /\ position \in Nat
  BY <1>1 DEF Collection!TypeOK, Collection!Items
<1>3. /\ \A i \in 1 .. Len(Collection!Items) : Collection!Items[i] \in Collection!Wanted
      /\ \A p \in Collection!Wanted : \E i \in 1 .. Len(Collection!Items) : Collection!Items[i] = p
  BY DEF Collection!Items, Collection!Wanted, Collection!ItemsOf
<1> QED
  BY <1>2, <1>3 DEF Collection!Rows, Collection!Nothing, Collection!Reports

LEMMA CollectionInit == Collection!Init => CollectionInv
<1> SUFFICES ASSUME Collection!Init PROVE CollectionInv
  OBVIOUS
<1> USE DEF Collection!Init
<1>1. job \in Jobs /\ job.items \in Seq(Collection!ItemsOf(job))
  BY OtherAssumptions DEF Collection!CollectionAssumption
<1>2. file \in [Collection!Wanted -> {"none", "part", "whole"}]
  OBVIOUS
<1>3. Collection!Nothing \in Collection!Reports
  BY DEF Collection!Nothing, Collection!Reports
<1>4. position \in 1 .. Len(Collection!Items) + 1
  BY <1>1 DEF Collection!Items
<1>5. Collection!TypeOK
  BY <1>1, <1>2, <1>3, <1>4 DEF Collection!TypeOK
<1>6. Seen /\ Run /\ Saved
  BY DEF Seen, Run, Saved, Collection!Nothing
<1> QED
  BY <1>5, <1>6 DEF CollectionInv

\* A run ends before its time, and whatever it did not sync may be torn.
LEMMA EndedRun ==
  ASSUME CollectionInv, job' = job, at' = "idle", position' = 1, memory' = Collection!Nothing,
         file' \in [Collection!Wanted -> {"none", "part", "whole"}],
         \/ report' = report /\ disk' = disk
         \/ report' \in {report, disk} /\ disk' = report',
         store' \in BOOLEAN, store => store'
  PROVE  CollectionInv'
<1> USE SameJob, JobItems DEF CollectionInv
<1>1. Collection!TypeOK'
  <2>1. report' \in Collection!Reports /\ disk' \in Collection!Reports
    BY DEF Collection!TypeOK
  <2>2. position' \in 1 .. Len(Collection!Items) + 1
    OBVIOUS
  <2> QED
    BY <2>1, <2>2 DEF Collection!TypeOK
<1>2. Seen' /\ Run'
  BY DEF Seen, Run
<1>3. Saved'
  BY DEF Saved
<1> QED
  BY <1>1, <1>2, <1>3

\* A run begins, with the rows it goes on from.
LEMMA BegunRun ==
  ASSUME CollectionInv, Collection!StartFresh \/ Collection!Resume
  PROVE  CollectionInv'
<1> USE SameJob, JobItems DEF CollectionInv
<1>1. PICK rows \in SUBSET Collection!Rows :
        /\ memory' = [rows |-> rows, result |-> "incomplete"]
        /\ at' = "write" /\ position' = 1 /\ UNCHANGED <<job, report, disk, file>>
        /\ store' = TRUE
        /\ job.tool = "collect" => report.rows \subseteq rows
  <2>1. CASE Collection!StartFresh
    <3>1. report.rows = {}
      BY <2>1 DEF Collection!StartFresh, Saved
    <3> QED
      BY <2>1, <3>1 DEF Collection!StartFresh, Collection!World
  <2>2. CASE Collection!Resume
    <3>1. report.rows \subseteq Collection!Rows /\ store = TRUE
      BY <2>2 DEF Collection!TypeOK, Collection!Reports, Collection!Resume, Saved
    <3> QED
      BY <2>2, <3>1 DEF Collection!Resume, Collection!World, Collection!Stored
  <2> QED
    BY <2>1, <2>2
<1>2. memory' \in Collection!Reports /\ memory'.rows = rows /\ memory'.result = "incomplete"
  BY <1>1 DEF Collection!Reports
<1>3. Collection!TypeOK'
  <2>1. position' \in 1 .. Len(Collection!Items) + 1
    BY <1>1
  <2> QED
    BY <1>1, <1>2, <2>1 DEF Collection!TypeOK
<1>4. Seen' /\ Run'
  BY <1>1, <1>2 DEF Seen, Run
<1>5. Saved'
  BY <1>1, <1>2 DEF Saved
<1> QED
  BY <1>3, <1>4, <1>5

\* The report is saved.
LEMMA SaveStep ==
  ASSUME CollectionInv, Collection!Write \/ Collection!Rename \/ Collection!SyncDirectory
  PROVE  CollectionInv'
<1> USE SameJob, JobItems DEF CollectionInv
<1>1. CASE Collection!Write
  <2>1. at = "write" /\ at' = "rename" /\ UNCHANGED <<job, store, report, disk, file, position, memory>>
    BY <1>1 DEF Collection!Write, Collection!Stored, Collection!World
  <2> QED
    BY <2>1 DEF Collection!TypeOK, Seen, Run, Saved, Collection!Item
<1>2. CASE Collection!Rename
  <2>1. at = "rename" /\ at' = "sync" /\ report' = memory /\ UNCHANGED <<job, store, disk, file, position, memory>>
    BY <1>2 DEF Collection!Rename, Collection!World
  <2>2. memory.result = "pass" => memory.rows = Collection!Rows
    <3> SUFFICES ASSUME memory.result = "pass", NEW p \in Collection!Rows PROVE p \in memory.rows
      BY DEF Collection!TypeOK, Collection!Reports
    <3>1. PICK i \in 1 .. Len(Collection!Items) : Collection!Items[i] = p
      OBVIOUS
    <3>2. i \in 1 .. position - 1
      BY <3>1 DEF Run
    <3> QED
      BY <2>1, <3>1, <3>2 DEF Seen
  <2>3. Collection!TypeOK' /\ Seen' /\ Run'
    BY <2>1 DEF Collection!TypeOK, Seen, Run
  <2>4. store
    BY <2>1 DEF Run
  <2>5. Saved'
    BY <2>1, <2>2, <2>4 DEF Saved, Seen
  <2> QED
    BY <2>3, <2>5
<1>3. CASE Collection!SyncDirectory
  <2>1. /\ at = "sync" /\ at' = (IF memory.result = "pass" THEN "done" ELSE "next") /\ disk' = report
        /\ UNCHANGED <<job, store, report, file, position, memory>>
    BY <1>3 DEF Collection!SyncDirectory, Collection!World
  <2>2. Collection!TypeOK' /\ Seen' /\ Run'
    BY <2>1 DEF Collection!TypeOK, Seen, Run
  <2>3. Saved'
    BY <2>1 DEF Saved
  <2> QED
    BY <2>2, <2>3
<1> QED
  BY <1>1, <1>2, <1>3

\* An exception, a kill or a power loss, and a --resume of nothing.
LEMMA BrokenStep ==
  ASSUME CollectionInv,
         Collection!Raise \/ Collection!Interrupt \/ Collection!PowerLoss \/ Collection!ResumeNothing
  PROVE  CollectionInv'
<1>1. store \in BOOLEAN /\ file \in [Collection!Wanted -> {"none", "part", "whole"}]
  BY DEF CollectionInv, Collection!TypeOK
<1>2. CASE Collection!Raise \/ Collection!Interrupt
  BY <1>1, <1>2, EndedRun DEF Collection!Raise, Collection!Interrupt, Collection!Stored, Collection!World
<1>3. CASE Collection!PowerLoss
  <2>1. file' \in [Collection!Wanted -> {"none", "part", "whole"}]
    BY <1>1, <1>3 DEF Collection!PowerLoss
  <2> QED
    BY <1>1, <1>3, <2>1, EndedRun DEF Collection!PowerLoss
<1>4. CASE Collection!ResumeNothing
  <2>1. /\ at = "idle" /\ store' = TRUE /\ UNCHANGED <<job, report, disk, file, at, position, memory>>
    BY <1>4 DEF Collection!ResumeNothing, Collection!World, Collection!runVars
  <2> USE SameJob, JobItems DEF CollectionInv
  <2>2. Collection!TypeOK'
    BY <2>1 DEF Collection!TypeOK
  <2>3. Seen' /\ Run' /\ Saved'
    BY <2>1 DEF Seen, Run, Saved
  <2> QED
    BY <2>2, <2>3
<1> QED
  BY <1>2, <1>3, <1>4

\* An item that was read, or recorded: the run goes on to the next.
LEMMA PassedItem ==
  ASSUME CollectionInv, at \in {"next", "verify"}, position <= Len(Collection!Items),
         file[Collection!Item] = "whole", at' \in {"next", "write"}, position' = position + 1,
         memory' \in Collection!Reports, memory'.result = memory.result, memory.rows \subseteq memory'.rows,
         Collection!Item \in Collection!Rows => Collection!Item \in memory'.rows,
         UNCHANGED <<job, store, report, disk, file>>
  PROVE  CollectionInv'
<1> USE SameJob, JobItems DEF CollectionInv
<1>1. position' \in 1 .. Len(Collection!Items) + 1
  BY DEF Collection!TypeOK
<1>2. Collection!TypeOK'
  BY <1>1 DEF Collection!TypeOK
<1>3. Seen'
  <2>1. \A i \in 1 .. position' - 1 : i \in 1 .. position - 1 \/ i = position
    OBVIOUS
  <2>2. \A i \in 1 .. position' - 1 :
          /\ file[Collection!Items[i]] = "whole"
          /\ Collection!Items[i] \in Collection!Rows => Collection!Items[i] \in memory'.rows
    BY <2>1 DEF Seen, Collection!Item
  <2> QED
    BY <2>2 DEF Seen
<1>4. Run' /\ Saved'
  BY DEF Run, Saved
<1> QED
  BY <1>2, <1>3, <1>4

\* The items, one by one.
LEMMA ItemStep ==
  ASSUME CollectionInv,
         Collection!Check \/ Collection!CheckBase \/ Collection!Fetch \/ Collection!Copy \/ Collection!Record
           \/ Collection!Finish
  PROVE  CollectionInv'
<1>1. memory \in Collection!Reports
  BY DEF CollectionInv, Collection!TypeOK
<1>2. CASE Collection!Raise
  BY <1>2, BrokenStep
<1>3. CASE Collection!Check /\ ~Collection!Raise
  BY <1>1, <1>3, PassedItem DEF Collection!Check, Collection!Stored, Collection!World
<1>4. CASE (Collection!CheckBase \/ Collection!Record) /\ ~Collection!Raise
  <2>1. PICK new \in SUBSET Collection!Rows :
          /\ memory' = [memory EXCEPT !.rows = memory.rows \cup new]
          /\ Collection!Item \in Collection!Rows => Collection!Item \in new
          /\ at \in {"next", "verify"} /\ position <= Len(Collection!Items) /\ file[Collection!Item] = "whole"
          /\ at' = "write" /\ position' = position + 1 /\ UNCHANGED <<job, store, report, disk, file>>
    <3>1. CASE Collection!CheckBase
      <4>1. position \in 1 .. Len(Collection!Items)
        BY <3>1, JobItems DEF Collection!CheckBase, CollectionInv, Collection!TypeOK
      <4>2. Collection!Item \in Collection!Rows
        BY <3>1, <4>1, JobItems DEF Collection!CheckBase, Collection!Item, Collection!Rows, CollectionInv
      <4> QED
        BY <1>4, <3>1, <4>2 DEF Collection!CheckBase, Collection!Stored, Collection!World
    <3>2. CASE Collection!Record
      BY <1>4, <3>2 DEF Collection!Record, Collection!Stored, Collection!World, CollectionInv, Run
    <3> QED
      BY <1>4, <3>1, <3>2
  <2>2. /\ memory' \in Collection!Reports /\ memory'.result = memory.result
        /\ memory'.rows = memory.rows \cup new
    BY <1>1, <2>1 DEF Collection!Reports
  <2> QED
    BY <2>1, <2>2, PassedItem
<1>5. CASE Collection!Fetch /\ ~Collection!Raise
  <2> USE SameJob, JobItems DEF CollectionInv
  <2>1. /\ at = "next" /\ position <= Len(Collection!Items) /\ at' = "copy"
        /\ file' \in {file, [file EXCEPT ![Collection!Item] = "part"]}
        /\ UNCHANGED <<job, store, report, disk, position, memory>>
    BY <1>5 DEF Collection!Fetch, Collection!World, Collection!TypeOK
  <2>2. Collection!TypeOK'
    BY <2>1 DEF Collection!TypeOK
  <2>3. Seen'
    BY <2>1 DEF Seen, Collection!Item, Collection!TypeOK
  <2>4. Run' /\ Saved'
    BY <2>1 DEF Run, Saved
  <2> QED
    BY <2>2, <2>3, <2>4
<1>6. CASE Collection!Copy
  <2> USE SameJob, JobItems DEF CollectionInv
  <2>1. /\ at = "copy" /\ at' = "verify" /\ file' = [file EXCEPT ![Collection!Item] = "whole"]
        /\ UNCHANGED <<job, store, report, disk, position, memory>>
    BY <1>6 DEF Collection!Copy, Collection!World
  <2>2. Collection!TypeOK'
    BY <2>1 DEF Collection!TypeOK
  <2>3. Seen'
    BY <2>1 DEF Seen, Collection!Item, Collection!TypeOK, Run
  <2>4. Run' /\ Saved'
    BY <2>1 DEF Run, Saved
  <2> QED
    BY <2>2, <2>3, <2>4
<1>7. CASE Collection!Finish
  <2> USE SameJob, JobItems DEF CollectionInv
  <2>1. /\ at = "next" /\ position > Len(Collection!Items) /\ at' = "write"
        /\ memory' = [memory EXCEPT !.result = "pass"]
        /\ UNCHANGED <<job, store, report, disk, file, position>>
    BY <1>7 DEF Collection!Finish, Collection!Stored, Collection!World
  <2>2. memory' \in Collection!Reports /\ memory'.result = "pass" /\ memory'.rows = memory.rows
    BY <1>1, <2>1 DEF Collection!Reports
  <2>3. Collection!TypeOK'
    BY <2>1, <2>2 DEF Collection!TypeOK
  <2>4. Seen'
    BY <2>1, <2>2 DEF Seen
  <2>5. Run' /\ Saved'
    BY <2>1, <2>2 DEF Run, Saved
  <2> QED
    BY <2>3, <2>4, <2>5
<1> QED
  BY <1>2, <1>3, <1>4, <1>5, <1>6, <1>7

LEMMA CollectionStep ==
  ASSUME CollectionInv, Collection!Next \/ UNCHANGED collection
  PROVE  CollectionInv'
<1>1. CASE UNCHANGED collection
  <2>1. UNCHANGED <<job, store, at, report, disk, file, position, memory>>
    BY <1>1 DEF collection
  <2> USE SameJob, JobItems DEF CollectionInv
  <2>2. Collection!TypeOK'
    BY <2>1 DEF Collection!TypeOK
  <2>3. Seen' /\ Run' /\ Saved'
    BY <2>1 DEF Seen, Run, Saved, Collection!Item
  <2> QED
    BY <2>2, <2>3
<1>2. CASE Collection!Run
  <2>1. CASE Collection!Exit
    BY <2>1, BrokenStep DEF Collection!Exit
  <2> QED
    BY <1>2, <2>1, BegunRun, SaveStep, ItemStep DEF Collection!Run
<1>3. CASE Collection!ResumeNothing \/ Collection!Interrupt \/ Collection!PowerLoss
  BY <1>3, BrokenStep
<1> QED
  BY <1>1, <1>2, <1>3 DEF Collection!Next

LEMMA CollectionAlone ==
  /\ MCInit => CollectionInv
  /\ CollectionInv /\ [MCNext]_<<program, vars, command, collection>> => CollectionInv'
<1>1. MCInit => CollectionInv
  BY CollectionInit DEF MCInit
<1>2. ASSUME CollectionInv, [MCNext]_<<program, vars, command, collection>>
      PROVE  CollectionInv'
  <2>1. Collection!Next \/ UNCHANGED collection
    BY <1>2 DEF MCNext
  <2> QED
    BY <1>2, <2>1, CollectionStep
<1> QED
  BY <1>1, <1>2

\* A run of the collectors that ends with a pass has seen every file whole, and a report
\* that says pass has every row, whatever was interrupted or torn before (resume and save).
THEOREM APassIsWhole == MCSpec => []PassMeansChecked
<1>1. CollectionInv => PassMeansChecked
  <2> SUFFICES ASSUME CollectionInv PROVE Collection!PassMeansChecked
    BY DEF PassMeansChecked
  <2>1. ASSUME at = "done", NEW p \in Collection!Wanted PROVE file[p] = "whole"
    <3>1. PICK i \in 1 .. Len(Collection!Items) : Collection!Items[i] = p
      BY JobItems DEF CollectionInv
    <3>2. i \in 1 .. position - 1
      BY <2>1, <3>1, JobItems DEF CollectionInv, Run
    <3> QED
      BY <2>1, <3>1, <3>2 DEF CollectionInv, Seen
  <2> QED
    BY <2>1 DEF CollectionInv, Saved, Collection!PassMeansChecked
<1> QED
  BY <1>1, CollectionAlone, PTL DEF MCSpec

\* A step of the collector keeps every saved row, and the report that has them.
LEMMA RowsStep ==
  ASSUME CollectionInv, Collection!Next, job.tool = "collect"
  PROVE  /\ disk.rows \subseteq disk'.rows
         /\ disk.result # "none" => report'.result # "none" /\ disk.rows \subseteq report'.rows
<1> USE DEF CollectionInv
<1>1. CASE UNCHANGED <<report, disk>>
  BY <1>1 DEF Saved
<1>2. CASE Collection!Rename
  BY <1>2 DEF Collection!Rename, Saved, Seen
<1>3. CASE Collection!SyncDirectory
  BY <1>3 DEF Collection!SyncDirectory, Saved
<1>4. CASE Collection!PowerLoss
  BY <1>4 DEF Collection!PowerLoss, Saved
<1>5. Collection!Next => UNCHANGED <<report, disk>> \/ Collection!Rename \/ Collection!SyncDirectory
                           \/ Collection!PowerLoss
  BY DEF Collection!Next, Collection!Run, Collection!StartFresh, Collection!Resume, Collection!ResumeNothing,
         Collection!Write, Collection!Check, Collection!CheckBase, Collection!Fetch, Collection!Copy,
         Collection!Record, Collection!Finish, Collection!Exit, Collection!Interrupt, Collection!Raise,
         Collection!Stored
<1> QED
  BY <1>1, <1>2, <1>3, <1>4, <1>5

\* The collector's report never loses a saved row or its existence, to no interruption and
\* to no power loss (save, and the --resume of collect-sources.py).
THEOREM RowsAreNeverLost == MCSpec => RowsAreKept
<1> DEFINE Kept == job.tool = "collect" =>
                     /\ disk.rows \subseteq disk'.rows
                     /\ disk.result # "none" => report'.result # "none" /\ disk.rows \subseteq report'.rows
<1>1. CollectionInv /\ [MCNext]_<<program, vars, command, collection>> => [Kept]_(Collection!vars)
  <2> SUFFICES ASSUME CollectionInv, MCNext \/ UNCHANGED <<program, vars, command, collection>>
               PROVE  Kept \/ UNCHANGED Collection!vars
    OBVIOUS
  <2>1. CASE Collection!Next
    BY <2>1, RowsStep
  <2>2. CASE UNCHANGED collection
    BY <2>2 DEF collection, Collection!vars, Collection!runVars
  <2> QED
    BY <2>1, <2>2 DEF MCNext
<1>2. RowsAreKept <=> [][Kept]_(Collection!vars)
  BY DEF RowsAreKept, Collection!RowsAreKept
<1> HIDE DEF Kept
<1> QED
  BY <1>1, <1>2, CollectionAlone, PTL DEF MCSpec
===============================================================================
