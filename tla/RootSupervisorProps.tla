------------------------ MODULE RootSupervisorProps ------------------------
(***************************************************************************)
(* What must hold of the root supervisor.                                  *)
(***************************************************************************)
EXTENDS RootSupervisor

SuperType == /\ at \in {"launch", "idle", "closed"} \cup Working \cup Closing
             /\ op \in Ops \cup {"none"} /\ slot \in Channels
             /\ after \in {"none", "receive", "ask", "admit", "answer", "idle"}
             /\ edge \in {1, 2} /\ fit \in BOOLEAN
GuardType == guard \in [Guards -> [phase : GuardPhase, wire : {"none", "asked", "answered"},
                                   age : {"new", "due", "stale"}, late : BOOLEAN, alive : BOOLEAN]]
WorldType == /\ truth \in [Guards -> BOOLEAN] /\ admitted \in BOOLEAN /\ expired \in BOOLEAN
             /\ consent \in ConsentPhase /\ voice \in {"none", "confirm", "noise"} /\ actor \in BOOLEAN
WorkType  == /\ chan \in [Channels -> ChanPhase] /\ inputs \subseteq Channels
             /\ kid \in [Channels -> {"quiet", "request", "malformed", "cancel", "gone"}]
             /\ replied \subseteq Channels
RootType  == /\ ses \in SesPhase /\ link \in {"none", "open", "closed"}
             /\ ctl \in {"none", "asked", "held", "closing", "gone"}
             /\ mail \in Seq({"frozen", "refused", "eof"}) /\ Len(mail) <= 3
             /\ prepares \in Nat /\ shown \subseteq Channels

\* Every variable stays in its range, and received descriptors are held only
\* for a channel that is waiting for its answer (or being closed).
TypeOK == /\ SuperType /\ GuardType /\ WorldType /\ WorkType /\ RootType
          /\ \A c \in inputs : chan[c] \in {"RECEIVED", "FAILED"}

\* Whatever the supervisor makes happen (a request to the controller, an answer
\* to a worker) happens only if the operator was authorized, the supply current,
\* the admission valid, the user's consent unrevoked and every worker silent when
\* the boundary of that effect began: authority that was lost before, during the
\* previous wait or while a periodic check was already under way, is never used.
BoundaryAuthority ==
  [][(prepares' # prepares \/ (ses' # ses /\ ses' \in {"OBSERVING", "CLOSING"}) \/ replied' # replied)
       => fit]_vars

\* The controller gets at most one prepare-freeze request in the life of a
\* supervisor: no retry, and no second preparation through the second handoff.
OneRequest == prepares <= 1

\* A worker is told that its root is ready only after the controller has
\* verified the frozen root against the very descriptors that worker sent, and
\* when it has its answer, or its channel is closed, the supervisor no longer
\* holds the archive and reservation descriptors it received.
AnsweredMeansDone ==
  /\ replied \subseteq shown
  /\ \A c \in Channels : c \in replied \/ chan[c] = "CLOSED" => c \notin inputs

\* Closing cuts the controller off before it gives up any of the observers, the
\* consent or the channels: nothing is left running that nobody watches.
ControllerCutFirst ==
  link = "open" => /\ consent = "CONFIRMED"
                   /\ \A g \in Guards : guard[g].phase # "CLOSED"
                   /\ \A c \in Channels : chan[c] # "CLOSED"

\* Once the deadline has passed, an operation in progress returns to its caller
\* (with the supervisor closed), whatever the controller, the helpers and the
\* workers do or never do: the deadline bounds every wait.
OperationEnds == (expired /\ op # "none") ~> op = "none"

\* A user who speaks or leaves while the supervisor waits cuts the controller
\* off, without waiting for the deadline.
CancelReachesController ==
  (at \in Loop /\ (voice # "none" \/ ~actor)) ~> link # "open"
=============================================================================
