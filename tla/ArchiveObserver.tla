-------------------------- MODULE ArchiveObserver --------------------------
(***************************************************************************)
(* The archive observer: native/archive_observer.py's service answers one  *)
(* request at a time, opens a session of the signed repository, verifies   *)
(* the archive's originals under the policy found there, signs a receipt   *)
(* and delivers it; archive_observer_client.py takes the answer.  Between  *)
(* any two of its steps the clock moves, also backwards, the site's two    *)
(* configuration files are replaced, and the service fails or is killed.   *)
(*                                                                         *)
(* Abstractions.  Times are small numbers.  A file is the number of its    *)
(* version, of which the configuration is worth a floor of the security    *)
(* epoch and a lifetime.  What the repository and the archive have signed  *)
(* is its epoch and dates.  Signatures, hashes, descriptors and the        *)
(* monotonic deadlines are one failure (`Reject').                         *)
(***************************************************************************)
EXTENDS Integers

CONSTANTS Clients,
          Nobody,
          Floor,        \* minimum_security_epoch of each version of the configuration
          Life,         \* and its maximum_lifetime_seconds
          LastVersion,  \* of a configuration file
          MaxEpoch, MaxTime, MaxReversals

ASSUME ObserverAssumption ==
  /\ LastVersion \in Nat \ {0} /\ MaxTime \in Nat \ {0} /\ MaxEpoch \in Nat /\ MaxReversals \in Nat
  /\ Floor \in [1 .. LastVersion -> Nat] /\ Life \in [1 .. LastVersion -> Nat \ {0}]
  /\ Nobody \notin Clients

VARIABLES
  clock,      \* time.time()
  site,       \* the files of the configuration and the keyring
  service,    \* the process that serves a connection
  client,     \* what each client has done
  answer,     \* the process as it was when it sent the receipt
  reversals   \* times the clock was set back

vars == <<clock, site, service, client, answer, reversals>>

Smaller(a, b) == IF a < b THEN a ELSE b

Times    == 0 .. MaxTime
Versions == 1 .. LastVersion
Sites    == [config : Versions, keyring : Versions]
Stages   == {"idle", "request", "session", "policy", "verify", "revalidate", "refresh", "revalidated",
             "sign", "again", "refreshAgain", "issue", "deliver"}

\* The process of a connection and what it knows: the files it has read, the readings of
\* the clock, the epoch and dates of its evidence, and the receipt.  History: the files
\* that stood at the signature, the latest reading (peak), and whether one went back.
Services == [at : Stages, for : Clients \cup {Nobody}, config : Versions, keyring : Versions,
             from : Times, after : Times, epoch : 0 .. MaxEpoch,
             metadata : Times, created : Times, policy : Times, archive : Times,
             checked : Times, expires : Times,
             signedConfig : Versions, signedKeyring : Versions, peak : Times, back : BOOLEAN]
Idle == [at |-> "idle", for |-> Nobody, config |-> 1, keyring |-> 1,
         from |-> 0, after |-> 0, epoch |-> 0,
         metadata |-> 0, created |-> 0, policy |-> 0, archive |-> 0,
         checked |-> 0, expires |-> 0,
         signedConfig |-> 1, signedKeyring |-> 1, peak |-> 0, back |-> FALSE]

Init ==
  /\ clock = 1 /\ reversals = 0
  /\ site = [config |-> 1, keyring |-> 1]
  /\ service = Idle
  /\ client = [c \in Clients |-> "off"]
  /\ answer = [c \in Clients |-> Idle]
-----------------------------------------------------------------------------
World == <<clock, site, reversals>>

\* A step of the service that changes nothing but its own state.
Step(from, next) ==
  /\ service.at = from
  /\ service' = next
  /\ UNCHANGED <<World, client, answer>>

\* The service after a step to a stage, with the clock as it was read there.
At(stage) == [service EXCEPT !.at = stage,
                             !.from = clock,
                             !.peak = IF clock > @ THEN clock ELSE @,
                             !.back = @ \/ clock < service.peak]
Ask(c) ==
  /\ client[c] = "off"
  /\ client' = [client EXCEPT ![c] = "asked"]
  /\ UNCHANGED <<World, service, answer>>

\* A connection is accepted and the configuration read; then the keyring and the request.
Accept ==
  \E c \in Clients :
    /\ client[c] = "asked"
    /\ Step("idle", [Idle EXCEPT !.at = "request", !.for = c, !.config = site.config])

Receive == Step("request", [service EXCEPT !.at = "session", !.keyring = site.keyring])

\* Repository.__enter__: python-tuf lets through what has not expired.
OpenSession ==
  \E t \in Times :
    /\ t > clock
    /\ Step("session", [service EXCEPT !.at = "policy", !.metadata = t])

\* The policy is the session's target; its creation and its expiry are held against the clock.
ReadPolicy ==
  \E e \in 0 .. MaxEpoch, created, expiry \in Times :
    /\ e >= Floor[service.config]
    /\ created <= clock /\ clock < expiry
    /\ Step("policy", [At("verify") EXCEPT !.epoch = e, !.created = created,
                                           !.policy = expiry])

\* verify_snapshot under the time just read: until is the earlier of the policy's and
\* the archive's own expiry.  The clock is read once more after it.
Until == Smaller(service.policy, service.archive)

Verify ==
  \E t \in Times :
    LET until == Smaller(service.policy, t)
    IN  /\ service.from < until
        /\ service.from <= clock /\ clock < until
        /\ Step("verify", [At("revalidate") EXCEPT !.archive = t, !.after = clock])

\* revalidate_target: it reads the clock, lets a fresh verifier loose on the retained
\* metadata, and reads the clock again.  This happens twice.
BeginRevalidation ==
  \/ Step("revalidate", At("refresh"))
  \/ Step("again", At("refreshAgain"))

Refresh ==
  /\ clock < service.metadata
  /\ \/ Step("refresh", [service EXCEPT !.at = "revalidated"])
     \/ Step("refreshAgain", [service EXCEPT !.at = "issue"])

Bug_ForgetsMetadata ==
  /\ service.from <= clock /\ clock < service.metadata
  /\ service.after <= clock /\ clock < Until
  /\ Step("revalidated", [At("sign") EXCEPT !.checked = clock,
       !.expires = Smaller(Until, clock + Life[service.config])])

\* The end of the first revalidation and of authenticate.  The clock is read twice, with
\* nothing between the readings.  The receipt's expiry is issue's.
Check ==
  LET until == Smaller(Until, service.metadata)
  IN  /\ service.from <= clock /\ clock < service.metadata
      /\ service.after <= clock /\ clock < until
      /\ Step("revalidated", [At("sign") EXCEPT !.checked = clock,
           !.expires = Smaller(until, clock + Life[service.config])])

\* sign_authenticated: the provider holds the body against its own pins.
Sign ==
  LET r == service
  IN  /\ Floor[r.config] <= r.epoch
      /\ r.checked < r.expires /\ r.expires - r.checked <= Life[r.config]
      /\ Step("sign", [service EXCEPT !.at = "again", !.signedConfig = site.config, !.signedKeyring = site.keyring])

\* The end of the second revalidation and of issue.
Issue ==
  LET r == service
  IN  /\ service.from <= clock /\ clock < r.metadata
      /\ r.checked <= clock /\ clock < Smaller(r.expires, r.metadata)
      /\ Step("issue", At("deliver"))

\* The answer of a connection; the process ends with it.
Answer(state, sent) ==
  /\ client' = [client EXCEPT ![service.for] = IF @ = "asked" THEN state ELSE @]
  /\ answer' = [answer EXCEPT ![service.for] = IF client[service.for] = "asked" THEN sent ELSE @]
  /\ service' = Idle
  /\ UNCHANGED World

Bug_NoSecondLook ==
  /\ service.at = "deliver"
  /\ service.checked <= clock /\ clock < service.expires
  /\ Answer("answered", [service EXCEPT !.from = 0, !.after = 0, !.peak = 0])

\* Both files are read again before the receipt goes out.
Deliver ==
  /\ service.at = "deliver"
  /\ site.config = service.config /\ site.keyring = service.keyring
  /\ service.checked <= clock /\ clock < service.expires
  /\ Answer("answered", [service EXCEPT !.from = 0, !.after = 0, !.peak = 0])

\* Any exception, and the end of the process by a signal or RuntimeMaxSec.
Reject ==
  /\ service.at # "idle"
  /\ Answer("refused", Idle)

\* observe: the receipt's time is held against the client's clock; or it is refused.
Take(c) ==
  /\ client[c] = "answered"
  /\ answer[c].checked <= clock /\ clock < answer[c].expires
  /\ client' = [client EXCEPT ![c] = "accepted"]
  /\ UNCHANGED <<World, service, answer>>

Refuse(c) ==
  /\ client[c] \in {"asked", "answered"}
  /\ client' = [client EXCEPT ![c] = "refused"]
  /\ answer' = [answer EXCEPT ![c] = Idle]
  /\ UNCHANGED <<World, service>>
-----------------------------------------------------------------------------
\* An administrator replaces a file by a newer version.
Configure ==
  /\ \E f \in {"config", "keyring"} :
       site[f] < LastVersion /\ site' = [site EXCEPT ![f] = @ + 1]
  /\ UNCHANGED <<clock, reversals, service, client, answer>>

Tick ==
  /\ clock < MaxTime /\ clock' = clock + 1
  /\ UNCHANGED <<site, reversals, service, client, answer>>

SetBack ==
  /\ reversals < MaxReversals /\ reversals' = reversals + 1
  /\ clock' \in 0 .. clock - 1
  /\ UNCHANGED <<site, service, client, answer>>

Next ==
  \/ \E c \in Clients : Ask(c) \/ Take(c) \/ Refuse(c)
  \/ Accept \/ Receive \/ OpenSession \/ ReadPolicy \/ Verify \/ BeginRevalidation \/ Refresh
  \/ Check \/ Sign \/ Issue \/ Deliver \/ Reject
  \/ Configure \/ Tick \/ SetBack

Spec == Init /\ [][Next]_vars
-----------------------------------------------------------------------------
\* The shape of every variable.
TypeOK ==
  /\ clock \in Times /\ reversals \in 0 .. MaxReversals /\ site \in Sites
  /\ service \in Services
  /\ client \in [Clients -> {"off", "asked", "answered", "accepted", "refused"}]
  /\ answer \in [Clients -> Services]

\* A receipt never outlives what it rests on: it says a time at which the policy, the
\* archive's Release and every role of the repository were valid, it ends no later than
\* the first of them does nor than the configured lifetime allows, and its epoch is not
\* below the floor.  Each was looked at on its own, at a moment of its own, with a clock
\* that moves in both directions (authenticate, issue, archive_receipt.py:59-78).
Supported(r) ==
  /\ r.created <= r.checked /\ r.checked < r.expires
  /\ r.expires <= r.policy /\ r.expires <= r.archive /\ r.expires <= r.metadata
  /\ r.expires <= r.checked + Life[r.config]
  /\ r.epoch >= Floor[r.config]

EvidenceOutlivesReceipt == \A c \in Clients : client[c] \in {"answered", "accepted"} => Supported(answer[c])

\* A receipt that a client is sent was signed while the configuration and the keyring it
\* was issued under both stood: an administrator who raises the floor or withdraws a key
\* before the signature never sees a receipt under the old one (handle's second look at
\* both files, archive_observer.py:217).
Standing(r) == r.signedConfig = r.config /\ r.signedKeyring = r.keyring

SignedUnderStandingFiles == \A c \in Clients : client[c] \in {"answered", "accepted"} => Standing(answer[c])

\* What native/archive-receipt.ja.md:39 says of the issuer: no receipt is returned when
\* the clock went back.  The code does not keep it (README, Findings): as an INVARIANT of
\* Archives.cfg it is refuted by a reversal between two readings that nothing compares.
NoReadingGoesBack == \A c \in Clients : client[c] = "accepted" => ~answer[c].back
=============================================================================
