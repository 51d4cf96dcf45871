---------------------------- MODULE BrokerRuntime ----------------------------
(***************************************************************************)
(* The kernel every host broker runs on (broker/runtime.py,                *)
(* SocketBrokerRuntime): an owner thread that starts and stops it, a serve *)
(* thread that accepts clients, and either inline handling by the serve    *)
(* thread or one worker thread per client.                                 *)
(*                                                                         *)
(* The owner's joins have a timeout, so stop may find a thread alive: it   *)
(* then reports "did not stop", removes nothing, and may be called again.  *)
(* The session behind the callbacks is reduced to what the kernel asks of  *)
(* it: deactivate revokes it, close revokes it and removes its artifacts.  *)
(***************************************************************************)
EXTENDS Integers, FiniteSets

CONSTANTS
  Clients,  \* connections, each handled at most once
  MaxStops  \* bound on the calls of stop

ASSUME StopsAssumption == MaxStops \in Nat

VARIABLES
  threaded,    \* concurrency = "thread"; chosen once, by the broker's constructor
  deactivateAfterJoin,
  owner,       \* where the owner thread is in start or stop
  server,      \* the serve thread
  worker,      \* [Clients -> WorkerStates], the handling of each client
  stopEvent, failed,
  error,       \* self.error is set
  held,        \* self.listener is not None
  listening,   \* the listening socket is open
  revoked,     \* the session is deactivated
  artifacts,   \* capability file, socket and run directory exist
  exited,
  trouble,     \* what this call of stop has met so far
  reports,     \* history: the errors start and stop have raised
  stops        \* history: calls of stop

form == <<threaded, deactivateAfterJoin>>
vars == <<form, owner, server, worker, stopEvent, failed, error, held, listening, revoked,
          artifacts, exited, trouble, reports, stops>>
session == <<held, listening, revoked, artifacts, exited, trouble, reports, stops>>
threads == <<server, worker, failed, error>>

OwnerStates == {"new", "up", "deactivate", "unlisten", "join", "reap", "revoke", "verdict",
                "report", "down"}
ServerStates == {"none", "polling", "accepting", "registering", "handling", "dead"}
WorkerStates == {"none", "accepted", "registered", "running", "leaving", "gone"}
Troubles == {"did not stop", "deactivate failed", "cleanup failed"}
Outcomes == {"ok", "oserror", "error"}

Init ==
  /\ threaded \in BOOLEAN /\ deactivateAfterJoin \in BOOLEAN
  /\ owner = "new"
  /\ server = "none"
  /\ worker = [c \in Clients |-> "none"]
  /\ stopEvent = FALSE /\ failed = FALSE /\ error = FALSE
  /\ held = FALSE /\ listening = FALSE
  /\ revoked = FALSE /\ artifacts = TRUE /\ exited = FALSE
  /\ trouble = {} /\ reports = {} /\ stops = 0

\* The threads stop's joins wait for.
Registered == {c \in Clients : worker[c] \in {"registered", "running", "leaving"}}
ServerAlive == server \notin {"none", "dead"}

-----------------------------------------------------------------------------
(* start                                                                   *)

Start ==
  /\ owner = "new"
  /\ owner' = "up"
  /\ server' = "polling"
  /\ held' = TRUE /\ listening' = TRUE
  /\ UNCHANGED <<worker, stopEvent, failed, error, revoked, artifacts, exited, trouble,
                 reports, stops>>

\* close(): the session revokes itself, closes its listener and removes its artifacts. It
\* raises if an artifact or the listener is left, and may then be called again.
Close(done) ==
  /\ revoked' = TRUE
  /\ IF done THEN listening' = FALSE /\ artifacts' = FALSE
             ELSE listening' \in {listening, FALSE} /\ UNCHANGED artifacts

\* The listener or the thread could not be made; the listener, if any, is closed again.
StartFails ==
  /\ owner = "new"
  /\ owner' = "down"
  /\ held' \in BOOLEAN
  /\ \E done \in BOOLEAN : Close(done) /\ exited' = done
  /\ reports' = {"failed to start"}
  /\ UNCHANGED <<server, worker, stopEvent, failed, error, trouble, stops>>

-----------------------------------------------------------------------------
(* The serve thread and its workers                                        *)

Serving(label) == server = label
Top == IF stopEvent THEN "dead" ELSE "accepting"

GateOpens ==
  /\ Serving("polling") /\ ~stopEvent
  /\ server' = "accepting"
  /\ UNCHANGED <<owner, worker, stopEvent, failed, error, session>>

\* The gate or accept times out, or accept fails on the closed listener, and the loop sees
\* the stop event.
SeesStop ==
  /\ server \in {"polling", "accepting"} /\ stopEvent
  /\ server' = "dead"
  /\ UNCHANGED <<owner, worker, stopEvent, failed, error, session>>

\* The gate raises, or accept does while nobody is stopping.
ServeFails ==
  /\ Serving("polling") \/ (Serving("accepting") /\ ~stopEvent)
  /\ server' = "dead"
  /\ error' = TRUE /\ failed' = TRUE
  /\ UNCHANGED <<owner, worker, stopEvent, session>>

\* The stop event is looked at before accept is called, not after it returns.
Accept(c) ==
  /\ Serving("accepting") /\ listening
  /\ worker[c] = "none"
  /\ IF threaded
       THEN server' = "registering" /\ worker' = [worker EXCEPT ![c] = "accepted"]
       ELSE server' = "handling" /\ worker' = [worker EXCEPT ![c] = "running"]
  /\ UNCHANGED <<owner, stopEvent, failed, error, session>>

\* A worker is registered before its thread is started, so that a stop in between sees it.
Register(c) ==
  /\ worker[c] = "accepted"
  /\ worker' = [worker EXCEPT ![c] = "registered"]
  /\ UNCHANGED <<owner, server, stopEvent, failed, error, session>>

StartWorker(c) ==
  /\ Serving("registering") /\ worker[c] = "registered"
  /\ worker' = [worker EXCEPT ![c] = "running"]
  /\ server' = Top
  /\ UNCHANGED <<owner, stopEvent, failed, error, session>>

StartWorkerFails(c) ==
  /\ Serving("registering") /\ worker[c] = "registered"
  /\ worker' = [worker EXCEPT ![c] = "gone"]
  /\ server' = "dead"
  /\ error' = TRUE /\ failed' = TRUE
  /\ UNCHANGED <<owner, stopEvent, session>>

\* An inline handler that raises anything ends the serve thread.
HandlerEnds(c, outcome) ==
  /\ ~threaded /\ worker[c] = "running"
  /\ worker' = [worker EXCEPT ![c] = "gone"]
  /\ IF outcome = "ok"
       THEN server' = Top /\ UNCHANGED <<failed, error>>
       ELSE server' = "dead" /\ error' = TRUE /\ failed' = TRUE
  /\ UNCHANGED <<owner, stopEvent, session>>

\* Mutant: a worker swallows whatever its handler raises.
WorkerEnds_Swallows(c, outcome) ==
  /\ threaded /\ worker[c] = "running"
  /\ worker' = [worker EXCEPT ![c] = "leaving"]
  /\ UNCHANGED <<owner, server, error, stopEvent, failed, session>>

\* A worker swallows an OSError; any other exception stops the broker.
WorkerEnds(c, outcome) ==
  /\ threaded /\ worker[c] = "running"
  /\ worker' = [worker EXCEPT ![c] = "leaving"]
  /\ IF outcome = "error"
       THEN error' = TRUE /\ stopEvent' = TRUE /\ failed' = TRUE
       ELSE UNCHANGED <<error, stopEvent, failed>>
  /\ UNCHANGED <<owner, server, session>>

WorkerLeaves(c) ==
  /\ worker[c] = "leaving"
  /\ worker' = [worker EXCEPT ![c] = "gone"]
  /\ UNCHANGED <<owner, server, stopEvent, failed, error, session>>

-----------------------------------------------------------------------------
(* stop                                                                    *)

Step(from, to) == owner = from /\ owner' = to

BeginStop ==
  /\ owner \in {"up", "down"}
  /\ ~exited /\ stops < MaxStops
  /\ owner' = IF deactivateAfterJoin THEN "unlisten" ELSE "deactivate"
  /\ stopEvent' = TRUE
  /\ trouble' = {}
  /\ stops' = stops + 1
  /\ UNCHANGED <<threads, held, listening, revoked, artifacts, exited, reports>>

\* _try_deactivate: a failure is remembered and the rest of stop goes on.
TryDeactivate ==
  \/ revoked' = TRUE /\ UNCHANGED trouble
  \/ trouble' = trouble \cup {"deactivate failed"} /\ UNCHANGED revoked

Deactivate ==
  /\ Step("deactivate", "unlisten")
  /\ TryDeactivate
  /\ UNCHANGED <<threads, stopEvent, held, listening, artifacts, exited, reports, stops>>

Unlisten ==
  /\ Step("unlisten", "join")
  /\ \/ held' = FALSE /\ listening' = (listening /\ ~held) /\ UNCHANGED trouble
     \/ /\ held
        /\ trouble' = trouble \cup {"cleanup failed"}
        /\ listening' \in {listening, FALSE}
        /\ UNCHANGED held
  /\ UNCHANGED <<threads, stopEvent, revoked, artifacts, exited, reports, stops>>

\* Mutant: the join has no timeout.
Join_Waits ==
  /\ Step("join", "reap")
  /\ ~ServerAlive
  /\ UNCHANGED <<threads, stopEvent, held, listening, revoked, artifacts, exited, trouble,
                 reports, stops>>

Join ==
  /\ Step("join", "reap")
  /\ trouble' = IF ServerAlive THEN trouble \cup {"did not stop"} ELSE trouble
  /\ UNCHANGED <<threads, stopEvent, held, listening, revoked, artifacts, exited, reports, stops>>

\* Mutant: a worker that is through with its client, but has not left yet, is not waited for.
Reap_ForgetsLeaving ==
  /\ Step("reap", IF deactivateAfterJoin THEN "revoke" ELSE "verdict")
  /\ trouble' = IF threaded /\ \E c \in Clients : worker[c] = "running"
                  THEN trouble \cup {"did not stop"} ELSE trouble
  /\ UNCHANGED <<threads, stopEvent, held, listening, revoked, artifacts, exited, reports, stops>>

\* _join_workers reports what is still registered when its deadline has passed.
Reap ==
  /\ Step("reap", IF deactivateAfterJoin THEN "revoke" ELSE "verdict")
  /\ trouble' = IF threaded /\ Registered # {} THEN trouble \cup {"did not stop"} ELSE trouble
  /\ UNCHANGED <<threads, stopEvent, held, listening, revoked, artifacts, exited, reports, stops>>

Revoke ==
  /\ Step("revoke", "verdict")
  /\ TryDeactivate
  /\ UNCHANGED <<threads, stopEvent, held, listening, artifacts, exited, reports, stops>>

DidNotStop ==
  /\ Step("verdict", "down")
  /\ "did not stop" \in trouble
  /\ reports' = reports \cup {"did not stop"}
  /\ UNCHANGED <<threads, stopEvent, held, listening, revoked, artifacts, exited, trouble, stops>>

\* A session whose cleanup is complete answers close() at once.
Release ==
  /\ Step("verdict", "report")
  /\ "did not stop" \notin trouble
  /\ \/ Close(TRUE) /\ exited' = ("deactivate failed" \notin trouble) /\ UNCHANGED trouble
     \/ artifacts /\ Close(FALSE) /\ trouble' = trouble \cup {"cleanup failed"} /\ UNCHANGED exited
  /\ UNCHANGED <<threads, stopEvent, held, reports, stops>>

\* Mutant: the error of the serve thread is not looked at.
Report_ForgetsError ==
  /\ Step("report", "down")
  /\ reports' = reports \cup (trouble \cap {"deactivate failed", "cleanup failed"})
  /\ UNCHANGED <<threads, stopEvent, held, listening, revoked, artifacts, exited, trouble, stops>>

Report ==
  /\ Step("report", "down")
  /\ reports' = reports \cup
       CASE "deactivate failed" \in trouble -> {"deactivate failed"}
         [] trouble = {"cleanup failed"}    -> {"cleanup failed"}
         [] OTHER                           -> IF error THEN {"failed"} ELSE {}
  /\ UNCHANGED <<threads, stopEvent, held, listening, revoked, artifacts, exited, trouble, stops>>

-----------------------------------------------------------------------------
Serve ==
  \/ SeesStop
  \/ \E c \in Clients : Register(c) \/ StartWorker(c) \/ StartWorkerFails(c)

Finishing == \E c \in Clients : WorkerLeaves(c)

Handle == \E c \in Clients, outcome \in Outcomes :
            HandlerEnds(c, outcome) \/ WorkerEnds(c, outcome)

Stop == Deactivate \/ Unlisten \/ Join \/ Reap \/ Revoke \/ DidNotStop \/ Release \/ Report

Next ==
  /\ UNCHANGED form
  /\ \/ Start \/ StartFails \/ BeginStop \/ Stop
     \/ Serve \/ GateOpens \/ ServeFails \/ Finishing \/ Handle
     \/ \E c \in Clients : Accept(c)

\* The serve thread's accept has a timeout, a join has one, and no callback of stop blocks.
\* A handler may hang, clients may never come, and the owner need not stop.
Fairness ==
  /\ WF_vars(UNCHANGED form /\ Serve)
  /\ WF_vars(UNCHANGED form /\ Finishing)
  /\ WF_vars(UNCHANGED form /\ Stop)

Spec == Init /\ [][Next]_vars
FairSpec == Spec /\ Fairness

-----------------------------------------------------------------------------
(* Properties                                                              *)

\* The shape of the kernel's state and of what its owner knows.
TypeOK ==
  /\ {threaded, deactivateAfterJoin} \subseteq BOOLEAN
  /\ owner \in OwnerStates /\ server \in ServerStates
  /\ worker \in [Clients -> WorkerStates]
  /\ {stopEvent, failed, error, held, listening, revoked, artifacts, exited} \subseteq BOOLEAN
  /\ trouble \subseteq Troubles
  /\ reports \subseteq Troubles \cup {"failed to start", "failed"}
  /\ stops \in 0..MaxStops

\* The capability file, the socket and the run directory are removed only once no thread of
\* the broker is left that could still serve a client: stop looks at the serve thread first and
\* at the registered workers after it, and a serve thread it found dead registers none.
QuietRelease ==
  ~artifacts => ~ServerAlive /\ \A c \in Clients : worker[c] \in {"none", "gone"}

\* A broker counts as exited only if its session is revoked, its artifacts are gone and the
\* stop that removed them met no failed revocation, whatever the stops before it met.
ExitedIsClean ==
  exited => revoked /\ ~artifacts /\ ~listening /\ "deactivate failed" \notin trouble

\* An owner that never saw an error has a broker that is shut and never failed: nothing of the
\* serve thread's, the workers' or the cleanup's errors is swallowed.
SilenceMeansDone ==
  owner = "down" /\ reports = {} => exited /\ ~error

\* A stop always comes to its end, whatever its threads do.
StopReturns == (owner \notin {"new", "up", "down"}) ~> (owner = "down")

=============================================================================
