------------------------ MODULE BrokerRuntime_proofs ------------------------
(***************************************************************************)
(* The shutdown of the broker kernel, for any clients, either concurrency  *)
(* mode, either place of the revocation and any number of stops: artifacts *)
(* go only when no thread is left, exited means clean, and an owner that   *)
(* never saw an error has a clean broker.                                  *)
(*                                                                         *)
(* None of the three is inductive: what stop saw of the threads when it    *)
(* joined them has to still be true when it removes the artifacts.  IInv   *)
(* adds who may hand a client over (HandOver, InlineStates), what the      *)
(* joins have established (Joined, Reaped) and what holds before start     *)
(* and around the last report (Unstarted, Reporting, Exited).              *)
(***************************************************************************)
EXTENDS BrokerRuntime, TLAPS

USE StopsAssumption DEF form

\* A client the serve thread has accepted and is still busy with.
Handed(c) == worker[c] \in {"accepted", "registered"} \/ (~threaded /\ worker[c] = "running")

Quiet == ~ServerAlive /\ \A c \in Clients : worker[c] \in {"none", "gone"}

HandOver ==
  /\ \A c \in Clients : Handed(c) => server \in {"registering", "handling"}
  /\ \A c, d \in Clients : Handed(c) /\ Handed(d) => c = d

InlineStates == ~threaded => \A c \in Clients : worker[c] \in {"none", "running", "gone"}

Unstarted == owner = "new" => artifacts /\ Quiet /\ ~exited /\ trouble = {}
Joined == owner = "reap" /\ "did not stop" \notin trouble => ~ServerAlive
Reaped == owner \in {"revoke", "verdict"} /\ "did not stop" \notin trouble => Quiet
Reporting ==
  owner = "report" => /\ "did not stop" \notin trouble
                      /\ trouble = {} => exited
Exited == exited => owner \in {"report", "down"}

Threads == HandOver /\ InlineStates
Stages == Unstarted /\ Joined /\ Reaped /\ Reporting /\ Exited
Results == QuietRelease /\ ExitedIsClean /\ SilenceMeansDone
IInv == TypeOK /\ Threads /\ Stages /\ Results

LEMMA InitIInv == Init => IInv
<1> SUFFICES ASSUME Init PROVE IInv
  OBVIOUS
<1>1. {stopEvent, failed, error, held, listening, revoked, artifacts, exited} \subseteq BOOLEAN
  BY Zenon DEF Init
<1>2. TypeOK
  BY <1>1 DEF Init, TypeOK, OwnerStates, ServerStates, WorkerStates
<1>3. Threads /\ Stages /\ Results
  BY DEF Init, Threads, HandOver, Handed, InlineStates, Stages, Unstarted, Quiet, ServerAlive,
         Joined, Reaped, Reporting, Exited, Results, QuietRelease, ExitedIsClean,
         SilenceMeansDone
<1> QED  BY <1>2, <1>3 DEF IInv

-----------------------------------------------------------------------------
(* The serve thread and its workers                                        *)

\* What a step of the threads leaves alone: it finds a thread at work, starts none that stop has
\* seen dead, and touches nothing of the owner's.
LEMMA ThreadFrame ==
  ASSUME IInv, UNCHANGED form, UNCHANGED <<owner, session>>,
         ~Quiet, ~ServerAlive => ~ServerAlive'
  PROVE  Stages' /\ Results'
<1>1. artifacts /\ ~exited /\ owner # "new"
  BY DEF IInv, Results, QuietRelease, ExitedIsClean, Quiet, Stages, Unstarted
<1>2. owner' = owner /\ artifacts' = artifacts /\ exited' = exited /\ trouble' = trouble
      /\ reports' = reports
  BY DEF session
<1>3. Stages'
  BY <1>1, <1>2 DEF IInv, Stages, Unstarted, Joined, Reaped, Reporting, Exited
<1>4. Results'
  BY <1>1, <1>2 DEF IInv, Results, QuietRelease, ExitedIsClean, SilenceMeansDone
<1> QED  BY <1>3, <1>4

\* The steps of the serve thread alone: it never leaves a client behind that it has accepted.
LEMMA ServerStep ==
  ASSUME IInv, UNCHANGED form, SeesStop \/ GateOpens \/ ServeFails
  PROVE  IInv'
<1>1. server \in {"polling", "accepting"} /\ server' \in {"accepting", "dead"}
  BY DEF SeesStop, GateOpens, ServeFails, Serving
<1>2. UNCHANGED <<owner, worker, session, stopEvent>>
  BY DEF SeesStop, GateOpens, ServeFails
<1>3. {failed', error'} \subseteq BOOLEAN
  BY Zenon DEF SeesStop, GateOpens, ServeFails, IInv, TypeOK
<1>4. TypeOK'
  BY <1>1, <1>2, <1>3 DEF IInv, TypeOK, ServerStates, session
<1>5. Threads'
  <2>1. \A c \in Clients : ~Handed(c)
    BY <1>1 DEF IInv, Threads, HandOver
  <2>2. \A c \in Clients : ~Handed(c)'
    BY <2>1, <1>2 DEF Handed
  <2> QED  BY <2>2, <1>2 DEF IInv, Threads, HandOver, InlineStates
<1>6. ~Quiet /\ (~ServerAlive => ~ServerAlive') /\ UNCHANGED <<owner, session>>
  BY <1>1, <1>2 DEF Quiet, ServerAlive
<1> QED  BY <1>4, <1>5, <1>6, ThreadFrame DEF IInv

\* Accept takes a client in while the serve thread holds no other.
LEMMA AcceptStep == ASSUME IInv, UNCHANGED form, NEW c \in Clients, Accept(c) PROVE IInv'
<1> USE DEF Accept, Serving
<1>1. worker \in [Clients -> WorkerStates] /\ \A d \in Clients : ~Handed(d)
  BY DEF IInv, TypeOK, Threads, HandOver
<1>2. TypeOK'
  BY DEF IInv, TypeOK, ServerStates, WorkerStates, session
<1>3. \A d \in Clients : Handed(d)' => d = c
  BY <1>1 DEF Handed
<1>4. Threads'
  BY <1>1, <1>3 DEF IInv, Threads, HandOver, InlineStates
<1>5. ~Quiet /\ (~ServerAlive => ~ServerAlive') /\ UNCHANGED <<owner, session>>
  BY DEF Quiet, ServerAlive
<1> QED  BY <1>2, <1>4, <1>5, ThreadFrame DEF IInv

\* Handing a client over, or giving up on it, frees the serve thread for the next one.
LEMMA HandOverStep ==
  ASSUME IInv, UNCHANGED form, NEW c \in Clients,
         Register(c) \/ StartWorker(c) \/ StartWorkerFails(c)
  PROVE  IInv'
<1>1. worker \in [Clients -> WorkerStates] /\ worker[c] \in {"accepted", "registered"}
  BY DEF IInv, TypeOK, Register, StartWorker, StartWorkerFails
<1>2. Handed(c) /\ threaded /\ server \in {"registering", "handling"}
  BY <1>1 DEF Handed, IInv, Threads, HandOver, InlineStates
<1>3. UNCHANGED <<owner, session, stopEvent>>
  BY DEF Register, StartWorker, StartWorkerFails
<1>4. worker' \in [Clients -> WorkerStates] /\ \A d \in Clients \ {c} : worker'[d] = worker[d]
  BY <1>1 DEF Register, StartWorker, StartWorkerFails, WorkerStates
<1>5. TypeOK'
  <2>1. server' \in ServerStates
    BY DEF IInv, TypeOK, Register, StartWorker, StartWorkerFails, Top, ServerStates
  <2>2. {failed', error'} \subseteq BOOLEAN
    BY Zenon DEF Register, StartWorker, StartWorkerFails, IInv, TypeOK
  <2> QED  BY <2>1, <2>2, <1>3, <1>4 DEF IInv, TypeOK, session
<1>6. \A d \in Clients : Handed(d)' => d = c /\ server' = server
  <2>1. \A d \in Clients \ {c} : ~Handed(d)'
    BY <1>2, <1>4 DEF Handed, IInv, Threads, HandOver
  <2>2. Handed(c)' => server' = server
    BY <1>1, <1>2 DEF Handed, Register, StartWorker, StartWorkerFails
  <2> QED  BY <2>1, <2>2
<1>7. Threads'
  BY <1>2, <1>6 DEF Threads, HandOver, InlineStates
<1>8. ~Quiet /\ (~ServerAlive => ~ServerAlive')
  BY <1>2 DEF Quiet, ServerAlive
<1> QED  BY <1>3, <1>5, <1>7, <1>8, ThreadFrame DEF IInv

\* A client whose handling ends, in the serve thread or in a worker.
LEMMA HandlingStep ==
  ASSUME IInv, UNCHANGED form, NEW c \in Clients, NEW outcome \in Outcomes,
         HandlerEnds(c, outcome) \/ WorkerEnds(c, outcome) \/ WorkerLeaves(c)
  PROVE  IInv'
<1>1. worker \in [Clients -> WorkerStates] /\ worker[c] \in {"running", "leaving"}
  BY DEF IInv, TypeOK, HandlerEnds, WorkerEnds, WorkerLeaves
<1>2. worker' \in [Clients -> WorkerStates] /\ \A d \in Clients \ {c} : worker'[d] = worker[d]
  BY <1>1 DEF HandlerEnds, WorkerEnds, WorkerLeaves, WorkerStates
<1>3. UNCHANGED <<owner, session>>
  BY DEF HandlerEnds, WorkerEnds, WorkerLeaves
<1>4. TypeOK'
  <2>1. server' \in ServerStates
    BY DEF IInv, TypeOK, HandlerEnds, WorkerEnds, WorkerLeaves, Top, ServerStates
  <2>2. {failed', error', stopEvent'} \subseteq BOOLEAN
    BY Zenon DEF HandlerEnds, WorkerEnds, WorkerLeaves, IInv, TypeOK
  <2> QED  BY <2>1, <2>2, <1>2, <1>3 DEF IInv, TypeOK, session
<1>5. ~Handed(c)' /\ \A d \in Clients \ {c} : Handed(d)' <=> Handed(d)
  BY <1>1, <1>2 DEF Handed, HandlerEnds, WorkerEnds, WorkerLeaves, IInv, Threads, InlineStates
<1>6. CASE server' = server
  <2>1. Threads'
    BY <1>5, <1>6, <1>2, <1>1
       DEF IInv, Threads, HandOver, InlineStates, HandlerEnds, WorkerEnds, WorkerLeaves
  <2>2. ~Quiet /\ (~ServerAlive => ~ServerAlive')
    BY <1>1, <1>6 DEF Quiet, ServerAlive
  <2> QED  BY <1>3, <1>4, <2>1, <2>2, ThreadFrame DEF IInv
<1>7. CASE HandlerEnds(c, outcome)
  <2>1. Handed(c) /\ server \in {"registering", "handling"}
    BY <1>7 DEF HandlerEnds, Handed, IInv, Threads, HandOver
  <2>2. \A d \in Clients : ~Handed(d)'
    BY <2>1, <1>5 DEF IInv, Threads, HandOver
  <2>3. Threads'
    BY <2>2, <1>1, <1>2, <1>7 DEF IInv, Threads, HandOver, InlineStates, HandlerEnds
  <2>4. ~Quiet /\ (~ServerAlive => ~ServerAlive')
    BY <2>1 DEF Quiet, ServerAlive
  <2> QED  BY <1>3, <1>4, <2>3, <2>4, ThreadFrame DEF IInv
<1> QED  BY <1>6, <1>7 DEF WorkerEnds, WorkerLeaves

-----------------------------------------------------------------------------
(* start and stop                                                          *)

\* The owner's steps see the threads as they are.
LEMMA OwnerFrame ==
  ASSUME IInv, UNCHANGED form, UNCHANGED <<server, worker>>
  PROVE  Threads' /\ (Quiet' <=> Quiet) /\ (ServerAlive' <=> ServerAlive)
  BY DEF IInv, Threads, HandOver, Handed, InlineStates, Quiet, ServerAlive

LEMMA StartStep == ASSUME IInv, UNCHANGED form, Start \/ StartFails PROVE IInv'
<1>1. owner = "new" /\ artifacts /\ Quiet /\ ~exited /\ trouble = {}
  BY DEF Start, StartFails, IInv, Stages, Unstarted
<1>2. CASE Start
  <2>1. \A c \in Clients : ~Handed(c)
    BY <1>1 DEF Quiet, ServerAlive, IInv, Threads, HandOver
  <2>2. Threads'
    BY <1>2, <2>1 DEF Start, IInv, Threads, HandOver, Handed, InlineStates
  <2>3. TypeOK'
    BY <1>2 DEF Start, IInv, TypeOK, OwnerStates, ServerStates
  <2>4. Stages' /\ QuietRelease' /\ ExitedIsClean'
    BY <1>1, <1>2 DEF Start, Stages, Unstarted, Joined, Reaped, Reporting, Exited,
                      QuietRelease, ExitedIsClean
  <2>5. SilenceMeansDone'
    BY <1>2 DEF Start, SilenceMeansDone
  <2> QED  BY <2>2, <2>3, <2>4, <2>5 DEF IInv, Results
<1>3. CASE StartFails
  <2>1. Threads' /\ Quiet'
    BY <1>1, <1>3, OwnerFrame DEF StartFails
  <2>2. owner' = "down" /\ trouble' = trouble /\ reports' = {"failed to start"}
        /\ UNCHANGED <<server, worker, stopEvent, failed, error, stops>>
    BY <1>3 DEF StartFails
  <2>3. PICK done \in BOOLEAN : Close(done) /\ exited' = done
    BY <1>3 DEF StartFails
  <2>4. {held', listening', revoked', artifacts', exited'} \subseteq BOOLEAN
    <3>1. held' \in BOOLEAN /\ {revoked, listening, artifacts} \subseteq BOOLEAN
      BY <1>3, Zenon DEF StartFails, IInv, TypeOK
    <3>2. {listening', revoked', artifacts', exited'} \subseteq BOOLEAN
      BY <2>3, <3>1, Zenon DEF Close
    <3> QED  BY <3>1, <3>2, Zenon
  <2>5. TypeOK'
    BY <2>2, <2>4 DEF IInv, TypeOK, OwnerStates
  <2>6. exited' => revoked' /\ ~artifacts' /\ ~listening'
    BY <2>3 DEF Close
  <2>7. "deactivate failed" \notin trouble
    BY <1>1
  <2> QED  BY <2>1, <2>2, <2>5, <2>6, <2>7
           DEF IInv, Stages, Unstarted, Joined, Reaped, Reporting, Exited, Results,
               QuietRelease, ExitedIsClean, SilenceMeansDone, Quiet
<1> QED  BY <1>2, <1>3

\* A stop begins with nothing known, and only while the broker has not exited.
LEMMA BeginStopStep == ASSUME IInv, UNCHANGED form, BeginStop PROVE IInv'
<1>1. Threads' /\ (Quiet' <=> Quiet)
  BY OwnerFrame DEF BeginStop, threads
<1>2. TypeOK'
  <2>1. stops' \in 0..MaxStops
    <3>1. stops \in 0..MaxStops /\ MaxStops \in Nat
      BY DEF IInv, TypeOK, StopsAssumption
    <3>2. stops < MaxStops /\ stops' = stops + 1
      BY DEF BeginStop
    <3> QED  BY <3>1, <3>2
  <2>2. {stopEvent', failed', error', held', listening', revoked', artifacts', exited'}
          \subseteq BOOLEAN
    BY Zenon DEF BeginStop, threads, IInv, TypeOK
  <2> QED  BY <2>1, <2>2 DEF BeginStop, threads, IInv, TypeOK, OwnerStates
<1>3. Stages'
  BY DEF BeginStop, Stages, Unstarted, Joined, Reaped, Reporting, Exited
<1>4. Results'
  BY <1>1 DEF BeginStop, IInv, Results, QuietRelease, ExitedIsClean, SilenceMeansDone, Quiet,
              threads
<1> QED  BY <1>1, <1>2, <1>3, <1>4 DEF IInv

\* Revoking and closing the listener change nothing the later steps of stop rest on.
LEMMA EarlyStopStep == ASSUME IInv, UNCHANGED form, Deactivate \/ Unlisten PROVE IInv'
<1>1. owner \in {"deactivate", "unlisten"} /\ owner' \in {"unlisten", "join"}
      /\ UNCHANGED <<server, worker, stopEvent, failed, error, artifacts, exited, reports, stops>>
  BY DEF Deactivate, Unlisten, Step, threads
<1>2. Threads' /\ (Quiet' <=> Quiet) /\ ~exited
  BY <1>1, OwnerFrame DEF IInv, Stages, Exited
<1>3. TypeOK'
  <2>1. {held', listening', revoked'} \subseteq BOOLEAN
    BY Zenon DEF Deactivate, TryDeactivate, Unlisten, IInv, TypeOK
  <2>2. trouble' \subseteq Troubles
    BY DEF Deactivate, TryDeactivate, Unlisten, IInv, TypeOK, Troubles
  <2> QED  BY <1>1, <2>1, <2>2 DEF IInv, TypeOK, OwnerStates
<1>4. Stages' /\ Results'
  BY <1>1, <1>2 DEF Stages, Unstarted, Joined, Reaped, Reporting, Exited, IInv, Results,
                    QuietRelease, ExitedIsClean, SilenceMeansDone, Quiet
<1> QED  BY <1>2, <1>3, <1>4 DEF IInv

\* The first join: unless stop reports it, the serve thread is dead for good.
LEMMA JoinStep == ASSUME IInv, UNCHANGED form, Join PROVE IInv'
<1>1. Threads' /\ (Quiet' <=> Quiet) /\ (ServerAlive' <=> ServerAlive) /\ ~exited
  BY OwnerFrame DEF Join, Step, threads, IInv, Stages, Exited
<1>2. TypeOK'
  BY DEF Join, Step, threads, IInv, TypeOK, OwnerStates, Troubles
<1>3. Stages' /\ Results'
  BY <1>1 DEF Join, Step, threads, Stages, Unstarted, Joined, Reaped, Reporting, Exited, IInv,
              Results, QuietRelease, ExitedIsClean, SilenceMeansDone, Quiet
<1> QED  BY <1>1, <1>2, <1>3 DEF IInv

\* The second join: a dead serve thread holds no client, so with no worker registered either
\* nothing is left that could serve one.
LEMMA ReapStep == ASSUME IInv, UNCHANGED form, Reap PROVE IInv'
<1>1. Threads' /\ (Quiet' <=> Quiet) /\ (ServerAlive' <=> ServerAlive) /\ ~exited
  BY OwnerFrame DEF Reap, Step, threads, IInv, Stages, Exited
<1>2. TypeOK'
  BY DEF Reap, Step, threads, IInv, TypeOK, OwnerStates, Troubles
<1>3. "did not stop" \notin trouble' => Quiet
  <2> SUFFICES ASSUME "did not stop" \notin trouble' PROVE Quiet
    OBVIOUS
  <2>1. ~ServerAlive /\ \A c \in Clients : ~Handed(c)
    BY DEF Reap, Step, IInv, Stages, Joined, Threads, HandOver, ServerAlive
  <2>2. threaded => Registered = {}
    BY DEF Reap
  <2>3. ASSUME NEW c \in Clients PROVE worker[c] \in {"none", "gone"}
    <3>1. worker[c] \in WorkerStates
      BY DEF IInv, TypeOK
    <3>2. threaded => worker[c] \notin {"registered", "running", "leaving"}
      BY <2>2 DEF Registered
    <3> QED  BY <2>1, <3>1, <3>2 DEF Handed, IInv, Threads, InlineStates, WorkerStates
  <2> QED  BY <2>1, <2>3 DEF Quiet
<1>4. Stages' /\ Results'
  BY <1>1, <1>3 DEF Reap, Step, threads, Stages, Unstarted, Joined, Reaped, Reporting, Exited,
                    IInv, Results, QuietRelease, ExitedIsClean, SilenceMeansDone, Quiet
<1> QED  BY <1>1, <1>2, <1>4 DEF IInv

LEMMA RevokeStep == ASSUME IInv, UNCHANGED form, Revoke PROVE IInv'
<1>1. Threads' /\ (Quiet' <=> Quiet) /\ ~exited
  BY OwnerFrame DEF Revoke, Step, threads, IInv, Stages, Exited
<1>2. owner' = "verdict" /\ owner = "revoke"
      /\ ("did not stop" \notin trouble' => "did not stop" \notin trouble)
      /\ UNCHANGED <<server, worker, stopEvent, failed, error, held, listening, artifacts, exited,
                     reports, stops>>
  BY DEF Revoke, TryDeactivate, Step, threads
<1>3. TypeOK'
  <2>1. revoked' \in BOOLEAN
    BY Zenon DEF Revoke, TryDeactivate, IInv, TypeOK
  <2>2. trouble' \subseteq Troubles
    BY DEF Revoke, TryDeactivate, IInv, TypeOK, Troubles
  <2> QED  BY <1>2, <2>1, <2>2 DEF IInv, TypeOK, OwnerStates
<1>4. Stages' /\ Results'
  BY <1>1, <1>2 DEF Stages, Unstarted, Joined, Reaped, Reporting, Exited, IInv, Results,
                    QuietRelease, ExitedIsClean, SilenceMeansDone, Quiet
<1> QED  BY <1>1, <1>3, <1>4 DEF IInv

LEMMA DidNotStopStep == ASSUME IInv, UNCHANGED form, DidNotStop PROVE IInv'
<1>1. Threads' /\ (Quiet' <=> Quiet) /\ ~exited
  BY OwnerFrame DEF DidNotStop, Step, threads, IInv, Stages, Exited
<1>2. TypeOK'
  BY DEF DidNotStop, Step, threads, IInv, TypeOK, OwnerStates, Troubles
<1>3. Stages' /\ Results'
  BY <1>1 DEF DidNotStop, Step, threads, Stages, Unstarted, Joined, Reaped, Reporting, Exited,
              IInv, Results, QuietRelease, ExitedIsClean, SilenceMeansDone, Quiet
<1> QED  BY <1>1, <1>2, <1>3 DEF IInv

\* The cleanup: the joins met no thread, so there is none now.
LEMMA ReleaseStep == ASSUME IInv, UNCHANGED form, Release PROVE IInv'
<1>1. Threads' /\ (Quiet' <=> Quiet) /\ Quiet /\ ~exited
  BY OwnerFrame DEF Release, Step, threads, IInv, Stages, Exited, Reaped
<1>2. owner = "verdict" /\ owner' = "report" /\ "did not stop" \notin trouble
      /\ UNCHANGED <<server, worker, stopEvent, failed, error, held, reports, stops>>
  BY DEF Release, Step, threads
<1>3. CASE Close(TRUE) /\ exited' = ("deactivate failed" \notin trouble) /\ UNCHANGED trouble
  <2>1. revoked' = TRUE /\ listening' = FALSE /\ artifacts' = FALSE
    BY <1>3 DEF Close
  <2>2. exited' \in BOOLEAN
    BY <1>3, Zenon
  <2>3. TypeOK'
    BY <1>2, <1>3, <2>1, <2>2 DEF IInv, TypeOK, OwnerStates
  <2>4. Stages'
    BY <1>2, <1>3 DEF Stages, Unstarted, Joined, Reaped, Reporting, Exited
  <2>5. Results'
    BY <1>1, <1>2, <1>3, <2>1
       DEF Results, QuietRelease, ExitedIsClean, SilenceMeansDone, Quiet
  <2> QED  BY <1>1, <2>3, <2>4, <2>5 DEF IInv
<1>4. CASE artifacts /\ Close(FALSE) /\ trouble' = trouble \cup {"cleanup failed"}
           /\ UNCHANGED exited
  <2>1. revoked' = TRUE /\ artifacts' = artifacts
    BY <1>4 DEF Close
  <2>2. listening' \in BOOLEAN
    BY <1>4, Zenon DEF Close, IInv, TypeOK
  <2>3. TypeOK'
    BY <1>2, <1>4, <2>1, <2>2 DEF IInv, TypeOK, OwnerStates, Troubles
  <2>4. Stages' /\ Results'
    BY <1>1, <1>2, <1>4, <2>1
       DEF Stages, Unstarted, Joined, Reaped, Reporting, Exited, Results, QuietRelease,
           ExitedIsClean, SilenceMeansDone
  <2> QED  BY <1>1, <2>3, <2>4 DEF IInv
<1> QED  BY <1>3, <1>4 DEF Release

\* The report: silence is kept only by a stop that met nothing, and it has exited by then.
LEMMA ReportStep == ASSUME IInv, UNCHANGED form, Report PROVE IInv'
<1>1. Threads' /\ (Quiet' <=> Quiet)
  BY OwnerFrame DEF Report, Step, threads
<1>2. owner = "report" /\ owner' = "down"
      /\ UNCHANGED <<server, worker, stopEvent, failed, error, held, listening, revoked,
                     artifacts, exited, trouble, stops>>
  BY DEF Report, Step, threads
<1>3. reports' \subseteq Troubles \cup {"failed to start", "failed"}
      /\ (reports' = {} => trouble = {} /\ ~error)
  <2>1. trouble \subseteq {"deactivate failed", "cleanup failed"}
    BY <1>2 DEF IInv, TypeOK, Troubles, Stages, Reporting
  <2>2. "deactivate failed" \in trouble \/ trouble = {"cleanup failed"} \/ trouble = {}
    BY <2>1
  <2>3. CASE "deactivate failed" \in trouble
    BY <2>3 DEF Report, IInv, TypeOK, Troubles
  <2>4. CASE trouble = {"cleanup failed"}
    BY <2>4 DEF Report, IInv, TypeOK, Troubles
  <2>5. CASE trouble = {}
    <3>1. reports' = reports \cup (IF error THEN {"failed"} ELSE {})
      BY <2>5 DEF Report
    <3> QED  BY <2>5, <3>1 DEF IInv, TypeOK
  <2> QED  BY <2>2, <2>3, <2>4, <2>5
<1>4. TypeOK'
  BY <1>2, <1>3 DEF IInv, TypeOK, OwnerStates
<1>5. Stages' /\ Results'
  BY <1>1, <1>2, <1>3 DEF IInv, Stages, Unstarted, Joined, Reaped, Reporting, Exited, Results,
                          QuietRelease, ExitedIsClean, SilenceMeansDone, Quiet
<1> QED  BY <1>1, <1>4, <1>5 DEF IInv

-----------------------------------------------------------------------------
LEMMA StutterStep == ASSUME IInv, UNCHANGED vars PROVE IInv'
<1>1. {stopEvent', failed', error', held', listening', revoked', artifacts', exited'}
        \subseteq BOOLEAN
  BY Zenon DEF vars, IInv, TypeOK
<1>2. TypeOK'
  BY <1>1 DEF vars, IInv, TypeOK
<1> QED  BY <1>2, OwnerFrame
         DEF vars, IInv, Stages, Unstarted, Joined, Reaped, Reporting, Exited, Results,
             QuietRelease, ExitedIsClean, SilenceMeansDone, Quiet, ServerAlive

LEMMA NextIInv == IInv /\ [Next]_vars => IInv'
<1> SUFFICES ASSUME IInv, [Next]_vars PROVE IInv'
  OBVIOUS
<1>1. CASE UNCHANGED form /\ (Start \/ StartFails \/ BeginStop)
  BY <1>1, StartStep, BeginStopStep
<1>2. CASE UNCHANGED form /\ (Stop)
  BY <1>2, EarlyStopStep, JoinStep, ReapStep, RevokeStep, DidNotStopStep, ReleaseStep, ReportStep
     DEF Stop
<1>3. CASE UNCHANGED form /\ (Serve \/ GateOpens \/ ServeFails)
  BY <1>3, ServerStep, HandOverStep DEF Serve
<1>4. CASE UNCHANGED form /\ (Finishing \/ Handle)
  <2>1. ASSUME NEW c \in Clients, WorkerLeaves(c) PROVE IInv'
    <3>1. "ok" \in Outcomes
      BY DEF Outcomes
    <3> QED  BY <1>4, <2>1, <3>1, HandlingStep
  <2> QED  BY <1>4, <2>1, HandlingStep DEF Finishing, Handle
<1>5. CASE UNCHANGED form /\ \E c \in Clients : Accept(c)
  BY <1>5, AcceptStep
<1> QED  BY <1>1, <1>2, <1>3, <1>4, <1>5, StutterStep DEF Next

\* The inductive invariant holds in every state of every behaviour.
THEOREM InvariantHolds == Spec => []IInv
<1> QED  BY InitIInv, NextIInv, PTL DEF Spec

\* The capability, the socket and the run directory are removed only once the serve thread and
\* every worker are gone (stop, _join_workers).
THEOREM ReleaseIsQuiet == Spec => []QuietRelease
<1>1. IInv => QuietRelease
  BY DEF IInv, Results
<1> QED  BY <1>1, InvariantHolds, PTL

\* A broker that counts as exited was revoked by the stop that cleaned it up (stop).
THEOREM ExitIsClean == Spec => []ExitedIsClean
<1>1. IInv => ExitedIsClean
  BY DEF IInv, Results
<1> QED  BY <1>1, InvariantHolds, PTL

\* No failure of a thread or of the cleanup is swallowed (stop's reports).
THEOREM SilenceIsDone == Spec => []SilenceMeansDone
<1>1. IInv => SilenceMeansDone
  BY DEF IInv, Results
<1> QED  BY <1>1, InvariantHolds, PTL

=============================================================================
