------------------------- MODULE FamilyIntake_proofs -------------------------
(***************************************************************************)
(* One run's family intake for any number of clients: the capability is    *)
(* spent once, revoking is final, and a close reaches the client the       *)
(* thread is busy with.                                                    *)
(*                                                                         *)
(* The properties speak of moments far apart, so the invariant ties the    *)
(* stages together: how far close() has got says what is stopped and       *)
(* revoked (Closing), and where the thread is says which client it holds   *)
(* (Holding) and whether the capability is spent (Spending).               *)
(*                                                                         *)
(* At the end, the run of agentctl around it (AgentRun): it keeps what is  *)
(* proved of the intake, and is a run as SupervisedRun describes it.       *)
(***************************************************************************)
EXTENDS AgentRun, TLAPS

USE FamilyAssumption

Busy == {"admit", "read", "handle", "persist", "write"}
AfterRevoke == {"listener", "interrupt", "join", "remove", "closed", "stuck"}

\* The flags are truth values.
Flags ==
  /\ stop \in BOOLEAN /\ error \in BOOLEAN /\ listening \in BOOLEAN
  /\ artifacts \in BOOLEAN /\ trouble \in BOOLEAN
  /\ active \in BOOLEAN /\ failed \in BOOLEAN /\ consumed \in BOOLEAN

\* The rest of the types.
Shape ==
  /\ owner \in Owners /\ result \in {"none", "clean", "error"}
  /\ worker \in Workers
  /\ serving \in Clients \cup {NoClient} /\ client \in {serving, NoClient}
  /\ shut \subseteq Clients /\ waiting \subseteq Clients
  /\ root \in {"none", "known", "refused"}
  /\ attempts \in Nat /\ published \in 0..attempts

\* What the thread has published of the client it serves.
Holding ==
  /\ worker \in Busy => client = serving /\ serving \in Clients
  /\ worker = "claim" => serving \in Clients
  /\ worker \in {"none", "accept", "claim", "decide", "caught", "gone"} => client = NoClient

\* What is left of the capability and the single request.
Spending ==
  /\ attempts = IF consumed THEN 1 ELSE 0
  /\ worker = "persist" => consumed /\ published = 0
  /\ worker = "none" => ~consumed

\* How far close() has got.
Closing ==
  /\ owner = "new" => worker = "none"
  /\ owner \in {"revoke", "listener", "interrupt", "join", "remove", "stuck"} => stop
  /\ owner \in AfterRevoke => ~active /\ worker # "persist"
  /\ owner = "closed" => worker \in {"none", "gone"}
  /\ owner = "remove" => worker = "gone"
  /\ owner \notin {"closed", "stuck"} => result = "none"
  /\ owner = "stuck" => result = "error"

\* The thread never ends unannounced: it leaves an error, or a stop that somebody set.
DeadIsKnown == worker = "gone" => error \/ stop

\* A session that spent its capability serves nobody else: the thread does not go back
\* to its listener.
SpentIsOver == consumed => worker \notin {"accept", "claim", "admit", "read"}

Stages ==
  /\ Shape /\ Holding /\ Spending /\ Closing
  /\ InterruptReaches /\ CleanClose /\ DeadIsKnown /\ SpentIsOver

IInv == Flags /\ Stages

LEMMA TypesTogether == TypeOK <=> Flags /\ Shape
BY DEF TypeOK, Flags, Shape

LEMMA InitIInv == Init => IInv
<1> SUFFICES ASSUME Init PROVE IInv
  OBVIOUS
<1>1. Flags
  BY Zenon DEF Init, Flags
<1>2. Stages
  BY DEF Init, Stages, Shape, Holding, Spending, Closing, InterruptReaches, CleanClose,
         DeadIsKnown, SpentIsOver, Owners, Workers, Busy, AfterRevoke
<1> QED  BY <1>1, <1>2 DEF IInv

\* Flags are assigned truth values only.
LEMMA FlagsStep == ASSUME Flags, Next PROVE Flags'
<1> USE DEF Flags, supervision, runtime, thread, session, store
<1>1. CASE Start \/ StartFails \/ RegisterRuntime
  BY <1>1, Zenon DEF Start, StartFails, RegisterRuntime
<1>2. CASE BeginClose
  BY <1>2, Zenon DEF BeginClose
<1>3. CASE CloseStep
  BY <1>3, Zenon DEF CloseStep, Deactivate, CloseListener, InterruptClient, Join, RemoveArtifacts
<1>4. CASE \E c \in Clients : Accept(c)
  BY <1>4, Zenon DEF Accept
<1>5. CASE LoopEnds \/ AcceptFails \/ Claim \/ Admit \/ Read \/ ClockFails
  BY <1>5, Zenon DEF LoopEnds, AcceptFails, Claim, Admit, Read, ClockFails
<1>6. CASE Refuse \/ Authorize \/ Stored \/ StoreFull \/ PersistFails \/ WriteResponse \/ Finish
  BY <1>6, Zenon DEF Refuse, Authorize, Stored, StoreFull, PersistFails, WriteResponse, Finish
<1>7. CASE Decide
  BY <1>7, Zenon DEF Decide
<1>8. CASE Caught
  BY <1>8, Zenon DEF Caught
<1> QED
  BY <1>1, <1>2, <1>3, <1>4, <1>5, <1>6, <1>7, <1>8 DEF Next, ThreadStep

\* The steps of the supervisor.
LEMMA SupervisorStages ==
  ASSUME IInv, Start \/ StartFails \/ RegisterRuntime \/ BeginClose \/ CloseStep
  PROVE  Stages'
<1> USE DEF IInv, Flags, Stages, Shape, Holding, Spending, Closing, InterruptReaches, CleanClose, DeadIsKnown,
            SpentIsOver, Owners, Workers, Busy, AfterRevoke,
            supervision, runtime, thread, session, store
<1>1. CASE Start
  BY <1>1 DEF Start
<1>2. CASE StartFails
  BY <1>2 DEF StartFails
<1>3. CASE RegisterRuntime
  BY <1>3 DEF RegisterRuntime
<1>4. CASE BeginClose
  BY <1>4 DEF BeginClose
<1>5. CASE Deactivate
  BY <1>5 DEF Deactivate, SessionLockFree
<1>6. CASE CloseListener
  BY <1>6 DEF CloseListener
<1>7. CASE InterruptClient
  BY <1>7 DEF InterruptClient
<1>8. CASE Join
  BY <1>8 DEF Join
<1>9. CASE RemoveArtifacts
  BY <1>9 DEF RemoveArtifacts
<1> QED
  BY <1>1, <1>2, <1>3, <1>4, <1>5, <1>6, <1>7, <1>8, <1>9 DEF CloseStep

\* The steps of the serving thread.
LEMMA ThreadStages ==
  ASSUME IInv, ThreadStep \/ \E c \in Clients : Accept(c)
  PROVE  Stages'
<1> USE DEF IInv, Flags, Stages, Shape, Holding, Spending, Closing, InterruptReaches, CleanClose, DeadIsKnown,
            SpentIsOver, Owners, Workers, Busy, AfterRevoke,
            supervision, runtime, thread, session, store
<1>1. CASE \E c \in Clients : Accept(c)
  BY <1>1 DEF Accept
<1>2. CASE LoopEnds \/ AcceptFails
  BY <1>2 DEF LoopEnds, AcceptFails
<1>3. CASE Claim
  BY <1>3 DEF Claim
<1>4. CASE Admit \/ Read \/ Refuse \/ WriteResponse
  BY <1>4 DEF Admit, Read, Refuse, WriteResponse
<1>5. CASE ClockFails
  BY <1>5 DEF ClockFails
<1>6. CASE Authorize
  BY <1>6 DEF Authorize
<1>7. CASE Stored \/ StoreFull
  BY <1>7 DEF Stored, StoreFull
<1>8. CASE PersistFails
  BY <1>8 DEF PersistFails
<1>9. CASE Finish
  BY <1>9 DEF Finish
<1>10. CASE Decide
  BY <1>10 DEF Decide
<1>11. CASE Caught
  BY <1>11 DEF Caught
<1> QED
  BY <1>1, <1>2, <1>3, <1>4, <1>5, <1>6, <1>7, <1>8, <1>9, <1>10, <1>11 DEF ThreadStep

LEMMA StepIInv == IInv /\ [Next]_vars => IInv'
<1> SUFFICES ASSUME IInv, [Next]_vars PROVE IInv'
  OBVIOUS
<1>1. CASE UNCHANGED vars
  BY <1>1 DEF vars, supervision, runtime, thread, session, store, IInv, Flags, Stages, Shape,
              Holding, Spending, Closing, InterruptReaches, CleanClose, DeadIsKnown, SpentIsOver
<1>2. CASE Next
  BY <1>2, FlagsStep, SupervisorStages, ThreadStages DEF Next, IInv
<1> QED  BY <1>1, <1>2

\* The invariant that everything below rests on.
THEOREM IntakeInvariant == Spec => []IInv
BY InitIInv, StepIInv, PTL DEF Spec

\* The state keeps its shape.
THEOREM IntakeTypes == Spec => []TypeOK
<1>1. IInv => TypeOK
  BY TypesTogether DEF IInv, Stages
<1> QED  BY <1>1, IntakeInvariant, PTL

\* One request at most is ever given to create_pending, whatever became of it.
THEOREM OneAttempt == Spec => []SingleAttempt
<1>1. IInv => SingleAttempt
  BY DEF IInv, Stages, Spending, SingleAttempt
<1> QED  BY <1>1, IntakeInvariant, PTL

\* A step after deactivate() leaves the store alone, wherever the thread is.
LEMMA QuietStep ==
  IInv /\ [Next]_vars => [(owner \notin {"new", "running", "revoke"}) => UNCHANGED store]_vars
<1> SUFFICES ASSUME IInv, Next, owner \notin {"new", "running", "revoke"}
             PROVE  UNCHANGED store
  BY DEF vars, store
<1>1. owner \in AfterRevoke /\ ~active /\ worker # "persist"
  BY DEF IInv, Stages, Shape, Owners, AfterRevoke, Closing
<1>2. CASE \E c \in Clients : Accept(c)
  BY <1>2 DEF Accept
<1>3. CASE ThreadStep
  BY <1>1, <1>3 DEF ThreadStep, LoopEnds, AcceptFails, Claim, Admit, Read, ClockFails, Refuse,
       Authorize, Stored, StoreFull, PersistFails, WriteResponse, Finish, Decide, Caught
<1>4. CASE Start \/ StartFails \/ RegisterRuntime \/ BeginClose \/ CloseStep
  BY <1>4 DEF Start, StartFails, RegisterRuntime, BeginClose, CloseStep, Deactivate,
       CloseListener, InterruptClient, Join, RemoveArtifacts
<1> QED  BY <1>2, <1>3, <1>4 DEF Next

\* After deactivate() nothing of the run reaches the store.
THEOREM RevokedIsQuiet == Spec => QuietAfterRevoke
BY QuietStep, IntakeInvariant, PTL DEF Spec, QuietAfterRevoke

\* When close() waits for the thread, the client the thread talks to has been shut down.
THEOREM InterruptsArrive == Spec => []InterruptReaches
<1>1. IInv => InterruptReaches
  BY DEF IInv, Stages
<1> QED  BY <1>1, IntakeInvariant, PTL

\* A clean close leaves no thread, no artifact and no error.
THEOREM ClosesAreClean == Spec => []CleanClose
<1>1. IInv => CleanClose
  BY DEF IInv, Stages
<1> QED  BY <1>1, IntakeInvariant, PTL

-----------------------------------------------------------------------------
(* A run of agentctl: its intake, and the supervisor as SupervisedRun has it *)

\* The intake of a run does nothing that FamilyIntake does not say.
LEMMA RunStepIsIntakeStep == [RunNext]_runVars => [Next]_vars
<1> SUFFICES ASSUME [RunNext]_runVars PROVE [Next]_vars
  OBVIOUS
<1>1. CASE Enter \/ EnterFails \/ Leave \/ Connect
  BY <1>1 DEF Enter, EnterFails, Leave, Connect, Next
<1>2. CASE Close \/ Serve
  BY <1>2 DEF Close, Serve, Next
<1>3. CASE Supervise \/ World \/ UNCHANGED runVars
  BY <1>3 DEF Supervise, Call, Register, Watch, World, intake, runVars, Next
<1> QED  BY <1>1, <1>2, <1>3 DEF RunNext

\* Without a family project there is no intake; else its thread starts before podman does.
FamilyOnly ==
  /\ family \in BOOLEAN
  /\ ~family => owner = "new" /\ worker = "none" /\ ~error
  /\ worker = "none" => ~error
  /\ owner = "new" => ~error

RunInv == IInv /\ FamilyOnly

LEMMA RunInitInv == RunInit => RunInv
<1> SUFFICES ASSUME RunInit PROVE RunInv
  OBVIOUS
<1>1. IInv
  BY InitIInv DEF RunInit
<1>2. FamilyOnly
  BY DEF RunInit, Init, Run!Init, FamilyOnly
<1> QED  BY <1>1, <1>2 DEF RunInv

\* The thread and close() leave the owner's start to Start, and without a thread do no harm.
LEMMA ThreadNeedsStart ==
  ASSUME RunInv, Serve \/ Connect \/ Close \/ Leave
  PROVE  FamilyOnly'
<1> USE DEF RunInv, FamilyOnly, IInv, Flags, Stages, Shape, Closing, AfterRevoke, Owners, Workers,
            supervision, runtime, thread, session, store, call
<1>1. CASE Leave
  BY <1>1 DEF Leave, BeginClose
<1>2. CASE Close
  BY <1>2 DEF Close, CloseStep, Deactivate, CloseListener, InterruptClient, Join, RemoveArtifacts
<1>3. CASE Connect
  BY <1>3 DEF Connect, Accept
<1>4. CASE Serve
  BY <1>4 DEF Serve, ThreadStep, LoopEnds, AcceptFails, Claim, Admit, Read, ClockFails, Refuse,
       Authorize, Stored, StoreFull, PersistFails, WriteResponse, Finish, Decide, Caught
<1> QED  BY <1>1, <1>2, <1>3, <1>4

\* What the supervisor and the world do to the call leaves the intake's start alone.
LEMMA RunStepInv == RunInv /\ [RunNext]_runVars => RunInv'
<1> SUFFICES ASSUME RunInv, [RunNext]_runVars PROVE RunInv'
  OBVIOUS
<1>1. IInv'
  BY RunStepIsIntakeStep, StepIInv DEF RunInv
<1>2. FamilyOnly'
  <2>1. CASE Serve \/ Connect \/ Close \/ Leave
    BY <2>1, ThreadNeedsStart
  <2>2. CASE Enter
    BY <2>2 DEF Enter, Start, RunInv, FamilyOnly, runtime, call
  <2>3. CASE EnterFails
    BY <2>3 DEF EnterFails, StartFails, NotCalled, RunInv, FamilyOnly, thread
  <2>4. CASE Supervise \/ World \/ UNCHANGED runVars
    <3>1. UNCHANGED <<family, owner, worker, error>>
      BY <2>4 DEF Supervise, Call, Register, Watch, World, RegisterRuntime, runVars, call, intake, vars,
           supervision, runtime, thread
    <3> QED  BY <3>1 DEF RunInv, FamilyOnly
  <2> QED  BY <2>1, <2>2, <2>3, <2>4 DEF RunNext
<1> QED  BY <1>1, <1>2 DEF RunInv

\* The invariant of a run.
THEOREM RunInvariant == RunSpec => []RunInv
BY RunInitInv, RunStepInv, PTL DEF RunSpec

\* In a run too, deactivate() is the end of what the agent puts into the store.
THEOREM RunsRevokeQuietly == RunSpec => QuietAfterRevoke
<1>1. RunSpec => [][Next]_vars /\ Init
  BY RunStepIsIntakeStep, PTL DEF RunSpec, RunInit
<1>2. IInv /\ [Next]_vars => [(owner \notin {"new", "running", "revoke"}) => UNCHANGED store]_vars
  BY QuietStep
<1> QED  BY <1>1, <1>2, RunInvariant, PTL DEF RunInv, QuietAfterRevoke

\* An error of the intake stays, and is all that check() can find while the thread is told
\* to stop whenever it ends.
LEMMA CheckIsError == RunInv => CheckFails = error /\ error \in BOOLEAN
BY Zenon DEF RunInv, IInv, Flags, Stages, DeadIsKnown, CheckFails

LEMMA ErrorStays == [Next]_vars /\ error => error'
<1> SUFFICES ASSUME [Next]_vars, error PROVE error'
  OBVIOUS
<1> USE DEF supervision, runtime, thread, session, store
<1>1. CASE UNCHANGED vars
  BY <1>1 DEF vars
<1>2. CASE Start \/ StartFails \/ RegisterRuntime \/ BeginClose \/ CloseStep
  BY <1>2 DEF Start, StartFails, RegisterRuntime, BeginClose, CloseStep, Deactivate, CloseListener,
       InterruptClient, Join, RemoveArtifacts
<1>3. CASE \E c \in Clients : Accept(c)
  BY <1>3 DEF Accept
<1>4. CASE ThreadStep
  BY <1>4 DEF ThreadStep, LoopEnds, AcceptFails, Claim, Admit, Read, ClockFails, Refuse,
       Authorize, Stored, StoreFull, PersistFails, WriteResponse, Finish, Decide, Caught
<1> QED  BY <1>1, <1>2, <1>3, <1>4 DEF Next

\* What the intake does by itself is, to the supervisor, nothing or a failing broker.
LEMMA IntakeStepMaps ==
  ASSUME RunInv, RunInv', [Next]_vars, UNCHANGED call, UNCHANGED root
  PROVE  [Run!Next]_(Run!vars)
<1>1. CheckFails = error /\ error \in BOOLEAN
  BY CheckIsError
<1>2. CheckFails' = error' /\ error' \in BOOLEAN
  BY Zenon DEF RunInv, IInv, Flags, Stages, DeadIsKnown, CheckFails
<1>3. CASE error' = error
  <2>1. CheckFails' = CheckFails
    BY <1>1, <1>2, <1>3, Zenon
  <2>2. (root = "known")' = (root = "known")
    OBVIOUS
  <2> QED
    BY <2>1, <2>2 DEF call, Run!vars, Run!given, Run!world, Run!alarms
<1>4. CASE ~error /\ error'
  <2>1. family /\ ~CheckFails /\ CheckFails' = TRUE
    BY <1>1, <1>2, <1>4, Zenon DEF RunInv, FamilyOnly, call
  <2> QED
    BY <2>1 DEF call, Run!Next, Run!FamilyFails, Run!given, Run!world
<1> QED
  BY <1>1, <1>2, <1>3, <1>4, ErrorStays

\* The run is a supervised run: the intake is one of the family brokers SupervisedRun
\* speaks of.
THEOREM RunIsSupervised == RunSpec => ImplementsSupervised
<1>1. RunInit => Run!Init
  BY DEF RunInit
<1>2. RunInv /\ RunInv' /\ [RunNext]_runVars => [Run!Next]_(Run!vars)
  <2> SUFFICES ASSUME RunInv, RunInv', [RunNext]_runVars PROVE [Run!Next]_(Run!vars)
    OBVIOUS
  <2>1. [Next]_vars
    BY RunStepIsIntakeStep
  <2>2. CASE Enter \/ Leave \/ Close \/ Serve \/ Connect
    <3>1. UNCHANGED call
      BY <2>2 DEF Enter, Leave, Close, Serve, Connect
    <3>2. UNCHANGED root
      BY <2>2 DEF Enter, Start, Leave, BeginClose, Close, CloseStep, Deactivate, CloseListener,
           InterruptClient, Join, RemoveArtifacts, Serve, Connect, Accept, ThreadStep, LoopEnds,
           AcceptFails, Claim, Admit, Read, ClockFails, Refuse, Authorize, Stored, StoreFull,
           PersistFails, WriteResponse, Finish, Decide, Caught, session
    <3> QED  BY <2>1, <3>1, <3>2, IntakeStepMaps
  <2>3. CASE EnterFails
    BY <2>3 DEF EnterFails, NotCalled, Run!Next, Run!Supervise, Run!given
  <2>4. CASE Supervise
    BY <2>4 DEF Supervise, Call, Register, Watch, Run!Next, Run!Supervise, Run!given
  <2>5. CASE World
    BY <2>5 DEF World, Run!Next, Run!given
  <2>6. CASE UNCHANGED runVars
    <3>1. UNCHANGED call /\ UNCHANGED root
      BY <2>6 DEF runVars, intake, vars, session
    <3> QED  BY <2>1, <3>1, IntakeStepMaps
  <2> QED  BY <2>2, <2>3, <2>4, <2>5, <2>6 DEF RunNext
<1> QED  BY <1>1, <1>2, RunInvariant, PTL DEF RunSpec, ImplementsSupervised

-----------------------------------------------------------------------------
(* The supervisor of a run, podman, the container and the gate.            *)

\* Where they are.
Places ==
  /\ family \in BOOLEAN /\ unclean \in BOOLEAN
  /\ signalled \in BOOLEAN /\ gatewayDown \in BOOLEAN /\ egress \in BOOLEAN
  /\ pc \in Run!Labels
  /\ process \in {"none", "running"} \cup Run!Ended
  /\ container \in {"none", "gated", "agent"} \cup Run!Ended
  /\ gate \in {"open", "released", "closed"} /\ outcome \in {"none", "ok", "error"}

\* The gate passes the command of the agent only when it was released, and it is released
\* by a registered supervisor.
Gated ==
  /\ family /\ container = "agent" => gate = "released"
  /\ family /\ gate = "released" => root = "known"
  /\ pc = "release" => root = "known"
  /\ pc = "launch" => gate = "open"
  /\ pc \in {"await", "register", "release"} => family /\ gate = "open"
  /\ pc \in {"abort", "wait"} => family /\ gate = "closed"

\* A call is over when podman has ended with its container, or when whatever podman may still
\* start will find the gate closed.
Over ==
  /\ pc = "launch" => process = "none" /\ container = "none"
  /\ process = "ok" => container = "ok"
  /\ pc \in {"stop", "kill"} => process # "running"
  /\ outcome = "ok" => container = "ok"
  /\ pc = "ended" /\ ~unclean =>
       \/ family /\ gate = "closed"
       \/ process # "running" /\ container \notin {"gated", "agent"}

SuperviseInv == Places /\ Gated /\ Over

LEMMA SuperviseInit == Run!Init => SuperviseInv
BY DEF Run!Init, SuperviseInv, Places, Gated, Over, Run!Labels

LEMMA SuperviseStep == SuperviseInv /\ [Run!Next]_(Run!vars) => SuperviseInv'
<1> SUFFICES ASSUME SuperviseInv, [Run!Next]_(Run!vars) PROVE SuperviseInv'
  OBVIOUS
<1> USE DEF SuperviseInv, Places, Gated, Over, Run!Labels, Run!world, Run!alarms, Run!given, Run!Ended
<1>0. CASE UNCHANGED Run!vars
  BY <1>0 DEF Run!vars
<1>1. CASE Run!Launch /\ UNCHANGED Run!given
  BY <1>1 DEF Run!Launch, Run!CloseGate
<1>2. CASE Run!AwaitPid /\ UNCHANGED Run!given
  BY <1>2 DEF Run!AwaitPid, Run!Fail, Run!CloseGate
<1>3. CASE Run!Register /\ UNCHANGED Run!given
  BY <1>3 DEF Run!Register, Run!Fail, Run!CloseGate
<1>4. CASE Run!Release /\ UNCHANGED Run!given
  BY <1>4 DEF Run!Release, Run!Fail, Run!CloseGate
<1>5. CASE Run!Abort /\ UNCHANGED Run!given
  BY <1>5 DEF Run!Abort, Run!ContainerStopped
<1>6. CASE Run!WaitOnce /\ UNCHANGED Run!given
  BY <1>6 DEF Run!WaitOnce
<1>7. CASE Run!Watch /\ UNCHANGED Run!given
  BY <1>7 DEF Run!Watch
<1>8. CASE Run!Ask /\ UNCHANGED Run!given
  BY <1>8 DEF Run!Ask
<1>9. CASE Run!Reap /\ UNCHANGED Run!given
  BY <1>9 DEF Run!Reap, Run!ContainerStopped
<1>10. CASE Run!Stop /\ UNCHANGED Run!given
  BY <1>10 DEF Run!Stop, Run!ContainerStopped
<1>11. CASE Run!Kill /\ UNCHANGED Run!given
  BY <1>11 DEF Run!Kill, Run!ContainerStopped
<1>12. CASE Run!ContainerStarts /\ UNCHANGED Run!given
  BY <1>12 DEF Run!ContainerStarts
<1>13. CASE Run!PassGate /\ UNCHANGED Run!given
  BY <1>13 DEF Run!PassGate
<1>14. CASE Run!ContainerEnds /\ UNCHANGED Run!given
  BY <1>14 DEF Run!ContainerEnds
<1>15. CASE Run!PodmanEnds /\ UNCHANGED Run!given
  BY <1>15 DEF Run!PodmanEnds
<1>16. CASE (Run!Signal \/ Run!GatewayFails \/ Run!FamilyFails) /\ UNCHANGED Run!given
  <2>1. UNCHANGED <<family, egress, pc, process, container, gate, unclean, outcome>>
    BY <1>16 DEF Run!Signal, Run!GatewayFails, Run!FamilyFails, Run!world, Run!given
  <2>2. (root = "known")' = (root = "known")
    BY <1>16 DEF Run!Signal, Run!GatewayFails, Run!FamilyFails
  <2>3. signalled' \in BOOLEAN /\ gatewayDown' \in BOOLEAN
    BY <1>16 DEF Run!Signal, Run!GatewayFails, Run!FamilyFails
  <2> QED  BY <2>1, <2>2, <2>3
<1>17. CASE Run!SupervisorDies /\ UNCHANGED Run!given
  BY <1>17 DEF Run!SupervisorDies, Run!CloseGate
<1> QED
  BY <1>0, <1>1, <1>2, <1>3, <1>4, <1>5, <1>6, <1>7, <1>8, <1>9, <1>10, <1>11, <1>12, <1>13,
     <1>14, <1>15, <1>16, <1>17 DEF Run!Next, Run!Supervise, Run!Others

\* What the supervisor relies on of podman, the container and the gate holds in every state
\* of a run (run_command_supervised).
THEOREM SuperviseInvariant == RunSpec => []SuperviseInv
BY SuperviseInit, SuperviseStep, RunIsSupervised, PTL DEF ImplementsSupervised

\* The state of the supervisor keeps its shape.
THEOREM SupervisorTypes == RunSpec => []Run!TypeOK
<1>1. SuperviseInv /\ RunInv => Run!TypeOK
  BY CheckIsError DEF SuperviseInv, Places, Run!TypeOK
<1> QED  BY <1>1, SuperviseInvariant, RunInvariant, PTL

\* With a family project the agent's command runs only after register_runtime, whatever dies or
\* comes late.
THEOREM GateIsHeld == RunSpec => []GateHolds
<1>1. SuperviseInv => GateHolds
  BY DEF SuperviseInv, Gated, GateHolds, Run!GateHolds
<1> QED  BY <1>1, SuperviseInvariant, PTL

\* When run_command_supervised has returned or raised, and podman could stop the container, the
\* agent's command does not run and will not.
THEOREM NothingIsLeft == RunSpec => []NothingLeft
<1>1. SuperviseInv => NothingLeft
  BY DEF SuperviseInv, Gated, Over, Places, NothingLeft, Run!NothingLeft
<1> QED  BY <1>1, SuperviseInvariant, PTL

\* A run that reports success had a container that ended well, and an intake that closed
\* without an error and without its thread.
THEOREM OkRunsAreClean == RunSpec => []OkRunIsClean
<1>1. RunInv /\ SuperviseInv => OkRunIsClean
  BY DEF RunInv, SuperviseInv, Over, IInv, Stages, CleanClose, OkRunIsClean
<1> QED  BY <1>1, RunInvariant, SuperviseInvariant, PTL

=============================================================================
