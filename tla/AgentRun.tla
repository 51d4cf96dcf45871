------------------------------ MODULE AgentRun ------------------------------
(***************************************************************************)
(* One agentctl run with a family project (main in agentctl.py): the       *)
(* family intake is entered, podman is started and watched by              *)
(* run_command_supervised, and when that returns or raises the intake is   *)
(* left.  FamilyIntake and SupervisedRun meet in three places: the         *)
(* supervisor validates the mount and registers the container's process    *)
(* with the session, it polls check(), and the intake admits a peer only   *)
(* below a process that is alive in the container.                         *)
(*                                                                         *)
(* What SupervisedRun takes from its environment, registered and           *)
(* familyDown, is here what the intake says.  Without a family project the *)
(* run has an egress gateway only; the other brokers start and stop like   *)
(* it and can make the run fail before podman starts.                      *)
(***************************************************************************)
EXTENDS FamilyIntake

VARIABLES family, egress, pc, process, container, gate, signalled, gatewayDown, unclean, outcome

Run == INSTANCE SupervisedRun WITH registered <- root = "known", familyDown <- CheckFails

intake == vars
call == <<family, egress, pc, process, container, gate, signalled, gatewayDown, unclean, outcome>>
runVars == <<intake, call>>

RunInit == Init /\ Run!Init

\* agentctl itself is there: its thread and its clean-up end with it.
Alive == pc # "dead"

\* No call is made when a broker does not start.
NotCalled == pc' = "ended" /\ Run!Launch /\ UNCHANGED <<family, egress>>

\* enter_context(family_runtime), the outermost of the stack.
Enter == Alive /\ family /\ pc = "launch" /\ Start /\ UNCHANGED call
EnterFails == Alive /\ family /\ StartFails /\ NotCalled

\* validate_mount refuses a runtime that has stopped.
Call ==
  /\ UNCHANGED intake /\ UNCHANGED <<family, egress>>
  /\ family => owner = "running"
  /\ Run!Launch
  /\ family /\ stop => pc' = "ended"

\* register_runtime, which is tried once; before it the pidfile's process may have died.
Register ==
  /\ UNCHANGED <<family, egress>>
  /\ \/ RegisterRuntime
     \/ UNCHANGED intake
  /\ Run!Register

Watch ==
  /\ UNCHANGED intake /\ UNCHANGED <<family, egress>>
  /\ \/ Run!AwaitPid \/ Run!Release \/ Run!Abort \/ Run!WaitOnce
     \/ Run!Watch \/ Run!Ask \/ Run!Reap \/ Run!Stop \/ Run!Kill

Supervise == Call \/ Register \/ Watch

World == UNCHANGED intake /\ UNCHANGED <<family, egress>> /\ Run!Others

\* The stack is left when the call is over, however it went.
Leave == Alive /\ pc = "ended" /\ BeginClose /\ UNCHANGED call
Close == Alive /\ CloseStep /\ UNCHANGED call

\* validate_peer finds the registered process among the living.
Serve ==
  /\ Alive /\ UNCHANGED call
  /\ ThreadStep
  /\ worker' = "read" => container = "agent"

Connect == Alive /\ UNCHANGED call /\ \E c \in Clients : Accept(c)

RunNext == Enter \/ EnterFails \/ Supervise \/ World \/ Leave \/ Close \/ Serve \/ Connect

\* Every wait of the supervisor, of the thread and of close() is timed.
RunSpec ==
  /\ RunInit /\ [][RunNext]_runVars
  /\ WF_runVars(Enter \/ Supervise) /\ WF_runVars(Serve) /\ WF_runVars(Leave \/ Close)

-----------------------------------------------------------------------------
(* Properties                                                              *)

\* The family broker as it is does what SupervisedRun lets a broker do: it is down once and
\* for all, and registers a process only while it is not.
ImplementsSupervised == Run!Init /\ [][Run!Next]_(Run!vars)

\* The agent's command runs only in a container whose process the session knows.
GateHolds == Run!GateHolds

\* When run_command_supervised is over the agent's command neither runs nor will.
NothingLeft == Run!NothingLeft

\* A run that reports success had a container that ended well and an intake without error,
\* whose thread is gone.
OkRunIsClean ==
  outcome = "ok" /\ (family => result = "clean") =>
    container = "ok" /\ (family => worker = "gone" /\ ~error /\ ~active)

\* The supervisor is dead, or out of its call and out of the intake.
RunOver == pc = "dead" \/ (pc = "ended" /\ owner \in {"new", "closed", "stuck"})

\* A signal, a failed gateway and an exception of the intake's thread, each ends the run,
\* the container's first and then the intake's.
AlarmsEndRun == (signalled \/ gatewayDown \/ error \/ worker = "raise") ~> RunOver

=============================================================================
