----------------------------- MODULE SupervisedRun -----------------------------
(***************************************************************************)
(* run_command_supervised (podman.py): the supervisor starts `podman run`  *)
(* and watches it together with the egress gateway and the family broker.  *)
(* With a family broker the container first waits at a pipe, the gate,     *)
(* until its process is registered (container/bin/agent-runtime-launcher). *)
(* Podman, the container, the brokers, signals and the death of the        *)
(* supervisor are the environment.                                         *)
(***************************************************************************)
VARIABLES
  family,      \* a family runtime is given to the call
  egress,      \* an egress gateway is; with neither, podman is not supervised
  pc,          \* where the supervisor stands; "ended" and "dead" are final
  process,     \* the podman child: "none", "running" or how it ended
  container,   \* "none", "gated", "agent" (runs the command) or how it ended
  gate,        \* the write end: "open", "released" (byte written), "closed" (EOF)
  registered,  \* register_runtime succeeded
  signalled,   \* interrupted
  gatewayDown, \* gateway.wait_failed would say so
  familyDown,  \* family_runtime.check would raise
  unclean,     \* podman stop and podman kill both failed
  outcome      \* "none" until the call is over, "ok" or "error"

world == <<process, container>>
alarms == <<signalled, gatewayDown, familyDown>>
given == <<family, egress>>
vars == <<given, pc, world, gate, registered, alarms, unclean, outcome>>

Ended == {"ok", "failed"}
Labels == {"launch", "await", "register", "release", "abort", "wait", "watch", "ask", "reap",
           "stop", "kill", "ended", "dead"}

\* The shape of the supervisor, its child, the container and the gate.
TypeOK ==
  /\ family \in BOOLEAN /\ egress \in BOOLEAN
  /\ pc \in Labels
  /\ process \in {"none", "running"} \cup Ended
  /\ container \in {"none", "gated", "agent"} \cup Ended
  /\ gate \in {"open", "released", "closed"}
  /\ {registered, signalled, gatewayDown, familyDown, unclean} \subseteq BOOLEAN
  /\ outcome \in {"none", "ok", "error"}

Init ==
  /\ family \in BOOLEAN /\ egress \in BOOLEAN /\ (family \/ egress)
  /\ pc = "launch" /\ process = "none" /\ container = "none" /\ gate = "open"
  /\ registered = FALSE /\ unclean = FALSE /\ outcome = "none"
  /\ signalled = FALSE /\ gatewayDown = FALSE /\ familyDown = FALSE

\* The command gave up before its gate: closing the write end is EOF.
CloseGate == gate' = IF gate = "open" THEN "closed" ELSE gate

(***************************************************************************)
(* The supervisor.                                                         *)
(***************************************************************************)
Launch ==
  /\ pc = "launch"
  /\ \/ /\ process' = "running" /\ pc' = IF family THEN "await" ELSE "watch"
        /\ UNCHANGED <<gate, outcome>>
     \/ \* the mount is not valid any more, or Popen raises
        /\ pc' = "ended" /\ outcome' = "error" /\ CloseGate /\ UNCHANGED process
  /\ UNCHANGED <<container, registered, alarms, unclean>>

\* The gate is closed without a byte and the container stopped by its name.
Fail == pc' = "abort" /\ CloseGate

\* The pidfile names a live process; or podman ended, or the deadline passed.
AwaitPid ==
  /\ pc = "await"
  /\ \/ container = "gated" /\ pc' = "register" /\ UNCHANGED gate
     \/ Fail
  /\ UNCHANGED <<world, registered, alarms, unclean, outcome>>

Register ==
  /\ pc = "register"
  /\ \/ ~familyDown /\ registered' = TRUE /\ pc' = "release" /\ UNCHANGED gate
     \/ Fail /\ UNCHANGED registered
  /\ UNCHANGED <<world, alarms, unclean, outcome>>

\* One byte, then the end is closed; writing fails when nobody reads.
Release ==
  /\ pc = "release"
  /\ \/ gate' = "released" /\ pc' = "watch"
     \/ container \in Ended /\ Fail
  /\ UNCHANGED <<world, registered, alarms, unclean, outcome>>

\* The container's end as podman stop or kill brings it about.
ContainerStopped == container' = IF container = "none" THEN "none" ELSE
                                 IF container \in Ended THEN container ELSE "failed"

\* _stop_named_container first: podman is then not reaped.  When it raises, the
\* child is still known below, is reaped there, and the container stopped again.
Abort ==
  /\ pc = "abort"
  /\ \/ pc' = "wait" /\ ContainerStopped
     \/ pc' = "reap" /\ UNCHANGED container
  /\ UNCHANGED <<process, gate, registered, alarms, unclean, outcome>>

\* process.wait(timeout=5): podman ended, or is left alone.
WaitOnce ==
  /\ pc = "wait" /\ pc' = "ended" /\ outcome' = "error"
  /\ UNCHANGED <<world, gate, registered, alarms, unclean>>

\* The head of the loop: podman is polled, then the signals are looked at.  A
\* return code of zero ends the call; any other way out stops the container.
Watch ==
  /\ pc = "watch"
  /\ \/ process = "running" /\ ~signalled /\ pc' = "ask" /\ UNCHANGED outcome
     \/ signalled /\ pc' = "reap" /\ UNCHANGED outcome
     \/ process = "ok" /\ ~signalled /\ pc' = "ended" /\ outcome' = "ok"
     \/ process = "failed" /\ ~signalled /\ pc' = "stop" /\ UNCHANGED outcome
  /\ UNCHANGED <<world, gate, registered, alarms, unclean>>

\* Mutant: the family broker is not asked.
Ask_GatewayOnly ==
  /\ pc = "ask" /\ pc' = IF egress /\ gatewayDown THEN "reap" ELSE "watch"
  /\ UNCHANGED <<world, gate, registered, alarms, unclean, outcome>>

\* The body of the loop, after a while: has a broker failed?
Ask ==
  /\ pc = "ask"
  /\ pc' = IF (egress /\ gatewayDown) \/ (family /\ familyDown) THEN "reap" ELSE "watch"
  /\ UNCHANGED <<world, gate, registered, alarms, unclean, outcome>>

\* Mutant: a reaped podman is taken for a stopped container.
Reap_Last ==
  /\ pc = "reap" /\ pc' = "ended" /\ outcome' = "error"
  /\ process' = IF process = "running" THEN "failed" ELSE process
  /\ UNCHANGED <<container, gate, registered, alarms, unclean>>

\* _reap_process: SIGTERM, which podman forwards, then SIGKILL to podman alone.
Reap ==
  /\ pc = "reap" /\ pc' = "stop"
  /\ process' = IF process = "running" THEN "failed" ELSE process
  /\ \/ UNCHANGED container
     \/ process = "running" /\ ContainerStopped
  /\ UNCHANGED <<gate, registered, alarms, unclean, outcome>>

\* podman stop --ignore succeeds for a container that does not exist.
Stop ==
  /\ pc = "stop"
  /\ \/ ContainerStopped /\ pc' = "ended" /\ outcome' = "error"
     \/ pc' = "kill" /\ UNCHANGED <<container, outcome>>
  /\ UNCHANGED <<process, gate, registered, alarms, unclean>>

Kill ==
  /\ pc = "kill" /\ pc' = "ended" /\ outcome' = "error"
  /\ \/ ContainerStopped /\ UNCHANGED unclean
     \/ unclean' = TRUE /\ UNCHANGED container
  /\ UNCHANGED <<process, gate, registered, alarms>>

(***************************************************************************)
(* The environment.                                                        *)
(***************************************************************************)
\* podman run creates and starts the container: only a live podman does.
ContainerStarts ==
  /\ process = "running" /\ container = "none"
  /\ container' = IF family THEN "gated" ELSE "agent"
  /\ UNCHANGED <<pc, process, gate, registered, alarms, unclean, outcome>>

\* Mutant: the launcher takes EOF for its release.
PassGate_OnEof ==
  /\ container = "gated" /\ gate # "open" /\ container' = "agent"
  /\ UNCHANGED <<pc, process, gate, registered, alarms, unclean, outcome>>

\* The launcher reads the gate: the byte lets it exec, EOF makes it exit.
PassGate ==
  /\ container = "gated"
  /\ \/ gate = "released" /\ container' = "agent"
     \/ gate = "closed" /\ container' = "failed"
  /\ UNCHANGED <<pc, process, gate, registered, alarms, unclean, outcome>>

\* The command of the container ends, or the container is killed from outside.
ContainerEnds ==
  /\ container \in {"gated", "agent"}
  /\ container' \in IF container = "agent" THEN Ended ELSE {"failed"}
  /\ UNCHANGED <<pc, process, gate, registered, alarms, unclean, outcome>>

\* podman run exits with the code of its container, or fails on its own account.
PodmanEnds ==
  /\ process = "running"
  /\ process' \in (IF container = "ok" THEN Ended ELSE {"failed"})
  /\ UNCHANGED <<pc, container, gate, registered, alarms, unclean, outcome>>

Signal ==
  /\ pc \in {"launch", "await", "register", "release", "abort", "wait", "watch", "ask"}
  /\ ~signalled /\ signalled' = TRUE
  /\ UNCHANGED <<pc, world, gate, registered, gatewayDown, familyDown, unclean, outcome>>

GatewayFails ==
  /\ egress /\ ~gatewayDown /\ gatewayDown' = TRUE
  /\ UNCHANGED <<pc, world, gate, registered, signalled, familyDown, unclean, outcome>>

FamilyFails ==
  /\ family /\ ~familyDown /\ familyDown' = TRUE
  /\ UNCHANGED <<pc, world, gate, registered, signalled, gatewayDown, unclean, outcome>>

\* SIGKILL at any time; or, once the handlers are restored, a second signal.
SupervisorDies ==
  /\ pc \notin {"ended", "dead"}
  /\ pc' = "dead" /\ CloseGate
  /\ UNCHANGED <<world, registered, alarms, unclean, outcome>>

Supervise ==
  \/ Launch \/ AwaitPid \/ Register \/ Release \/ Abort \/ WaitOnce
  \/ Watch \/ Ask \/ Reap \/ Stop \/ Kill

\* What is neither the supervisor's nor the family broker's.
Others ==
  \/ ContainerStarts \/ PassGate \/ ContainerEnds \/ PodmanEnds
  \/ Signal \/ GatewayFails \/ SupervisorDies

Next == UNCHANGED given /\ (Supervise \/ Others \/ FamilyFails)

\* Every wait of the supervisor is timed: 0.1 s in the loop, 5 s for podman stop,
\* podman kill and the child, and a deadline for the pidfile.
Spec == Init /\ [][Next]_vars /\ WF_vars(UNCHANGED given /\ Supervise)

(***************************************************************************)
(* Properties.                                                             *)
(***************************************************************************)
\* No command of the agent runs before the family broker has registered its
\* process, whatever fails, dies or comes late on the way.
GateHolds == family /\ container = "agent" => registered

\* When the call is over and podman could stop the container if asked, the
\* container does not run the agent, then or later: not when podman starts it
\* after the error was raised, and not when podman died before its container.
NothingLeft == pc = "ended" /\ ~unclean => container # "agent"
===============================================================================
