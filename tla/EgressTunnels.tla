---------------------------- MODULE EgressTunnels ----------------------------
(***************************************************************************)
(* The egress gateway (egress_broker_runtime.py): the tunnel handler that  *)
(* the broker kernel runs in one worker thread per client, the reservations*)
(* that limit the tunnels, and the audit each tunnel leaves.  Composed     *)
(* with BrokerRuntime in the mode the gateway uses: threads, and a session *)
(* revoked only after the joins, so that a tunnel that ends during stop    *)
(* can still be audited.                                                   *)
(*                                                                         *)
(* A client is its own reservation number: the code draws a fresh number   *)
(* for every connection and a connection reserves at most once.            *)
(***************************************************************************)
EXTENDS Integers, FiniteSets

CONSTANTS
  Clients,
  MaxActive,          \* _MAX_ACTIVE_TUNNELS
  MaxCreated,         \* _MAX_CREATED_TUNNELS
  MaxStops

ASSUME ClientsAssumption == IsFiniteSet(Clients)
ASSUME LimitAssumption == MaxActive \in Nat /\ MaxCreated \in Nat
ASSUME StopsAssumption == MaxStops \in Nat

VARIABLES
  owner, server, worker, stopEvent, failed, error, held, listening, revoked, artifacts,
  exited, trouble, reports, stops,
  phase,       \* [Clients -> Phases], where the handler of a client is
  answer,      \* [Clients -> Answers], the response it is about to give or has given
  outcome,     \* [Clients -> Outcomes], how the handler leaves
  active,      \* _active_reservations
  created,     \* _created_reservations
  total,       \* _created_tunnels
  told,        \* history: clients that were told their tunnel is open
  logged,      \* history: clients with an audit line
  spilled      \* history: clients whose upstream could not be closed

Kernel == INSTANCE BrokerRuntime WITH threaded <- TRUE, deactivateAfterJoin <- TRUE

kernel == <<owner, server, worker, stopEvent, failed, error, held, listening, revoked,
            artifacts, exited, trouble, reports, stops>>
limits == <<active, created, total>>
history == <<told, logged, spilled>>
vars == <<kernel, phase, answer, outcome, limits, history>>

Phases == {"open", "request", "reserve", "resolve", "connect", "mark", "answer", "relay",
           "audit", "close", "release", "return"}
Answers == {"none", "ok", "authentication", "policy", "limit", "resolve", "connect"}
Outcomes == {"ok", "oserror", "error"}

Init ==
  /\ Kernel!Init
  /\ phase = [c \in Clients |-> "open"]
  /\ answer = [c \in Clients |-> "none"]
  /\ outcome = [c \in Clients |-> "ok"]
  /\ active = {} /\ created = {} /\ total = 0
  /\ told = {} /\ logged = {} /\ spilled = {}

-----------------------------------------------------------------------------
(* The tunnel limits, each method under _limit_lock                        *)

Pending == active \ created

CanReserve ==
  /\ Cardinality(active) < MaxActive
  /\ total + Cardinality(Pending) < MaxCreated

CanMark(c) == c \in active /\ c \notin created /\ total < MaxCreated

-----------------------------------------------------------------------------
(* The handler                                                             *)

At(c, label) == worker[c] = "running" /\ phase[c] = label
Move(c, label) == phase' = [phase EXCEPT ![c] = label]
Reply(c, code) == answer' = [answer EXCEPT ![c] = code] /\ Move(c, "answer")
Leave(c, result) == outcome' = [outcome EXCEPT ![c] = result] /\ Move(c, "close")

\* open_connection; an OSError ends the worker before the handler's try block.
OpenConnection(c) ==
  /\ At(c, "open")
  /\ \/ Move(c, "request") /\ UNCHANGED outcome
     \/ Move(c, "return") /\ outcome' = [outcome EXCEPT ![c] = "oserror"]
  /\ UNCHANGED <<kernel, answer, limits, history>>

\* Reading the request may time out; a revoked session authorizes nobody.
Authorize(c) ==
  /\ At(c, "request")
  /\ \/ Move(c, "reserve") /\ ~revoked /\ UNCHANGED answer
     \/ Reply(c, "policy") /\ ~revoked
     \/ Reply(c, "authentication")
  /\ UNCHANGED <<kernel, outcome, limits, history>>

\* Mutant: only tunnels that have been created count as active.
ReserveTunnel_Late(c) ==
  /\ At(c, "reserve")
  /\ IF Cardinality(created) < MaxActive /\ total + Cardinality(Pending) < MaxCreated
       THEN active' = active \cup {c} /\ Move(c, "resolve") /\ UNCHANGED answer
       ELSE Reply(c, "limit") /\ UNCHANGED active
  /\ UNCHANGED <<kernel, outcome, created, total, history>>

ReserveTunnel(c) ==
  /\ At(c, "reserve")
  /\ IF CanReserve
       THEN active' = active \cup {c} /\ Move(c, "resolve") /\ UNCHANGED answer
       ELSE Reply(c, "limit") /\ UNCHANGED active
  /\ UNCHANGED <<kernel, outcome, created, total, history>>

ResolveTarget(c) ==
  /\ At(c, "resolve")
  /\ \/ Move(c, "connect") /\ UNCHANGED answer
     \/ Reply(c, "resolve")
  /\ UNCHANGED <<kernel, outcome, limits, history>>

\* A refused connection is answered; a socket that cannot be made is outside the code's try block:
\* its OSError leaves the handler, which has no upstream to close and nothing to tell.
ConnectTarget(c) ==
  /\ At(c, "connect")
  /\ \/ Move(c, "mark") /\ UNCHANGED <<answer, outcome>>
     \/ Reply(c, "connect") /\ UNCHANGED outcome
     \/ /\ outcome' = [outcome EXCEPT ![c] = "oserror"] /\ Move(c, "release")
        /\ UNCHANGED answer
  /\ UNCHANGED <<kernel, limits, history>>

\* Refusing a reservation that was granted raises a ValueError, which ends the broker.
MarkTunnelCreated(c) ==
  /\ At(c, "mark")
  /\ IF CanMark(c)
       THEN /\ created' = created \cup {c}
            /\ total' = total + 1
            /\ Reply(c, "ok")
            /\ UNCHANGED outcome
       ELSE Leave(c, "error") /\ UNCHANGED <<answer, created, total>>
  /\ UNCHANGED <<kernel, active, history>>

\* Mutant: a client that went away ends the worker on the spot.
WriteResponse_Bare(c) ==
  /\ At(c, "answer")
  /\ \/ /\ answer[c] = "ok"
        /\ Move(c, "relay") /\ told' = told \cup {c}
        /\ UNCHANGED outcome
     \/ /\ answer[c] # "ok"
        /\ Move(c, "audit") /\ UNCHANGED <<outcome, told>>
     \/ Move(c, "return") /\ UNCHANGED <<outcome, told>>
  /\ UNCHANGED <<kernel, answer, limits, logged, spilled>>

\* The response; a client that went away raises an OSError, and nothing is audited.
WriteResponse(c) ==
  /\ At(c, "answer")
  /\ \/ /\ answer[c] = "ok"
        /\ Move(c, "relay") /\ told' = told \cup {c}
        /\ UNCHANGED outcome
     \/ /\ answer[c] # "ok"
        /\ Move(c, "audit") /\ UNCHANGED <<outcome, told>>
     \/ Leave(c, "oserror") /\ UNCHANGED told
  /\ UNCHANGED <<kernel, answer, limits, logged, spilled>>

\* Both sides closed, a limit, a timeout or a broken connection: all are audited.
RelayTunnel(c) ==
  /\ At(c, "relay")
  /\ Move(c, "audit")
  /\ UNCHANGED <<kernel, answer, outcome, limits, history>>

\* The session refuses to audit once revoked; the file may refuse with either kind of error.
Audit(c) ==
  /\ At(c, "audit")
  /\ \/ ~revoked /\ logged' = logged \cup {c} /\ Leave(c, "ok")
     \/ ~revoked /\ Leave(c, "oserror") /\ UNCHANGED logged
     \/ Leave(c, "error") /\ UNCHANGED logged
  /\ UNCHANGED <<kernel, answer, limits, told, spilled>>

\* The finally block closes the upstream first: if that raises, nothing is released.
CloseUpstream(c) ==
  /\ At(c, "close")
  /\ \/ Move(c, "release") /\ UNCHANGED <<outcome, spilled>>
     \/ /\ answer[c] \in {"none", "ok"} /\ c \in active
        /\ outcome' = [outcome EXCEPT ![c] = "oserror"] /\ Move(c, "return")
        /\ spilled' = spilled \cup {c}
  /\ UNCHANGED <<kernel, answer, limits, told, logged>>

ReleaseTunnel(c) ==
  /\ At(c, "release")
  /\ active' = active \ {c} /\ created' = created \ {c}
  /\ Move(c, "return")
  /\ UNCHANGED <<kernel, answer, outcome, total, history>>

\* Back in the kernel's worker, which swallows an OSError and dies of anything else.
Return(c) ==
  /\ At(c, "return")
  /\ Kernel!WorkerEnds(c, outcome[c])
  /\ UNCHANGED <<phase, answer, outcome, limits, history>>

-----------------------------------------------------------------------------
\* What the gateway's own timeouts bring to an end: the client's 30 seconds, the connect
\* timeout, the relay's idle and lifetime limits.
Timed(c) ==
  \/ OpenConnection(c) \/ Authorize(c) \/ ReserveTunnel(c) \/ ConnectTarget(c)
  \/ MarkTunnelCreated(c) \/ WriteResponse(c) \/ RelayTunnel(c) \/ Audit(c)
  \/ CloseUpstream(c) \/ ReleaseTunnel(c) \/ Return(c)

KernelStep ==
  /\ \/ Kernel!Start \/ Kernel!StartFails \/ Kernel!BeginStop \/ Kernel!Stop
     \/ Kernel!Serve \/ Kernel!GateOpens \/ Kernel!ServeFails \/ Kernel!Finishing
     \/ \E c \in Clients : Kernel!Accept(c)
  /\ UNCHANGED <<phase, answer, outcome, limits, history>>

Next == KernelStep \/ \E c \in Clients : Timed(c) \/ ResolveTarget(c)

Spec == Init /\ [][Next]_vars

\* The resolver is called without a timeout: the gateway itself does not end the call.
Fairness ==
  /\ WF_vars(Kernel!Serve /\ UNCHANGED <<phase, answer, outcome, limits, history>>)
  /\ \A c \in Clients : WF_vars(Timed(c))
FairSpec == Spec /\ Fairness

-----------------------------------------------------------------------------
(* Properties                                                              *)

\* The shape of the reservations and of every handler's progress.
TypeOK ==
  /\ phase \in [Clients -> Phases]
  /\ answer \in [Clients -> Answers]
  /\ outcome \in [Clients -> Outcomes]
  /\ active \subseteq Clients /\ created \subseteq active
  /\ total \in 0..MaxCreated
  /\ {told, logged, spilled} \subseteq SUBSET Clients

\* A reservation is a promise: whoever got one and connected can be marked as created, however
\* many tunnels were created while it resolved and connected. Otherwise the worker raises and
\* takes the whole gateway down.
GrantHonoured == \A c \in Clients : phase[c] = "mark" => CanMark(c)

\* The limits of the gateway hold at every moment, tunnels that are still resolving or
\* connecting included.
LimitsHold == Cardinality(active) <= MaxActive /\ total + Cardinality(Pending) <= MaxCreated

\* A handler that is through has given its slot back, unless closing the upstream raised.
SlotsReturned ==
  \A c \in Clients : c \in active => phase[c] \notin {"open", "return"} \/ c \in spilled

\* A tunnel that was announced to a client and is not in the audit brings the gateway down, or
\* an OSError hid it: the client went away, or the audit file could not be written.
OpenedIsLogged ==
  \A c \in told \ logged : worker[c] \in {"leaving", "gone"} => failed \/ outcome[c] = "oserror"

\* Once the artifacts are gone no slot is out, unless closing its upstream raised; and an owner to
\* whom start and stop raised nothing has every tunnel it announced in the audit, but for those
\* an OSError hid: the kernel's promises and the handler's, taken together.
EndIsSettled ==
  /\ ~artifacts => active \subseteq spilled
  /\ owner = "down" /\ reports = {} => \A c \in told \ logged : outcome[c] = "oserror"

\* The gateway is a broker like any other: what its threads do is what the kernel allows them.
ImplementsKernel == Kernel!Spec

\* The design bounds resolving and connecting by a timeout each.
ResolvingIsTimed == \A c \in Clients : (phase[c] = "resolve") ~> (phase[c] # "resolve")

=============================================================================
