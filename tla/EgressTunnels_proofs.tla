------------------------ MODULE EgressTunnels_proofs ------------------------
(***************************************************************************)
(* The tunnel accounting of the egress gateway for any number of clients   *)
(* and any limits: a reservation that was granted is honoured, the limits  *)
(* hold, and slots come back.                                              *)
(*                                                                         *)
(* LimitsHold bounds the tunnels created plus those that may still be, so  *)
(* it must count each handler between its reservation and its mark as      *)
(* pending: that is what Stage adds.                                       *)
(*                                                                         *)
(* OpenedIsLogged is about the audit, so its invariant follows the handler *)
(* from the announcement to its end through every way an error may take:   *)
(* that is what Told adds.                                                 *)
(*                                                                         *)
(* The gateway refines the kernel it is composed with, so that the kernel's*)
(* theorems hold of it; with its own they say what the end leaves behind.  *)
(*                                                                         *)
(* At the end, what becomes of the bytes of one tunnel (RelayTunnel).      *)
(***************************************************************************)
EXTENDS EgressTunnels, RelayTunnel, FiniteSetTheorems, TLAPS

USE ClientsAssumption, LimitAssumption

Sets ==
  /\ phase \in [Clients -> Phases]
  /\ active \subseteq Clients /\ created \subseteq active
  /\ total \in Nat

Stage == \A c \in Clients :
  /\ phase[c] \in {"open", "request", "reserve"} => c \notin active
  /\ phase[c] \in {"resolve", "connect", "mark"} => c \in Pending
  /\ c \in active /\ phase[c] = "return" => c \in spilled

IInv == Sets /\ Stage /\ LimitsHold

\* The reservations are finite, so that they can be counted.
LEMMA Countable ==
  ASSUME Sets
  PROVE  /\ IsFiniteSet(active) /\ IsFiniteSet(Pending)
         /\ Cardinality(active) \in Nat /\ Cardinality(Pending) \in Nat
<1>1. IsFiniteSet(active) /\ IsFiniteSet(Pending)
  BY FS_Subset DEF Sets, Pending
<1> QED  BY <1>1, FS_CardinalityType

LEMMA InitIInv == Init => IInv
<1> SUFFICES ASSUME Init PROVE IInv
  OBVIOUS
<1>1. Sets /\ Stage
  BY DEF Init, Sets, Stage, Phases
<1>2. Cardinality(active) = 0 /\ Cardinality(Pending) = 0
  BY FS_EmptySet DEF Init, Pending
<1> QED  BY <1>1, <1>2 DEF Init, IInv, LimitsHold

\* A step of a handler that leaves the reservations alone only has to keep its client's stage.
LEMMA PhaseStep ==
  ASSUME IInv, NEW c \in Clients, NEW label \in Phases, Move(c, label), UNCHANGED limits,
         spilled \subseteq spilled',
         label \in {"open", "request", "reserve"} => c \notin active,
         label \in {"resolve", "connect", "mark"} => c \in Pending,
         c \in active /\ label = "return" => c \in spilled'
  PROVE  IInv'
<1>1. active' = active /\ created' = created /\ total' = total /\ Pending' = Pending
  BY DEF limits, Pending
<1>2. phase' = [phase EXCEPT ![c] = label]
  BY DEF Move
<1>3. Sets'
  BY <1>1, <1>2 DEF IInv, Sets
<1>4. Stage'
  BY <1>1, <1>2 DEF IInv, Stage, Sets
<1>5. LimitsHold'
  BY <1>1 DEF IInv, LimitsHold
<1> QED  BY <1>3, <1>4, <1>5 DEF IInv

\* Granting a reservation adds one pending tunnel, within both limits.
LEMMA ReserveStep == ASSUME IInv, NEW c \in Clients, ReserveTunnel(c) PROVE IInv'
<1>1. phase[c] = "reserve" /\ c \notin active
  BY DEF ReserveTunnel, At, IInv, Stage
<1>2. created' = created /\ total' = total /\ spilled' = spilled
  BY DEF ReserveTunnel, history
<1>3. CASE CanReserve
  <2>1. active' = active \cup {c} /\ phase' = [phase EXCEPT ![c] = "resolve"]
    BY <1>3 DEF ReserveTunnel, Move
  <2>2. Pending' = Pending \cup {c}
    BY <1>1, <1>2, <2>1 DEF Pending, IInv, Sets
  <2>3. Cardinality(active') = Cardinality(active) + 1
        /\ Cardinality(Pending') = Cardinality(Pending) + 1
    BY <1>1, <2>1, <2>2, Countable, FS_AddElement DEF IInv, Pending
  <2>4. Sets'
    BY <1>2, <2>1 DEF IInv, Sets, Phases
  <2>5. Stage'
    BY <1>2, <2>1, <2>2 DEF IInv, Stage, Sets
  <2>6. LimitsHold'
    BY <1>2, <1>3, <2>3, Countable DEF IInv, Sets, LimitsHold, CanReserve
  <2> QED  BY <2>4, <2>5, <2>6 DEF IInv
<1>4. CASE ~CanReserve
  <2>1. Move(c, "answer") /\ UNCHANGED limits
    BY <1>2, <1>4 DEF ReserveTunnel, Reply, limits
  <2> QED  BY <1>2, <2>1, PhaseStep DEF Phases
<1> QED  BY <1>3, <1>4

\* Marking a tunnel turns one pending tunnel into a created one; the sum is unchanged.
LEMMA MarkStep == ASSUME IInv, NEW c \in Clients, MarkTunnelCreated(c) PROVE IInv'
<1>1. phase[c] = "mark" /\ c \in Pending
  BY DEF MarkTunnelCreated, At, IInv, Stage
<1>2. active' = active /\ spilled' = spilled
  BY DEF MarkTunnelCreated, history
<1>3. CASE CanMark(c)
  <2>1. created' = created \cup {c} /\ total' = total + 1
        /\ phase' = [phase EXCEPT ![c] = "answer"]
    BY <1>3 DEF MarkTunnelCreated, Reply, Move
  <2>2. Pending' = Pending \ {c}
    BY <1>2, <2>1 DEF Pending
  <2>3. Cardinality(Pending') = Cardinality(Pending) - 1
    BY <1>1, <2>2, Countable, FS_RemoveElement DEF IInv
  <2>4. Sets'
    BY <1>1, <1>2, <2>1 DEF IInv, Sets, Phases, Pending
  <2>5. Stage'
    BY <1>2, <2>1, <2>2 DEF IInv, Stage, Sets
  <2>6. LimitsHold'
    BY <1>2, <2>1, <2>3, Countable DEF IInv, Sets, LimitsHold
  <2> QED  BY <2>4, <2>5, <2>6 DEF IInv
<1>4. CASE ~CanMark(c)
  <2>1. Move(c, "close") /\ UNCHANGED limits
    BY <1>2, <1>4 DEF MarkTunnelCreated, Leave, limits
  <2> QED  BY <1>2, <2>1, PhaseStep DEF Phases
<1> QED  BY <1>3, <1>4

\* Releasing a slot only makes room, whether its tunnel was created or not.
LEMMA ReleaseStep == ASSUME IInv, NEW c \in Clients, ReleaseTunnel(c) PROVE IInv'
<1>1. active' = active \ {c} /\ created' = created \ {c} /\ total' = total
      /\ phase' = [phase EXCEPT ![c] = "return"] /\ spilled' = spilled
  BY DEF ReleaseTunnel, Move, history
<1>2. Pending' \subseteq Pending /\ active' \subseteq active
  BY <1>1 DEF Pending, IInv, Sets
<1>3. Cardinality(Pending') <= Cardinality(Pending) /\ Cardinality(active') <= Cardinality(active)
      /\ Cardinality(Pending') \in Nat /\ Cardinality(active') \in Nat
  <2>1. IsFiniteSet(Pending') /\ IsFiniteSet(active')
    BY <1>2, Countable, FS_Subset DEF IInv
  <2> QED  BY <1>2, <2>1, Countable, FS_Subset, FS_CardinalityType DEF IInv
<1>4. Sets'
  BY <1>1 DEF IInv, Sets, Phases
<1>5. \A d \in Clients \ {c} : (d \in active' <=> d \in active) /\ (d \in Pending' <=> d \in Pending)
  BY <1>1 DEF Pending
<1>6. Stage'
  BY <1>1, <1>5 DEF IInv, Stage, Sets
<1>7. LimitsHold'
  BY <1>1, <1>3, Countable DEF IInv, Sets, LimitsHold
<1> QED  BY <1>4, <1>6, <1>7 DEF IInv

\* The other steps of a handler follow its stages and touch no reservation.
LEMMA HandlerStep ==
  ASSUME IInv, NEW c \in Clients,
         OpenConnection(c) \/ Authorize(c) \/ ResolveTarget(c) \/ ConnectTarget(c)
           \/ WriteResponse(c) \/ RelayTunnel(c) \/ Audit(c) \/ CloseUpstream(c)
  PROVE  IInv'
<1>1. UNCHANGED limits
  BY DEF OpenConnection, Authorize, ResolveTarget, ConnectTarget, WriteResponse, RelayTunnel,
         Audit, CloseUpstream
<1>2. CASE OpenConnection(c)
  <2>1. c \notin active /\ spilled' = spilled /\ (Move(c, "request") \/ Move(c, "return"))
    BY <1>2 DEF OpenConnection, At, IInv, Stage, history
  <2> QED  BY <1>1, <2>1, PhaseStep DEF Phases
<1>3. CASE Authorize(c)
  <2>1. c \notin active /\ spilled' = spilled /\ (Move(c, "reserve") \/ Move(c, "answer"))
    BY <1>3 DEF Authorize, At, IInv, Stage, history, Reply
  <2> QED  BY <1>1, <2>1, PhaseStep DEF Phases
<1>4. CASE ResolveTarget(c) \/ ConnectTarget(c)
  <2>1. c \in Pending /\ spilled' = spilled
        /\ (Move(c, "connect") \/ Move(c, "mark") \/ Move(c, "answer") \/ Move(c, "release"))
    BY <1>4 DEF ResolveTarget, ConnectTarget, At, IInv, Stage, history, Reply
  <2> QED  BY <1>1, <2>1, PhaseStep DEF Phases
<1>5. CASE WriteResponse(c) \/ RelayTunnel(c) \/ Audit(c)
  <2>1. spilled' = spilled /\ (Move(c, "relay") \/ Move(c, "audit") \/ Move(c, "close"))
    BY <1>5 DEF WriteResponse, RelayTunnel, Audit, Leave, history
  <2> QED  BY <1>1, <2>1, PhaseStep DEF Phases
<1>6. CASE CloseUpstream(c)
  <2>1. \/ Move(c, "release") /\ spilled' = spilled
        \/ Move(c, "return") /\ spilled' = spilled \cup {c}
    BY <1>6 DEF CloseUpstream
  <2> QED  BY <1>1, <2>1, PhaseStep DEF Phases
<1> QED  BY <1>2, <1>3, <1>4, <1>5, <1>6

\* The kernel's own steps, the end of a worker included, leave the accounting alone.
LEMMA KernelFrame ==
  ASSUME IInv, UNCHANGED <<phase, limits, spilled>>
  PROVE  IInv'
  BY DEF IInv, Sets, Stage, LimitsHold, Pending, limits

LEMMA NextIInv == IInv /\ [Next]_vars => IInv'
<1> SUFFICES ASSUME IInv, [Next]_vars PROVE IInv'
  OBVIOUS
<1>1. ASSUME NEW c \in Clients, Timed(c) \/ ResolveTarget(c) PROVE IInv'
  <2>1. CASE Return(c)
    BY <2>1, KernelFrame DEF Return, history
  <2> QED  BY <1>1, <2>1, HandlerStep, ReserveStep, MarkStep, ReleaseStep DEF Timed
<1>2. CASE KernelStep \/ UNCHANGED vars
  <2>1. UNCHANGED <<phase, limits, spilled>>
    BY <1>2 DEF KernelStep, vars, history
  <2> QED  BY <2>1, KernelFrame
<1> QED  BY <1>1, <1>2 DEF Next

\* The inductive invariant holds in every state of every behaviour.
THEOREM AccountingHolds == Spec => []IInv
<1> QED  BY InitIInv, NextIInv, PTL DEF Spec

\* At every moment at most MaxActive reservations are out, and at most MaxCreated tunnels have
\* been created or may still be (_reserve_tunnel).
THEOREM LimitsAreKept == Spec => []LimitsHold
<1>1. IInv => LimitsHold
  BY DEF IInv
<1> QED  BY <1>1, AccountingHolds, PTL

\* _mark_tunnel_created never raises: whoever was granted a reservation can use it.
THEOREM GrantsAreHonoured == Spec => []GrantHonoured
<1>1. IInv => GrantHonoured
  <2> SUFFICES ASSUME IInv, NEW c \in Clients, phase[c] = "mark" PROVE CanMark(c)
    BY DEF GrantHonoured
  <2>1. c \in Pending
    BY DEF IInv, Stage
  <2>2. Cardinality(Pending) # 0
    BY <2>1, Countable, FS_EmptySet DEF IInv
  <2>3. total < MaxCreated
    BY <2>2, Countable DEF IInv, Sets, LimitsHold
  <2> QED  BY <2>1, <2>3 DEF CanMark, Pending
<1> QED  BY <1>1, AccountingHolds, PTL

\* A handler that is through holds a slot only if it could not close its upstream.
THEOREM SlotsAreReturned == Spec => []SlotsReturned
<1>1. IInv => SlotsReturned
  BY DEF IInv, Stage, SlotsReturned
<1> QED  BY <1>1, AccountingHolds, PTL

-----------------------------------------------------------------------------
\* Whose tunnel was announced has gone past the answer; it leaves with an error unless it is in
\* the audit, and an error that is not an OSError has failed the broker.
Told == \A c \in Clients :
  /\ c \in told => phase[c] \in {"relay", "audit", "close", "release", "return"}
  /\ c \in told \ logged /\ phase[c] \in {"close", "release", "return"} => outcome[c] # "ok"
  /\ c \in told \ logged /\ worker[c] \in {"leaving", "gone"} => failed \/ outcome[c] = "oserror"

Functions ==
  /\ phase \in [Clients -> Phases] /\ outcome \in [Clients -> Outcomes]
  /\ worker \in [Clients -> Kernel!WorkerStates] /\ told \subseteq Clients

AuditInv == Functions /\ Told

\* A step of a handler moves nobody else.
LEMMA ToldStep ==
  ASSUME AuditInv, NEW c \in Clients, worker[c] = "running", UNCHANGED kernel,
         NEW label \in Phases, Move(c, label),
         NEW result \in Outcomes, outcome' = [outcome EXCEPT ![c] = result],
         told' \in {told, told \cup {c}}, logged' \in {logged, logged \cup {c}},
         c \in told' => label \in {"relay", "audit", "close", "release", "return"},
         c \in told' \ logged' /\ label \in {"close", "release", "return"} => result # "ok"
  PROVE  AuditInv'
<1>1. /\ phase' = [phase EXCEPT ![c] = label] /\ worker' = worker /\ failed' = failed
  BY DEF Move, kernel
<1>2. Functions'
  BY <1>1 DEF AuditInv, Functions
<1>3. Told'
  BY <1>1 DEF AuditInv, Functions, Told
<1> QED  BY <1>2, <1>3 DEF AuditInv

LEMMA ToldHandler ==
  ASSUME AuditInv, NEW c \in Clients,
         \/ OpenConnection(c) \/ Authorize(c) \/ ReserveTunnel(c) \/ ResolveTarget(c)
         \/ ConnectTarget(c) \/ MarkTunnelCreated(c) \/ WriteResponse(c) \/ RelayTunnel(c)
         \/ Audit(c) \/ CloseUpstream(c) \/ ReleaseTunnel(c)
  PROVE  AuditInv'
<1>0. /\ worker[c] = "running" /\ UNCHANGED kernel /\ outcome[c] \in Outcomes
      /\ outcome = [outcome EXCEPT ![c] = outcome[c]]
      /\ c \in told => phase[c] \in {"relay", "audit", "close", "release", "return"}
      /\ c \in told \ logged /\ phase[c] \in {"close", "release", "return"} => outcome[c] # "ok"
  BY DEF OpenConnection, Authorize, ReserveTunnel, ResolveTarget, ConnectTarget, MarkTunnelCreated,
     WriteResponse, RelayTunnel, Audit, CloseUpstream, ReleaseTunnel, At, AuditInv, Functions, Told
<1>1. CASE OpenConnection(c) \/ Authorize(c) \/ ReserveTunnel(c) \/ ResolveTarget(c)
             \/ ConnectTarget(c) \/ MarkTunnelCreated(c)
  <2>1. c \notin told /\ told' = told /\ logged' = logged
    BY <1>0, <1>1 DEF OpenConnection, Authorize, ReserveTunnel, ResolveTarget, ConnectTarget,
       MarkTunnelCreated, At, history
  <2>2. \E label \in Phases, result \in Outcomes :
          Move(c, label) /\ outcome' = [outcome EXCEPT ![c] = result]
    <3>1. CASE UNCHANGED outcome
      BY <1>0, <1>1, <3>1 DEF OpenConnection, Authorize, ReserveTunnel, ResolveTarget, ConnectTarget,
         MarkTunnelCreated, Reply, Leave, Phases, Outcomes
    <3>2. CASE OpenConnection(c) \/ ConnectTarget(c) \/ MarkTunnelCreated(c)
      BY <1>0, <3>2 DEF OpenConnection, ConnectTarget, MarkTunnelCreated, Reply, Leave, Phases, Outcomes
    <3> QED  BY <1>1, <3>1, <3>2 DEF Authorize, ReserveTunnel, ResolveTarget
  <2> QED  BY <1>0, <2>1, <2>2, ToldStep
<1>2. CASE WriteResponse(c)
  <2>1. c \notin told /\ logged' = logged
    BY <1>0, <1>2 DEF WriteResponse, At
  <2>2. CASE Move(c, "relay") /\ told' = told \cup {c} /\ UNCHANGED outcome
    BY <1>0, <2>1, <2>2, ToldStep DEF Phases
  <2>3. CASE Move(c, "audit") /\ told' = told /\ UNCHANGED outcome
    BY <1>0, <2>1, <2>3, ToldStep DEF Phases
  <2>4. CASE Leave(c, "oserror") /\ told' = told
    BY <1>0, <2>1, <2>4, ToldStep DEF Phases, Outcomes, Leave
  <2> QED  BY <1>2, <2>2, <2>3, <2>4 DEF WriteResponse
<1>3. CASE RelayTunnel(c)
  BY <1>0, <1>3, ToldStep DEF RelayTunnel, history, Phases
<1>4. CASE Audit(c)
  <2>1. told' = told
    BY <1>4 DEF Audit
  <2>2. PICK result \in Outcomes :
          /\ Leave(c, result)
          /\ \/ logged' = logged \cup {c}
             \/ logged' = logged /\ result # "ok"
    BY <1>4 DEF Audit, Outcomes
  <2>3. Move(c, "close") /\ outcome' = [outcome EXCEPT ![c] = result]
    BY <2>2 DEF Leave
  <2> QED  BY <1>0, <2>1, <2>2, <2>3, ToldStep DEF Phases
<1>5. CASE CloseUpstream(c)
  <2>1. told' = told /\ logged' = logged /\ phase[c] = "close"
    BY <1>5 DEF CloseUpstream, At
  <2>2. CASE Move(c, "release") /\ UNCHANGED outcome
    BY <1>0, <2>1, <2>2, ToldStep DEF Phases
  <2>3. CASE Move(c, "return") /\ outcome' = [outcome EXCEPT ![c] = "oserror"]
    BY <1>0, <2>1, <2>3, ToldStep DEF Phases, Outcomes
  <2> QED  BY <1>5, <2>2, <2>3 DEF CloseUpstream
<1>6. CASE ReleaseTunnel(c)
  BY <1>0, <1>6, ToldStep DEF ReleaseTunnel, At, history, Phases
<1> QED  BY <1>1, <1>2, <1>3, <1>4, <1>5, <1>6

\* A worker that has come to its end was running or the broker has failed.
LEMMA ToldKernel ==
  ASSUME AuditInv, UNCHANGED <<phase, outcome, told, logged>>,
         worker' \in [Clients -> Kernel!WorkerStates], failed => failed',
         \A c \in Clients : worker'[c] \in {"leaving", "gone"} =>
           \/ worker[c] \in {"leaving", "gone"}
           \/ failed'
           \/ phase[c] = "return" /\ outcome[c] # "error"
  PROVE  AuditInv'
<1>1. Functions'
  BY DEF AuditInv, Functions
<1>2. Told'
  BY DEF AuditInv, Functions, Told, Outcomes
<1> QED  BY <1>1, <1>2 DEF AuditInv

LEMMA KernelMoves ==
  ASSUME AuditInv, KernelStep
  PROVE  AuditInv'
<1>0. UNCHANGED <<phase, outcome, told, logged>> /\ worker \in [Clients -> Kernel!WorkerStates]
  BY DEF KernelStep, history, AuditInv, Functions
<1>1. CASE UNCHANGED worker /\ failed' \in {failed, TRUE}
  <2>1. failed => failed'
    BY <1>1, Zenon
  <2> QED  BY <1>0, <1>1, <2>1, ToldKernel
<1>2. ASSUME NEW c \in Clients, NEW s \in Kernel!WorkerStates, worker' = [worker EXCEPT ![c] = s],
             failed' \in {failed, TRUE},
             s \in {"leaving", "gone"} => failed' \/ worker[c] = "leaving"
      PROVE  AuditInv'
  <2>1. failed => failed'
    BY <1>2, Zenon
  <2>2. worker' \in [Clients -> Kernel!WorkerStates]
    BY <1>0, <1>2
  <2>3. \A d \in Clients : worker'[d] \in {"leaving", "gone"} => worker[d] \in {"leaving", "gone"} \/ failed'
    BY <1>0, <1>2
  <2> QED  BY <1>0, <2>1, <2>2, <2>3, ToldKernel
<1>3. CASE Kernel!Start \/ Kernel!StartFails \/ Kernel!BeginStop \/ Kernel!Stop \/ Kernel!GateOpens
             \/ Kernel!ServeFails \/ Kernel!SeesStop
  <2>1. UNCHANGED worker /\ failed' \in {failed, TRUE}
    BY <1>3 DEF Kernel!Start, Kernel!StartFails, Kernel!BeginStop, Kernel!Stop, Kernel!GateOpens,
       Kernel!ServeFails, Kernel!SeesStop, Kernel!Deactivate, Kernel!Unlisten, Kernel!Join,
       Kernel!Reap, Kernel!Revoke, Kernel!DidNotStop, Kernel!Release, Kernel!Report, Kernel!threads
  <2> QED  BY <1>1, <2>1
<1>4. ASSUME NEW c \in Clients, Kernel!Accept(c) PROVE AuditInv'
  <2>1. worker' = [worker EXCEPT ![c] = "accepted"] /\ failed' = failed
    BY <1>4 DEF Kernel!Accept
  <2> QED  BY <1>2, <2>1 DEF Kernel!WorkerStates
<1>5. ASSUME NEW c \in Clients, Kernel!Register(c) \/ Kernel!StartWorker(c) PROVE AuditInv'
  <2>1. PICK s \in {"registered", "running"} : worker' = [worker EXCEPT ![c] = s] /\ failed' = failed
    BY <1>5 DEF Kernel!Register, Kernel!StartWorker
  <2> QED  BY <1>2, <2>1 DEF Kernel!WorkerStates
<1>6. ASSUME NEW c \in Clients, Kernel!StartWorkerFails(c) \/ Kernel!WorkerLeaves(c) PROVE AuditInv'
  <2>1. /\ worker' = [worker EXCEPT ![c] = "gone"] /\ failed' \in {failed, TRUE}
        /\ failed' = TRUE \/ worker[c] = "leaving"
    BY <1>6 DEF Kernel!StartWorkerFails, Kernel!WorkerLeaves
  <2> QED  BY <1>2, <2>1 DEF Kernel!WorkerStates
<1> QED  BY <1>3, <1>4, <1>5, <1>6 DEF KernelStep, Kernel!Serve, Kernel!Finishing

LEMMA ToldReturn ==
  ASSUME AuditInv, NEW c \in Clients, Return(c)
  PROVE  AuditInv'
<1>1. /\ UNCHANGED <<phase, outcome, told, logged>> /\ phase[c] = "return"
      /\ worker' = [worker EXCEPT ![c] = "leaving"]
      /\ IF outcome[c] = "error" THEN failed' = TRUE ELSE failed' = failed
  BY DEF Return, At, history, Kernel!WorkerEnds
<1>2. worker' \in [Clients -> Kernel!WorkerStates] /\ worker \in [Clients -> Kernel!WorkerStates]
  BY <1>1 DEF AuditInv, Functions, Kernel!WorkerStates
<1> QED  BY <1>1, <1>2, ToldKernel

LEMMA AuditInit == Init => AuditInv
<1> SUFFICES ASSUME Init PROVE AuditInv
  OBVIOUS
<1>1. worker = [c \in Clients |-> "none"]
  BY DEF Init, Kernel!Init
<1> QED  BY <1>1 DEF Init, AuditInv, Functions, Told, Phases, Outcomes, Kernel!WorkerStates

LEMMA AuditStep == AuditInv /\ [Next]_vars => AuditInv'
<1> SUFFICES ASSUME AuditInv, [Next]_vars PROVE AuditInv'
  OBVIOUS
<1>1. CASE UNCHANGED vars
  <2>1. UNCHANGED <<phase, outcome, told, logged, worker, failed>>
    BY <1>1 DEF vars, history, kernel
  <2> QED  BY <2>1 DEF AuditInv, Functions, Told
<1>2. CASE KernelStep
  BY <1>2, KernelMoves
<1>3. ASSUME NEW c \in Clients, Timed(c) \/ ResolveTarget(c) PROVE AuditInv'
  BY <1>3, ToldHandler, ToldReturn DEF Timed
<1> QED  BY <1>1, <1>2, <1>3 DEF Next

\* A client that was told its tunnel is open is in the audit when its handler is through, or the
\* gateway has failed, or an OSError hid it (_handle_client, EgressBrokerSession.audit).
THEOREM OpenedAreLogged == Spec => []OpenedIsLogged
<1>1. AuditInv => OpenedIsLogged
  BY DEF AuditInv, Functions, Told, OpenedIsLogged
<1> QED  BY <1>1, AuditInit, AuditStep, PTL DEF Spec

-----------------------------------------------------------------------------
(* The gateway as a broker: it refines the kernel, so that what is proved  *)
(* of every broker (BrokerRuntime_proofs) is true of it.                   *)

Proved == INSTANCE BrokerRuntime_proofs WITH threaded <- TRUE, deactivateAfterJoin <- TRUE

\* A handler's step between its first and its last leaves the kernel alone, its last is one that
\* the kernel expects of a worker, and the rest are the kernel's own.
LEMMA KernelImplemented ==
  ASSUME AuditInv, [Next]_vars
  PROVE  [Kernel!Next]_(Kernel!vars)
<1>1. CASE KernelStep
  BY <1>1 DEF KernelStep, Kernel!Next, Kernel!form
<1>2. ASSUME NEW c \in Clients, Return(c) PROVE Kernel!Next
  <2>1. outcome[c] \in Outcomes
    BY DEF AuditInv, Functions
  <2>2. Kernel!Handle
    BY <1>2, <2>1 DEF Return, Kernel!Handle, Kernel!Outcomes, Outcomes
  <2> QED  BY <2>2 DEF Kernel!Next, Kernel!form
<1>3. CASE UNCHANGED kernel
  BY <1>3 DEF kernel, Kernel!vars, Kernel!form
<1>4. ASSUME NEW c \in Clients, Timed(c) \/ ResolveTarget(c), ~Return(c) PROVE UNCHANGED kernel
  BY <1>4 DEF Timed, OpenConnection, Authorize, ReserveTunnel, ResolveTarget, ConnectTarget,
     MarkTunnelCreated, WriteResponse, RelayTunnel, Audit, CloseUpstream, ReleaseTunnel
<1>5. CASE UNCHANGED vars
  BY <1>3, <1>5 DEF vars
<1> QED  BY <1>1, <1>2, <1>3, <1>4, <1>5 DEF Next

\* The gateway implements the kernel in the mode with threads and a late revocation.
THEOREM GatewayIsBroker == Spec => ImplementsKernel
<1>1. Init => Kernel!Init
  BY DEF Init, Kernel!Init
<1>2. AuditInv /\ [Next]_vars => [Kernel!Next]_(Kernel!vars)
  BY KernelImplemented
<1> QED  BY <1>1, <1>2, AuditInit, AuditStep, PTL DEF Spec, ImplementsKernel, Kernel!Spec

\* A handler acts only while its worker runs, and the kernel's two marks of a failure agree.
Hosted ==
  /\ \A c \in Clients : worker[c] \in {"none", "accepted", "registered"} => phase[c] = "open"
  /\ \A c \in Clients : worker[c] \in {"leaving", "gone"} => phase[c] \in {"open", "return"}
  /\ failed => error

LEMMA HostedInit == Init => Hosted
<1> SUFFICES ASSUME Init PROVE Hosted
  OBVIOUS
<1>1. worker = [c \in Clients |-> "none"] /\ failed = FALSE
  BY DEF Init, Kernel!Init
<1> QED  BY <1>1 DEF Init, Hosted

LEMMA HostedKernel ==
  ASSUME AuditInv, Hosted, KernelStep
  PROVE  Hosted'
<1>0. UNCHANGED phase /\ worker \in [Clients -> Kernel!WorkerStates]
  BY DEF KernelStep, AuditInv, Functions
<1>1. CASE Kernel!Start \/ Kernel!StartFails \/ Kernel!BeginStop \/ Kernel!Stop \/ Kernel!GateOpens
             \/ Kernel!ServeFails \/ Kernel!SeesStop
  <2>1. UNCHANGED worker /\ (UNCHANGED <<failed, error>> \/ error' = TRUE)
    BY <1>1 DEF Kernel!Start, Kernel!StartFails, Kernel!BeginStop, Kernel!Stop, Kernel!GateOpens,
       Kernel!ServeFails, Kernel!SeesStop, Kernel!Deactivate, Kernel!Unlisten, Kernel!Join,
       Kernel!Reap, Kernel!Revoke, Kernel!DidNotStop, Kernel!Release, Kernel!Report, Kernel!threads
  <2>2. failed' => error'
    BY <2>1, Zenon DEF Hosted
  <2> QED  BY <1>0, <2>1, <2>2 DEF Hosted
<1>2. ASSUME NEW c \in Clients,
             Kernel!Accept(c) \/ Kernel!Register(c) \/ Kernel!StartWorker(c)
               \/ Kernel!StartWorkerFails(c) \/ Kernel!WorkerLeaves(c)
      PROVE  Hosted'
  <2>1. UNCHANGED <<failed, error>> \/ error' = TRUE
    BY <1>2 DEF Kernel!Accept, Kernel!Register, Kernel!StartWorker, Kernel!StartWorkerFails,
       Kernel!WorkerLeaves
  <2>2. failed' => error'
    BY <2>1, Zenon DEF Hosted
  <2>3. /\ \A d \in Clients \ {c} : worker'[d] = worker[d]
        /\ \/ worker[c] \in {"none", "accepted", "registered"}
              /\ worker'[c] \in {"accepted", "registered", "running", "gone"}
           \/ worker[c] = "leaving" /\ worker'[c] = "gone"
    BY <1>0, <1>2 DEF Kernel!Accept, Kernel!Register, Kernel!StartWorker, Kernel!StartWorkerFails,
       Kernel!WorkerLeaves
  <2> QED  BY <1>0, <2>2, <2>3 DEF Hosted
<1> QED  BY <1>1, <1>2 DEF KernelStep, Kernel!Serve, Kernel!Finishing

LEMMA HostedHandler ==
  ASSUME AuditInv, Hosted, NEW c \in Clients, Timed(c) \/ ResolveTarget(c)
  PROVE  Hosted'
<1>0. worker \in [Clients -> Kernel!WorkerStates] /\ phase \in [Clients -> Phases]
  BY DEF AuditInv, Functions
<1>1. CASE Return(c)
  <2>1. /\ UNCHANGED phase /\ phase[c] = "return" /\ worker' = [worker EXCEPT ![c] = "leaving"]
        /\ (error' = TRUE \/ UNCHANGED <<failed, error>>)
    BY <1>1 DEF Return, At, Kernel!WorkerEnds
  <2>2. failed' => error'
    BY <2>1, Zenon DEF Hosted
  <2> QED  BY <1>0, <2>1, <2>2 DEF Hosted
<1>2. CASE ~Return(c)
  <2>1. worker[c] = "running" /\ UNCHANGED <<worker, failed, error>>
        /\ \E label \in Phases : Move(c, label)
    BY <1>2 DEF Timed, OpenConnection, Authorize, ReserveTunnel, ResolveTarget, ConnectTarget,
       MarkTunnelCreated, WriteResponse, RelayTunnel, Audit, CloseUpstream, ReleaseTunnel, At,
       Reply, Leave, Phases, kernel
  <2> QED  BY <1>0, <2>1 DEF Hosted, Move
<1> QED  BY <1>1, <1>2

THEOREM HandlersAreHosted == Spec => []Hosted
<1>1. AuditInv /\ Hosted /\ [Next]_vars => Hosted'
  <2> SUFFICES ASSUME AuditInv, Hosted, [Next]_vars PROVE Hosted'
    OBVIOUS
  <2>1. CASE UNCHANGED vars
    BY <2>1 DEF vars, kernel, Hosted
  <2> QED  BY <2>1, HostedKernel, HostedHandler DEF Next
<1> QED  BY <1>1, HostedInit, AuditInit, AuditStep, PTL DEF Spec

\* The kernel's theorems, of the gateway.
THEOREM GatewayEndsWell ==
  Spec => [](Kernel!QuietRelease /\ Kernel!ExitedIsClean /\ Kernel!SilenceMeansDone)
<1>1. Kernel!Init => Proved!Init
  BY DEF Kernel!Init, Proved!Init
<1>2. Kernel!Next => Proved!Next
  BY DEF Kernel!Start, Kernel!StartFails, Kernel!BeginStop, Kernel!Deactivate,
     Kernel!Unlisten, Kernel!Join, Kernel!Reap, Kernel!Revoke, Kernel!DidNotStop,
     Kernel!Release, Kernel!Report, Kernel!SeesStop, Kernel!Register, Kernel!StartWorker,
     Kernel!StartWorkerFails, Kernel!GateOpens, Kernel!ServeFails, Kernel!WorkerLeaves,
     Kernel!HandlerEnds, Kernel!WorkerEnds, Kernel!Accept, Kernel!form, Kernel!session,
     Kernel!threads, Kernel!Close, Kernel!Top, Kernel!Serving, Kernel!ServerAlive,
     Kernel!Registered, Kernel!Step, Kernel!TryDeactivate, Kernel!Outcomes, Kernel!Stop,
     Kernel!Serve, Kernel!Finishing, Kernel!Handle, Kernel!Next, Proved!Start,
     Proved!StartFails, Proved!BeginStop, Proved!Deactivate, Proved!Unlisten, Proved!Join,
     Proved!Reap, Proved!Revoke, Proved!DidNotStop, Proved!Release, Proved!Report,
     Proved!SeesStop, Proved!Register, Proved!StartWorker, Proved!StartWorkerFails,
     Proved!GateOpens, Proved!ServeFails, Proved!WorkerLeaves, Proved!HandlerEnds,
     Proved!WorkerEnds, Proved!Accept, Proved!form, Proved!session, Proved!threads,
     Proved!Close, Proved!Top, Proved!Serving, Proved!ServerAlive, Proved!Registered,
     Proved!Step, Proved!TryDeactivate, Proved!Outcomes, Proved!Stop, Proved!Serve,
     Proved!Finishing, Proved!Handle, Proved!Next
<1>3. UNCHANGED Kernel!vars => UNCHANGED Proved!vars
  BY DEF Kernel!vars, Proved!vars, Kernel!form, Proved!form
<1>4. [Kernel!Next]_(Kernel!vars) => [Proved!Next]_(Proved!vars)
  BY <1>2, <1>3
<1>5. Spec => Proved!Spec
  BY <1>1, <1>4, GatewayIsBroker, PTL DEF ImplementsKernel, Kernel!Spec, Proved!Spec
<1>6. Proved!QuietRelease /\ Proved!ExitedIsClean /\ Proved!SilenceMeansDone
      => Kernel!QuietRelease /\ Kernel!ExitedIsClean /\ Kernel!SilenceMeansDone
  BY DEF Kernel!QuietRelease, Kernel!ExitedIsClean, Kernel!SilenceMeansDone, Kernel!ServerAlive,
     Proved!QuietRelease, Proved!ExitedIsClean, Proved!SilenceMeansDone, Proved!ServerAlive
<1> QED  BY <1>5, <1>6, Proved!ReleaseIsQuiet, Proved!ExitIsClean, Proved!SilenceIsDone,
          StopsAssumption, PTL

\* When the artifacts are gone every slot has come back or its upstream could not be closed; and
\* after stops that raised nothing only an OSError explains a tunnel that is not in the audit.
THEOREM EndsAreSettled == Spec => []EndIsSettled
<1>1. IInv /\ AuditInv /\ Hosted /\ Kernel!QuietRelease /\ Kernel!ExitedIsClean
        /\ Kernel!SilenceMeansDone => EndIsSettled
  <2> SUFFICES ASSUME IInv, AuditInv, Hosted, Kernel!QuietRelease, Kernel!ExitedIsClean,
                      Kernel!SilenceMeansDone
               PROVE  EndIsSettled
    OBVIOUS
  <2>1. ASSUME ~artifacts, NEW c \in Clients
        PROVE  phase[c] = "open" \/ (worker[c] = "gone" /\ phase[c] = "return")
    BY <2>1 DEF Kernel!QuietRelease, Hosted
  <2>2. ~artifacts => active \subseteq spilled
    BY <2>1 DEF IInv, Sets, Stage
  <2>3. ASSUME owner = "down", reports = {}, NEW c \in told \ logged PROVE outcome[c] = "oserror"
    <3>1. ~artifacts /\ ~failed /\ c \in Clients
      BY <2>3 DEF Kernel!SilenceMeansDone, Kernel!ExitedIsClean, Hosted, AuditInv, Functions
    <3>2. phase[c] # "open"
      BY <2>3, <3>1 DEF AuditInv, Told
    <3>3. worker[c] = "gone"
      BY <2>1, <3>1, <3>2
    <3> QED  BY <2>3, <3>1, <3>3 DEF AuditInv, Told
  <2> QED  BY <2>2, <2>3 DEF EndIsSettled
<1> QED  BY <1>1, AccountingHolds, HandlersAreHosted, GatewayEndsWell, AuditInit, AuditStep, PTL
       DEF Spec

-----------------------------------------------------------------------------
(* The bytes of a tunnel (RelayTunnel), for any room, chunks and limit.     *)
(*                                                                         *)
(* Bytes are conserved (Conserved) and counted where they pass (Counted),   *)
(* and the end of a stream is behind its last byte at each hop (Ordered).   *)
(* None of it holds of a relay that has failed, and a failed one stays so.  *)

USE RelayAssumption

\* The relay that a direction passes first, and the other.
First(d) == IF d = "up" THEN "adapter" ELSE "gateway"
Second(d) == IF d = "up" THEN "gateway" ELSE "adapter"

Conserved(d) ==
  sent[d] = got[d] + flight[d][1] + flight[d][2] + flight[d][3]
            + buffer[First(d)][d] + buffer[Second(d)][d] + Ahead(d)

Counted(d) ==
  /\ count[Second(d)][d] = got[d] + flight[d][3] + buffer[Second(d)][d]
  /\ count[First(d)][d] = count[Second(d)][d] + flight[d][2] + buffer[First(d)][d] + Ahead(d)
  /\ \A r \in Relays : count[r][d] <= Limit

\* A relay that has seen the end of a direction has nothing left of it and has passed it on,
\* and only then; and nothing comes after an end.
Ordered(d) ==
  /\ \A r \in Relays :
       /\ d \notin open[r] <=> Out(r, d) \in fin[d]
       /\ d \notin open[r] => In(r, d) \in fin[d] /\ flight[d][In(r, d)] = 0 /\ buffer[r][d] = 0
  /\ d \in eof => 3 \in fin[d] /\ flight[d][3] = 0

\* The adapter relays nothing before it has its answer, and a relay returns with nothing.
Staged ==
  /\ stage["adapter"] = "answer" =>
       /\ ahead = 0 /\ open["adapter"] = Directions
       /\ \A d \in Directions : buffer["adapter"][d] = 0
  /\ \A r \in Relays : stage[r] = "returned" =>
       open[r] = {} /\ \A d \in Directions : buffer[r][d] = 0

\* All this of a tunnel none of whose relays has failed.
Sound == Staged /\ \A d \in Directions : Conserved(d) /\ Counted(d) /\ Ordered(d)

RelayInv == RelayTypeOK /\ (Failed = {} => Sound)

LEMMA RelayTypes == RelayTypeOK /\ [RelayNext]_relayVars => RelayTypeOK'
<1> SUFFICES ASSUME RelayTypeOK, [RelayNext]_relayVars PROVE RelayTypeOK'
  OBVIOUS
<1> USE DEF RelayTypeOK, Relays, Directions, Hops, In, Out, streams, relays, ends
<1>1. CASE UNCHANGED relayVars
  BY <1>1 DEF relayVars
<1>2. CASE ReadAnswer
  BY <1>2 DEF ReadAnswer
<1>3. ASSUME NEW r \in Relays, ReturnCounts(r) PROVE RelayTypeOK'
  BY <1>3 DEF ReturnCounts
<1>9. ASSUME NEW r \in Relays, GiveUp(r) PROVE RelayTypeOK'
  BY <1>9 DEF GiveUp, FailRelay
<1>4. ASSUME NEW r \in Relays, NEW d \in Directions, Read(r, d) PROVE RelayTypeOK'
  BY <1>4 DEF Read, FailRelay
<1>5. ASSUME NEW r \in Relays, NEW d \in Directions, ReadEnd(r, d) PROVE RelayTypeOK'
  BY <1>5 DEF ReadEnd, ShutDown
<1>6. ASSUME NEW r \in Relays, NEW d \in Directions, Write(r, d) PROVE RelayTypeOK'
  BY <1>6 DEF Write, ShutDown
<1>7. ASSUME NEW d \in Directions, Send(d) PROVE RelayTypeOK'
  BY <1>7 DEF Send
<1>8. ASSUME NEW d \in Directions, HalfClose(d) PROVE RelayTypeOK'
  BY <1>8 DEF HalfClose
<1>10. ASSUME NEW d \in Directions, Quit(d) PROVE RelayTypeOK'
  BY <1>10 DEF Quit
<1>11. ASSUME NEW d \in Directions, Receive(d) PROVE RelayTypeOK'
  <2>1. flight' \in [Directions -> [Hops -> 0..Room]]
    BY <1>11 DEF Receive
  <2>2. eof' \subseteq Directions
    BY <1>11 DEF Receive
  <2>3. got' \in [Directions -> Nat]
    <3>1. got' = got \/ got' = [got EXCEPT ![d] = @ + 1]
      BY <1>11, Zenon DEF Receive
    <3> QED  BY <3>1
  <2> QED  BY <1>11, <2>1, <2>2, <2>3 DEF Receive
<1> QED
  BY <1>1, <1>2, <1>3, <1>4, <1>5, <1>6, <1>7, <1>8, <1>9, <1>10, <1>11
     DEF RelayNext, RelayStep, Forward, EndStep

LEMMA ReadAnswerSound ==
  ASSUME RelayTypeOK, Sound, ReadAnswer  PROVE Sound'
<1> USE DEF ReadAnswer, Sound, RelayTypeOK, Relays, Directions, Hops, In, Out, First, Second, Ahead,
        streams, relays, ends
<1>1. Staged'
  BY DEF Staged
<1>2. Conserved("up")' /\ Counted("up")' /\ Ordered("up")'
  BY DEF Staged, Conserved, Counted, Ordered
<1>3. Conserved("down")'
  BY DEF Staged, Conserved
<1>4. Counted("down")'
  BY DEF Staged, Counted
<1>5. Ordered("down")'
  BY DEF Staged, Ordered
<1> QED  BY <1>1, <1>2, <1>3, <1>4, <1>5

LEMMA ReadSound ==
  ASSUME RelayTypeOK, Sound, NEW r \in Relays, NEW d \in Directions, Read(r, d),
         \A s \in Relays : stage'[s] # "failed"
  PROVE  Sound'
<1> USE DEF Sound, RelayTypeOK, Relays, Directions, Hops, In, Out, First, Second, Ahead,
        streams, relays, ends
<1>1. Staged'
  BY DEF Read, FailRelay, Staged, Relaying
<1>2. Conserved("up")'
  BY DEF Read, FailRelay, Conserved
<1>5. Conserved("down")'
  BY DEF Read, FailRelay, Conserved
<1>3. Counted("up")' /\ Counted("down")'
  BY DEF Read, FailRelay, Counted
<1>4. Ordered("up")' /\ Ordered("down")'
  BY DEF Read, FailRelay, Ordered
<1> QED  BY <1>1, <1>2, <1>3, <1>4, <1>5

LEMMA ReadEndSound ==
  ASSUME RelayTypeOK, Sound, NEW r \in Relays, NEW d \in Directions, ReadEnd(r, d)
  PROVE  Sound'
<1> USE DEF Sound, RelayTypeOK, Relays, Directions, Hops, In, Out, First, Second, Ahead,
        streams, relays, ends
<1>1. Staged'
  BY DEF ReadEnd, Staged, Relaying
<1>2. Conserved("up")' /\ Conserved("down")'
  BY DEF ReadEnd, Conserved
<1>3. Counted("up")' /\ Counted("down")'
  BY DEF ReadEnd, Counted
<1>4. Ordered("up")' /\ Ordered("down")'
  BY DEF ReadEnd, ShutDown, Ordered
<1> QED  BY <1>1, <1>2, <1>3, <1>4

LEMMA WriteSound ==
  ASSUME RelayTypeOK, Sound, NEW r \in Relays, NEW d \in Directions, Write(r, d)
  PROVE  Sound'
<1> USE DEF Sound, RelayTypeOK, Relays, Directions, Hops, In, Out, First, Second, Ahead,
        streams, relays, ends
<1>1. Staged'
  BY DEF Write, Staged, Relaying
<1>2. Conserved("up")' /\ Conserved("down")'
  BY DEF Write, Conserved
<1>3. Counted("up")' /\ Counted("down")'
  BY DEF Write, Counted
<1>4. Ordered("up")' /\ Ordered("down")'
  BY DEF Write, ShutDown, Ordered
<1> QED  BY <1>1, <1>2, <1>3, <1>4

LEMMA ReturnSound ==
  ASSUME RelayTypeOK, Sound, NEW r \in Relays, ReturnCounts(r)
  PROVE  Sound'
BY DEF ReturnCounts, Relaying, Sound, Staged, Conserved, Counted, Ordered, RelayTypeOK, Relays, Directions,
       First, Second, Ahead, streams, relays, ends

LEMMA EndSound ==
  ASSUME RelayTypeOK, Sound, NEW d \in Directions, EndStep(d)
  PROVE  Sound'
<1> USE DEF Sound, RelayTypeOK, Relays, Directions, Hops, In, Out, First, Second, Ahead,
        streams, relays, ends
<1>1. CASE Send(d)
  <2>1. Staged'
    BY <1>1 DEF Send, Staged
  <2>2. Conserved("up")' /\ Conserved("down")'
    BY <1>1 DEF Send, Conserved
  <2>3. Counted("up")' /\ Counted("down")'
    BY <1>1 DEF Send, Counted
  <2>4. Ordered("up")' /\ Ordered("down")'
    BY <1>1 DEF Send, Ordered
  <2> QED  BY <2>1, <2>2, <2>3, <2>4
<1>2. CASE HalfClose(d)
  BY <1>2 DEF HalfClose, Staged, Conserved, Counted, Ordered
<1>3. CASE Quit(d)
  BY <1>3 DEF Quit, Staged, Conserved, Counted, Ordered
<1>4. CASE Receive(d)
  <2>1. Staged'
    BY <1>4 DEF Receive, Staged
  <2>2. Conserved("up")' /\ Conserved("down")'
    BY <1>4 DEF Receive, Conserved
  <2>3. Counted("up")'
    BY <1>4 DEF Receive, Counted
  <2>5. Counted("down")'
    BY <1>4 DEF Receive, Counted
  <2>4. Ordered("up")' /\ Ordered("down")'
    BY <1>4 DEF Receive, Ordered
  <2> QED  BY <2>1, <2>2, <2>3, <2>4, <2>5
<1> QED  BY <1>1, <1>2, <1>3, <1>4 DEF EndStep

LEMMA RelayInitInv == RelayInit => RelayInv
<1> SUFFICES ASSUME RelayInit PROVE RelayInv
  OBVIOUS
<1> USE DEF RelayInit, Relays, Directions, Hops, Each
<1>1. RelayTypeOK
  BY DEF RelayTypeOK
<1>2. Staged /\ \A d \in Directions : Conserved(d) /\ Counted(d) /\ Ordered(d)
  BY DEF Staged, Conserved, Counted, Ordered, First, Second, Ahead, In, Out
<1> QED  BY <1>1, <1>2 DEF RelayInv, Sound

\* A step without a failure, out of a tunnel without one, keeps it sound.
LEMMA RelayStepInv == RelayInv /\ [RelayNext]_relayVars => RelayInv'
<1> SUFFICES ASSUME RelayInv, [RelayNext]_relayVars, Failed' = {} PROVE Sound'
  BY RelayTypes DEF RelayInv
<1>1. RelayTypeOK
  BY DEF RelayInv
<1>2. \A r \in Relays : stage'[r] # "failed"
  BY DEF Failed
<1>3. Failed = {}
  <2>1. \A r \in Relays : stage[r] = "failed" => stage'[r] = "failed"
    BY <1>1 DEF RelayNext, RelayStep, Forward, EndStep, ReadAnswer, Read, ReadEnd, Write, ReturnCounts, GiveUp,
         FailRelay, Relaying, Send, HalfClose, Quit, Receive, RelayTypeOK, relays, relayVars
  <2> QED  BY <1>2, <2>1 DEF Failed
<1>4. Sound
  BY <1>3 DEF RelayInv
<1>5. CASE UNCHANGED relayVars
  BY <1>4, <1>5 DEF relayVars, streams, relays, ends, Sound, Staged, Conserved, Counted, Ordered, Ahead
<1>6. ASSUME NEW r \in Relays, GiveUp(r) PROVE FALSE
  BY <1>1, <1>2, <1>6 DEF GiveUp, FailRelay, RelayTypeOK
<1> QED
  BY <1>1, <1>2, <1>4, <1>5, <1>6, ReadAnswerSound, ReadSound, ReadEndSound, WriteSound, ReturnSound,
     EndSound DEF RelayNext, RelayStep, Forward

\* The invariant of a tunnel.
THEOREM RelayInvariant == RelaySpec => []RelayInv
BY RelayInitInv, RelayStepInv, PTL DEF RelaySpec

\* Whoever is told the end of a stream has had all of it that the adapter did not drop.
THEOREM StreamsAreWhole == RelaySpec => []StreamIsWhole
<1>1. RelayInv => StreamIsWhole
  BY DEF RelayInv, Sound, RelayTypeOK, Conserved, Ordered, StreamIsWhole, Relays, Directions, Hops, In, Out,
         First, Second, Ahead
<1> QED  BY <1>1, RelayInvariant, PTL

\* The counts a relay returns are what was sent, within the limit, and all of it is on.
THEOREM CountsAreTrueAlways == RelaySpec => []CountsAreTrue
<1>1. RelayInv => CountsAreTrue
  BY DEF RelayInv, Sound, RelayTypeOK, Staged, Conserved, Counted, Ordered, CountsAreTrue, Relays, Directions, Hops,
         In, Out, First, Second, Ahead
<1> QED  BY <1>1, RelayInvariant, PTL

-----------------------------------------------------------------------------
(* The tunnel as two streams (ByteStream), also when a relay fails: what   *)
(* holds then is that no byte is there twice (Kept), and that the adapter  *)
(* has passed nothing on before it has its answer (Unanswered).            *)

Kept(d) ==
  got[d] + flight[d][1] + flight[d][2] + flight[d][3]
    + buffer[First(d)][d] + buffer[Second(d)][d] + Ahead(d) <= sent[d]

Unanswered ==
  stage["adapter"] = "answer" =>
    /\ ahead = 0 /\ got["down"] = 0 /\ flight["down"][3] = 0
    /\ \A d \in Directions : buffer["adapter"][d] = 0

KeptInv == RelayTypeOK /\ Unanswered /\ \A d \in Directions : Kept(d)

LEMMA KeptInit == RelayInit => KeptInv
<1> SUFFICES ASSUME RelayInit PROVE KeptInv
  OBVIOUS
<1> USE DEF RelayInit, Relays, Directions, Hops, Each
<1>1. RelayTypeOK
  BY RelayInitInv DEF RelayInv
<1> QED  BY <1>1 DEF KeptInv, Kept, Unanswered, Ahead, First, Second

\* Every step of the tunnel moves bytes on, drops them, or sends new ones.
LEMMA KeptStep ==
  ASSUME KeptInv, [RelayNext]_relayVars
  PROVE  KeptInv'
<1>0. RelayTypeOK'
  BY RelayTypes DEF KeptInv
<1> USE DEF KeptInv, RelayTypeOK, Relays, Directions, Hops, In, Out, First, Second, Ahead,
        streams, relays, ends
<1>1. CASE UNCHANGED relayVars
  BY <1>0, <1>1 DEF relayVars, Kept, Unanswered
<1>2. CASE ReadAnswer
  <2>1. Unanswered' /\ Kept("up")'
    BY <1>2 DEF ReadAnswer, Kept, Unanswered
  <2>2. Kept("down")'
    BY <1>2 DEF ReadAnswer, Kept, Unanswered
  <2> QED  BY <1>0, <2>1, <2>2
<1>3. ASSUME NEW r \in Relays, ReturnCounts(r) \/ GiveUp(r) PROVE KeptInv'
  <2>1. Unanswered'
    BY <1>3 DEF ReturnCounts, GiveUp, FailRelay, Relaying, Unanswered
  <2>2. Kept("up")' /\ Kept("down")'
    BY <1>3 DEF ReturnCounts, GiveUp, Kept
  <2> QED  BY <1>0, <2>1, <2>2
<1>4. ASSUME NEW r \in Relays, NEW d \in Directions, Read(r, d) PROVE KeptInv'
  <2>1. Unanswered'
    BY <1>4 DEF Read, FailRelay, Relaying, Unanswered
  <2>2. PICK n \in Nat :
          /\ flight' = [flight EXCEPT ![d][In(r, d)] = @ - n] /\ UNCHANGED <<got, sent, ahead>>
          /\ buffer' = [buffer EXCEPT ![r][d] = n] \/ UNCHANGED buffer
          /\ buffer[r][d] = 0
    <3> DEFINE n == IF flight[d][In(r, d)] < Chunk THEN flight[d][In(r, d)] ELSE Chunk
    <3>1. Chunk \in Nat /\ flight[d][In(r, d)] \in Nat
      BY RelayAssumption
    <3>2. n \in Nat
      BY <3>1
    <3>3. /\ flight' = [flight EXCEPT ![d][In(r, d)] = @ - n] /\ UNCHANGED <<got, sent, ahead>>
          /\ buffer' = [buffer EXCEPT ![r][d] = n] \/ UNCHANGED buffer
          /\ buffer[r][d] = 0
      BY <1>4, Zenon DEF Read
    <3> QED  BY <3>2, <3>3
  <2>3. /\ flight'[d][In(r, d)] = flight[d][In(r, d)] - n
        /\ \A e \in Directions, k \in Hops :
             e # d \/ k # In(r, d) => flight'[e][k] = flight[e][k]
    BY <2>2
  <2>4. /\ buffer'[r][d] \in {0, n}
        /\ \A e \in Directions, q \in Relays :
             e # d \/ q # r => buffer'[q][e] = buffer[q][e]
    BY <2>2
  <2>5. Kept("up")' /\ Kept("down")'
    BY <2>2, <2>3, <2>4 DEF Kept
  <2> QED  BY <1>0, <2>1, <2>5
<1>5. ASSUME NEW r \in Relays, NEW d \in Directions, ReadEnd(r, d) PROVE KeptInv'
  BY <1>0, <1>5 DEF ReadEnd, Relaying, Kept, Unanswered
<1>6. ASSUME NEW r \in Relays, NEW d \in Directions, Write(r, d) PROVE KeptInv'
  <2>1. Unanswered'
    BY <1>6 DEF Write, Relaying, Unanswered
  <2>2. PICK n \in Nat :
          /\ flight' = [flight EXCEPT ![d][Out(r, d)] = @ + n] /\ UNCHANGED <<got, sent, ahead>>
          /\ buffer' = [buffer EXCEPT ![r][d] = @ - n]
    <3> DEFINE free == Room - flight[d][Out(r, d)]
               n == IF free < buffer[r][d] THEN free ELSE buffer[r][d]
    <3>1. Room \in Nat /\ flight[d][Out(r, d)] \in 0..Room /\ buffer[r][d] \in Nat
      BY RelayAssumption
    <3>2. n \in Nat
      BY <3>1
    <3>3. /\ flight' = [flight EXCEPT ![d][Out(r, d)] = @ + n] /\ UNCHANGED <<got, sent, ahead>>
          /\ buffer' = [buffer EXCEPT ![r][d] = @ - n]
      BY <1>6, Zenon DEF Write
    <3> QED  BY <3>2, <3>3
  <2>3. /\ flight'[d][Out(r, d)] = flight[d][Out(r, d)] + n
        /\ \A e \in Directions, k \in Hops :
             e # d \/ k # Out(r, d) => flight'[e][k] = flight[e][k]
    BY <2>2
  <2>4. /\ buffer'[r][d] = buffer[r][d] - n
        /\ \A e \in Directions, q \in Relays :
             e # d \/ q # r => buffer'[q][e] = buffer[q][e]
    BY <2>2
  <2>5. Kept("up")' /\ Kept("down")'
    BY <2>2, <2>3, <2>4 DEF Kept
  <2> QED  BY <1>0, <2>1, <2>5
<1>7. ASSUME NEW d \in Directions, Send(d) \/ HalfClose(d) \/ Quit(d) PROVE KeptInv'
  <2>1. Unanswered'
    BY <1>7 DEF Send, HalfClose, Quit, Unanswered
  <2>2. Kept("up")' /\ Kept("down")'
    BY <1>7 DEF Send, HalfClose, Quit, Kept
  <2> QED  BY <1>0, <2>1, <2>2
<1>8. ASSUME NEW d \in Directions, Receive(d) PROVE KeptInv'
  <2>1. Unanswered'
    BY <1>8 DEF Receive, Unanswered
  <2>2. Kept("up")' /\ Kept("down")'
    BY <1>8 DEF Receive, Kept
  <2> QED  BY <1>0, <2>1, <2>2
<1> QED
  BY <1>1, <1>2, <1>3, <1>4, <1>5, <1>6, <1>7, <1>8 DEF RelayNext, RelayStep, Forward, EndStep

\* A step of a relay shows the ends nothing, or that it has failed; the rest is theirs.
LEMMA StreamStep ==
  ASSUME RelayInv, KeptInv, [RelayNext]_relayVars
  PROVE  [Stream!Next]_(Stream!vars)
<1> USE DEF RelayTypeOK, Relays, Directions, Stream!Directions, Hops
<1>0. RelayTypeOK /\ Unanswered /\ Kept("up") /\ Kept("down")
  BY DEF KeptInv
<1> DEFINE closed == {d \in Directions : 1 \in fin[d]}
           broken == Failed # {}
<1>1. ASSUME UNCHANGED <<ends, ahead>>, closed' = closed, broken' = broken \/ broken' = TRUE
      PROVE  [Stream!Next]_(Stream!vars)
  <2>1. CASE broken' = broken
    BY <1>1, <2>1 DEF Stream!vars, ends
  <2>2. CASE broken' = TRUE
    <3>1. Stream!Break
      BY <1>1, <2>2 DEF Stream!Break, ends
    <3> QED  BY <3>1 DEF Stream!Next
  <2> QED  BY <1>1, <2>1, <2>2
<1>2. CASE UNCHANGED relayVars
  BY <1>1, <1>2 DEF relayVars, streams, relays, Failed
<1>3. ASSUME NEW r \in Relays, RelayStep(r) PROVE [Stream!Next]_(Stream!vars)
  <2>1. UNCHANGED <<ends, ahead>>
    BY <1>3 DEF RelayStep, Forward, Read, ReadEnd, Write, ReturnCounts, GiveUp
  <2>2. \A d \in Directions : fin'[d] = fin[d] \/ \E k \in {2, 3} : fin'[d] = fin[d] \cup {k}
    BY <1>0, <1>3 DEF RelayStep, Forward, Read, ReadEnd, Write, ReturnCounts, GiveUp, FailRelay,
       ShutDown, Out, In, streams
  <2>3. closed' = closed
    BY <2>2
  <2>4. \A s \in Relays : stage[s] = "failed" => stage'[s] = "failed"
    BY <1>0, <1>3 DEF RelayStep, Forward, Read, ReadEnd, Write, ReturnCounts, GiveUp, FailRelay, Relaying
  <2>5. broken' = broken \/ broken' = TRUE
    BY <2>4 DEF Failed
  <2> QED  BY <1>1, <2>1, <2>3, <2>5
<1>4. CASE ReadAnswer
  <2>1. /\ ahead = 0 /\ got["down"] = 0 /\ UNCHANGED <<fin, ends>>
        /\ ahead' = flight["down"][2]
    BY <1>0, <1>4 DEF ReadAnswer, Unanswered, In
  <2>2. ahead' \in Nat /\ ahead' <= sent["down"]
    BY <1>0, <2>1 DEF Kept, First, Second, Ahead
  <2>3. Failed' = Failed /\ closed' = closed
    BY <1>0, <1>4, <2>1 DEF ReadAnswer, Failed
  <2>4. CASE ahead' = 0
    BY <1>1, <2>1, <2>3, <2>4
  <2>5. CASE ahead' # 0
    <3>1. Stream!Swallow
      BY <1>0, <2>1, <2>2, <2>3, <2>5 DEF Stream!Swallow, ends
    <3> QED  BY <3>1 DEF Stream!Next
  <2> QED  BY <2>4, <2>5
<1>5. ASSUME NEW d \in Directions, EndStep(d) PROVE Stream!Next
  <2>1. Failed' = Failed /\ ahead' = ahead
    BY <1>5 DEF EndStep, Send, HalfClose, Quit, Receive, relays, Failed
  <2>2. CASE Send(d)
    <3>1. Stream!Put(d)
      BY <2>1, <2>2 DEF Send, Stream!Put
    <3> QED  BY <3>1 DEF Stream!Next
  <2>3. CASE HalfClose(d)
    <3>1. closed' = closed \cup {d}
      BY <1>0, <2>3 DEF HalfClose
    <3>2. Stream!Close(d)
      BY <2>1, <2>3, <3>1 DEF HalfClose, Stream!Close, ends
    <3> QED  BY <3>2 DEF Stream!Next
  <2>4. CASE Quit(d)
    <3>1. closed' = closed \cup (Directions \ {d})
      BY <1>0, <2>4 DEF Quit
    <3>2. Stream!Quit(d)
      BY <2>1, <2>4, <3>1 DEF Quit, Stream!Quit
    <3> QED  BY <3>2 DEF Stream!Next
  <2>5. CASE Receive(d)
    <3>1. d \notin gone /\ UNCHANGED <<fin, gone, sent>>
      BY <2>5 DEF Receive
    <3>2. CASE flight[d][3] > 0 /\ got' = [got EXCEPT ![d] = @ + 1] /\ UNCHANGED eof
      <4>1. got[d] + Stream!Swallowed(d) < sent[d]
        BY <1>0, <3>2 DEF Kept, Stream!Swallowed, Ahead, First, Second
      <4>2. Stream!Get(d)
        BY <2>1, <3>1, <3>2, <4>1 DEF Stream!Get
      <4> QED  BY <4>2 DEF Stream!Next
    <3>3. CASE /\ flight[d][3] = 0 /\ 3 \in fin[d] /\ d \notin eof
               /\ eof' = eof \cup {d} /\ UNCHANGED got
      <4>1. Failed = {} => d \in closed /\ got[d] + Stream!Swallowed(d) = sent[d]
        <5> SUFFICES ASSUME Failed = {}
                     PROVE  d \in closed /\ got[d] + Stream!Swallowed(d) = sent[d]
          OBVIOUS
        <5>1. Conserved(d) /\ Ordered(d)
          BY DEF RelayInv, Sound
        <5>2. /\ 1 \in fin[d] /\ flight[d][1] = 0 /\ flight[d][2] = 0
              /\ buffer[First(d)][d] = 0 /\ buffer[Second(d)][d] = 0
          BY <1>0, <3>3, <5>1 DEF Ordered, First, Second, In, Out
        <5> QED  BY <1>0, <3>3, <5>1, <5>2 DEF Conserved, Ahead, Stream!Swallowed
      <4>2. Stream!End(d)
        BY <2>1, <3>1, <3>3, <4>1 DEF Stream!End
      <4> QED  BY <4>2 DEF Stream!Next
    <3> QED  BY <2>5, <3>2, <3>3 DEF Receive
  <2> QED  BY <1>5, <2>2, <2>3, <2>4, <2>5 DEF EndStep
<1> QED  BY <1>2, <1>3, <1>4, <1>5 DEF RelayNext

\* The two relays, whatever fails, implement the streams that the ends may think of.
THEOREM TunnelsAreStreams == RelaySpec => ImplementsStream
<1>1. RelayInit => Stream!Init
  <2> SUFFICES ASSUME RelayInit PROVE Stream!Init
    OBVIOUS
  <2>1. Failed = {} /\ {d \in Directions : 1 \in fin[d]} = {}
    BY DEF RelayInit, Failed, Each, Relays
  <2> QED  BY <2>1 DEF RelayInit, Stream!Init, Each, Directions, Stream!Directions
<1>2. RelayInv /\ KeptInv /\ [RelayNext]_relayVars => [Stream!Next]_(Stream!vars)
  BY StreamStep
<1>3. KeptInv /\ [RelayNext]_relayVars => KeptInv'
  BY KeptStep
<1> QED
  BY <1>1, <1>2, <1>3, KeptInit, RelayInvariant, PTL DEF RelaySpec, ImplementsStream, Stream!Spec

=============================================================================
