---------------------------- MODULE FamilyIntake ----------------------------
(***************************************************************************)
(* One run's family intake: the host thread that serves the socket         *)
(* (family_intake_runtime.py), the session with its single-use capability  *)
(* (family_intake_broker.py), and the supervisor that starts, registers,   *)
(* checks and closes them.  The store behind the session is FamilyPending; *)
(* here create_pending is only its outcomes.                               *)
(***************************************************************************)
EXTENDS Integers, FiniteSets

CONSTANTS
  Clients,     \* connections, in the order they happen to be accepted
  Family,      \* those whose peer descends from the registered runtime
  NoClient

ASSUME FamilyAssumption == Family \subseteq Clients /\ NoClient \notin Clients

VARIABLES
  owner,       \* the supervisor: what it is doing with the runtime
  result,      \* how close() came out: "none", "clean" or "error"
  stop,        \* _stop
  error,       \* _error
  listening,   \* the listener is open
  worker,      \* the serving thread
  serving,     \* the client the thread accepted
  client,      \* _client, what _interrupt_client shuts down
  shut,        \* clients whose socket was shut down
  waiting,     \* clients not accepted yet
  active,      \* the session's _active
  failed,      \* the session's _failed
  consumed,    \* the session's consumed
  root,        \* the session's _runtime_root: "none", "known" or "refused"
  attempts,    \* history: calls of create_pending
  published,   \* history: requests in the store
  artifacts,   \* the run directory and its socket exist
  trouble      \* closing or removing something failed

supervision == <<owner, result>>
runtime == <<stop, error, listening, artifacts, trouble>>
thread == <<worker, serving, client, shut, waiting>>
session == <<active, failed, consumed, root>>
store == <<attempts, published>>
vars == <<supervision, runtime, thread, session, store>>

Owners == {"new", "running", "revoke", "listener", "interrupt", "join", "remove",
           "closed", "stuck"}
Workers == {"none", "accept", "claim", "admit", "read", "handle", "persist", "write",
            "finish", "decide", "raise", "caught", "gone"}

Init ==
  /\ owner = "new" /\ result = "none"
  /\ stop = FALSE /\ error = FALSE /\ listening = FALSE
  /\ artifacts = FALSE /\ trouble = FALSE
  /\ worker = "none" /\ serving = NoClient /\ client = NoClient
  /\ shut = {} /\ waiting = Clients
  /\ active = TRUE /\ failed = FALSE /\ consumed = FALSE /\ root = "none"
  /\ attempts = 0 /\ published = 0

\* handle() holds the session lock only while it persists; every other holder
\* is a single step.
SessionLockFree == worker # "persist"

-----------------------------------------------------------------------------
(* The supervisor                                                          *)

Start ==
  /\ owner = "new"
  /\ owner' = "running" /\ worker' = "accept"
  /\ listening' = TRUE /\ artifacts' = TRUE
  /\ UNCHANGED <<result, stop, error, trouble, serving, client, shut, waiting,
                 session, store>>

\* Whatever fails in start() undoes the rest, the removal itself at best.
StartFails ==
  /\ owner = "new"
  /\ owner' = "closed" /\ result' = "error"
  /\ active' = FALSE
  /\ artifacts' \in BOOLEAN
  /\ UNCHANGED <<stop, error, listening, trouble, thread, failed, consumed, root,
                 store>>

\* register_runtime is tried once; a process that died or changed is refused.
RegisterRuntime ==
  /\ owner = "running" /\ ~stop
  /\ active /\ ~consumed /\ root = "none"
  /\ root' \in {"known", "refused"}
  /\ UNCHANGED <<supervision, runtime, thread, active, failed, consumed, store>>

\* check(), which the supervisor polls.
CheckFails == error \/ (worker = "gone" /\ ~consumed /\ ~stop)

\* The supervisor leaves when check() raises, when registration raised, and at
\* any time because the container ended or a signal arrived.
BeginClose ==
  /\ owner = "running"
  /\ owner' = "revoke" /\ stop' = TRUE
  /\ UNCHANGED <<result, error, listening, artifacts, trouble, thread, session, store>>

\* Mutant: the session is revoked without its lock.
Deactivate_Unlocked ==
  /\ owner = "revoke"
  /\ owner' = "listener" /\ active' = FALSE
  /\ UNCHANGED <<result, runtime, thread, failed, consumed, root, store>>

Deactivate ==
  /\ owner = "revoke" /\ SessionLockFree
  /\ owner' = "listener" /\ active' = FALSE
  /\ UNCHANGED <<result, runtime, thread, failed, consumed, root, store>>

CloseListener ==
  /\ owner = "listener"
  /\ owner' = "interrupt" /\ listening' = FALSE
  /\ trouble' \in BOOLEAN
  /\ UNCHANGED <<result, stop, error, artifacts, thread, session, store>>

InterruptClient ==
  /\ owner = "interrupt"
  /\ owner' = "join"
  /\ shut' = shut \cup ({client} \ {NoClient})
  /\ UNCHANGED <<result, runtime, worker, serving, client, waiting, session, store>>

\* Mutant: the outcome of the join is not looked at.
Join_Unchecked ==
  /\ owner = "join"
  /\ owner' = "remove"
  /\ UNCHANGED <<result, runtime, thread, session, store>>

\* join(timeout=2): a thread that is still alive makes close() raise and leave.
Join ==
  /\ owner = "join"
  /\ IF worker = "gone"
       THEN owner' = "remove" /\ UNCHANGED result
       ELSE owner' = "stuck" /\ result' = "error"
  /\ UNCHANGED <<runtime, thread, session, store>>

RemoveArtifacts ==
  /\ owner = "remove"
  /\ owner' = "closed"
  /\ \E removed \in BOOLEAN :
       /\ artifacts' = ~removed
       /\ trouble' = (trouble \/ ~removed)
       /\ result' = IF trouble' \/ error THEN "error" ELSE "clean"
  /\ UNCHANGED <<stop, error, listening, thread, session, store>>

-----------------------------------------------------------------------------
(* The serving thread                                                      *)

\* The loop tests _stop, then accepts: a client can still arrive after a stop.
Accept(c) ==
  /\ worker = "accept" /\ listening /\ c \in waiting
  /\ worker' = "claim" /\ serving' = c
  /\ waiting' = waiting \ {c}
  /\ UNCHANGED <<supervision, runtime, client, shut, session, store>>

LoopEnds ==
  /\ worker = "accept" /\ stop
  /\ worker' = "gone"
  /\ UNCHANGED <<supervision, runtime, serving, client, shut, waiting, session, store>>

\* accept() raised an OSError of its own.
AcceptFails ==
  /\ worker = "accept" /\ ~stop
  /\ worker' = "caught"
  /\ UNCHANGED <<supervision, runtime, serving, client, shut, waiting, session, store>>

\* Mutant: the client is published for interruption without a look at _stop.
Claim_Blind ==
  /\ worker = "claim"
  /\ client' = serving /\ worker' = "admit" /\ UNCHANGED serving
  /\ UNCHANGED <<supervision, runtime, shut, waiting, session, store>>

\* Under _client_lock, as is _interrupt_client.
Claim ==
  /\ worker = "claim"
  /\ IF stop
       THEN worker' = "gone" /\ serving' = NoClient /\ UNCHANGED client
       ELSE client' = serving /\ worker' = "admit" /\ UNCHANGED serving
  /\ UNCHANGED <<supervision, runtime, shut, waiting, session, store>>

\* Reading the credentials may raise; a peer outside the runtime's tree, or one that
\* vanishes while it is validated, is turned away unread.
Admit ==
  /\ worker = "admit"
  /\ \/ worker' = "read" /\ active /\ root = "known" /\ serving \in Family
     \/ worker' = "finish"
     \/ worker' = "raise"
  /\ UNCHANGED <<supervision, runtime, serving, client, shut, waiting, session, store>>

\* A malformed frame, a disconnect, an interruption or a timeout end the client.
Read ==
  /\ worker = "read"
  /\ worker' \in {"handle", "finish"}
  /\ UNCHANGED <<supervision, runtime, serving, client, shut, waiting, session, store>>

\* The clock is no longer usable: the session fails closed.
ClockFails ==
  /\ worker = "handle"
  /\ worker' = "raise"
  /\ failed' = TRUE /\ active' = FALSE
  /\ UNCHANGED <<supervision, runtime, serving, client, shut, waiting, consumed, root, store>>

\* A wrong or expired capability, another operation, or a binding that is gone.
Refuse ==
  /\ worker = "handle"
  /\ worker' = "finish"
  /\ UNCHANGED <<supervision, runtime, serving, client, shut, waiting, session, store>>

\* Mutant: the capability is used up only by a request that was stored.
Authorize_Unspent ==
  /\ worker = "handle"
  /\ active /\ root = "known" /\ ~consumed
  /\ worker' = "persist" /\ attempts' = attempts + 1
  /\ UNCHANGED <<supervision, runtime, serving, client, shut, waiting, session, published>>

\* The capability is used up before the first attempt to persist.
Authorize ==
  /\ worker = "handle"
  /\ active /\ root = "known" /\ ~consumed
  /\ worker' = "persist" /\ attempts' = attempts + 1
  /\ consumed' = TRUE
  /\ UNCHANGED <<supervision, runtime, serving, client, shut, waiting, active, failed, root,
                 published>>

Stored ==
  /\ worker = "persist"
  /\ worker' = "write" /\ published' = published + 1
  /\ UNCHANGED <<supervision, runtime, serving, client, shut, waiting, session, attempts>>

\* The store holds ten requests already: an ordinary denial, the capability is gone.
StoreFull ==
  /\ worker = "persist"
  /\ worker' = "finish"
  /\ UNCHANGED <<supervision, runtime, serving, client, shut, waiting, session, store>>

\* The failure may come after the request is durable.
PersistFails ==
  /\ worker = "persist"
  /\ worker' = "raise"
  /\ failed' = TRUE /\ active' = FALSE
  /\ published' \in {published, published + 1}
  /\ UNCHANGED <<supervision, runtime, serving, client, shut, waiting, consumed, root,
                 attempts>>

\* A client that went away does not undo what is stored.
WriteResponse ==
  /\ worker = "write"
  /\ worker' = "finish"
  /\ UNCHANGED <<supervision, runtime, serving, client, shut, waiting, session, store>>

\* The connection is closed and _client cleared, whatever happened.
Finish ==
  /\ worker \in {"finish", "raise"}
  /\ worker' = IF worker = "finish" THEN "decide" ELSE "caught"
  /\ client' = NoClient /\ serving' = NoClient
  /\ UNCHANGED <<supervision, runtime, shut, waiting, session, store>>

Decide ==
  /\ worker = "decide"
  /\ IF failed \/ consumed
       THEN /\ worker' = "gone" /\ stop' = TRUE /\ listening' = FALSE
            /\ error' = (error \/ failed)
       ELSE worker' = "accept" /\ UNCHANGED <<stop, listening, error>>
  /\ UNCHANGED <<supervision, artifacts, trouble, serving, client, shut, waiting, session,
                 store>>

\* Mutant: the thread dies of its exception and tells nobody.
Caught_Silent ==
  /\ worker = "caught"
  /\ worker' = "gone"
  /\ UNCHANGED <<supervision, runtime, serving, client, shut, waiting, session, store>>

\* An exception fails the runtime, except when somebody has stopped it already.
Caught ==
  /\ worker = "caught"
  /\ worker' = "gone"
  /\ IF stop
       THEN UNCHANGED <<stop, error, listening>>
       ELSE error' = TRUE /\ stop' = TRUE /\ listening' = FALSE
  /\ UNCHANGED <<supervision, artifacts, trouble, serving, client, shut, waiting, session,
                 store>>

ThreadStep ==
  \/ LoopEnds \/ AcceptFails \/ Claim \/ Admit \/ Read
  \/ ClockFails \/ Refuse \/ Authorize \/ Stored \/ StoreFull \/ PersistFails
  \/ WriteResponse \/ Finish \/ Decide \/ Caught

CloseStep == Deactivate \/ CloseListener \/ InterruptClient \/ Join \/ RemoveArtifacts

Next ==
  \/ Start \/ StartFails \/ RegisterRuntime \/ BeginClose
  \/ CloseStep
  \/ \E c \in Clients : Accept(c)
  \/ ThreadStep

\* The thread is scheduled and each of its waits is bounded by a timeout; the supervisor
\* polls check() every 0.1 s and runs close() to its end.
Fairness ==
  /\ WF_vars(ThreadStep)
  /\ WF_vars(CloseStep)
  /\ WF_vars(BeginClose /\ CheckFails)

Spec == Init /\ [][Next]_vars /\ Fairness

-----------------------------------------------------------------------------
(* Properties                                                              *)

\* The shape of the state of FamilyIntakeRuntime and its FamilyIntakeSession.
TypeOK ==
  /\ owner \in Owners /\ result \in {"none", "clean", "error"}
  /\ stop \in BOOLEAN /\ error \in BOOLEAN /\ listening \in BOOLEAN
  /\ artifacts \in BOOLEAN /\ trouble \in BOOLEAN
  /\ worker \in Workers
  /\ serving \in Clients \cup {NoClient} /\ client \in {serving, NoClient}
  /\ shut \subseteq Clients /\ waiting \subseteq Clients
  /\ active \in BOOLEAN /\ failed \in BOOLEAN /\ consumed \in BOOLEAN
  /\ root \in {"none", "known", "refused"}
  /\ attempts \in Nat /\ published \in 0..attempts

\* A run tries to persist at most once, whatever became of the first attempt: stored,
\* turned away by a full store, failed, or failed after it was durable (handle()).
SingleAttempt == attempts <= 1

\* Once deactivate() has returned nothing more of this run reaches the store, however
\* far a request had got when close() began.
QuietAfterRevoke ==
  [][(owner \notin {"new", "running", "revoke"}) => UNCHANGED store]_vars

\* When close() starts to wait for the thread, every client the thread still talks to
\* has been shut down: the join never has to wait for a client's timeout.
InterruptReaches ==
  (owner = "join" /\ worker \in {"admit", "read", "handle", "write"}) => serving \in shut

\* A close() that reports success leaves no thread, no run directory and no error.
CleanClose ==
  result = "clean" => worker = "gone" /\ ~artifacts /\ ~error /\ ~active

=============================================================================
