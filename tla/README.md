# agent-container in TLA+

`agentctl` runs AI coding agents in rootless Podman containers.  The container gets no
credentials and (if asked) no network; what it may do outside, it asks of small host
programs, *brokers*, over Unix sockets.  This directory holds TLA+ models of the parts of
that system in which concurrency, failure and order matter, the TLC runs that check them on
small instances, and TLAPS proofs of their main results for all values of the constants.

Paths below are relative to the repository; `ac/` stands for `src/src/agent_container/`.

    tlc -workers 2 -config FamilyScenarios_commands.cfg MCFamilyScenarios
    tlapm FamilyPending_proofs.tla

`PROJECT.json` lists the runs, the theorems, the mutants (one plausible bug per property,
which the property catches), the source lines behind each definition, and the hazards the
properties are aimed at.

## 1. Inventory

### How a run fits together

`agentctl run` (`ac/agentctl.py`) enters, in this order, the family intake, the egress
gateway, the GitHub broker and the hand-over broker on one `ExitStack`, and then starts and
watches the container (`ac/podman.py`).  They are left in the opposite order.  Each broker
has a serving thread in the `agentctl` process; its clients are processes in the container.
Independent `agentctl family ...` commands on the host work on the same request store as the
intake, at the same time.

| component | state | operations | hard behaviour |
|---|---|---|---|
| **family request store and commands** `ac/family_pending.py`, `family_cli.py`, `family_issue_create.py` | one JSON record per request, `.pending.lock`, an append-only audit file, the markers in the records | intake, start-up recovery, preview, approve, reject, resolve-created, resolve-not-created | several processes; crashes between durable steps; a POST whose outcome is unknown; a lock dropped for a prompt; capacity and audit limits |
| **family intake** `ac/family_intake_broker.py`, `family_intake_runtime.py` | one single-use capability, one serving thread, the registered process | register, check, serve a client, close | a thread, the supervisor and clients; admission through `/proc`, which changes while it is read; a close whose join has a timeout |
| **broker kernel** `ac/broker/runtime.py` | listener, serve thread, worker registry, flags of stop | start, accept, serve, stop, stop again | threads handed over while stop looks for them; joins that time out; every clean-up step may fail |
| **egress gateway** `ac/egress_broker.py`, `egress_broker_runtime.py`, `egress_gateway.py` | replay window, tunnel limits, audit | authorize, reserve, resolve, connect, relay, audit, release | slow steps outside the lock between a check and its use; out-of-order numbers; a resolver without a timeout |
| **hand-over** `ac/handover_writer.py`, `host_handover.py`, `handover_broker_transport.py` | documents in a project directory, the session's `_closed` | publish a document, deactivate | two kinds of caller with different locks; crashes; names that collide; rollbacks that fail |
| **supervised run** `ac/podman.py`, `src/container/bin/agent-runtime-launcher` | podman child, container, gate pipe, signals | launch, register, release, watch, reap, stop | a container that outlives podman; registration that fails half way; signals |
| **GitHub broker** `ac/github_broker*.py`, `github_git_transport.py`, `github_pr.py`, `github_issue.py`, `github_app.py`, `git_protocol.py` | nonces, App token, audit | issue and pull-request calls, fetch, push | refs that change between advertisement and push; calls repeated after a refused token; answers, audit lines and clients lost after the effect; a handler that outlives the session |
| **in-container egress** `ac/egress_adapter.py`, `egress_runtime.py` | request counter, relay threads | number and forward a connection | half-closed relays; start-up handshake |
| **family binding** `ac/family_state.py` | the file that binds a project to its repository, its lock, a temporary name per writer | write a new binding, replace one | editors that know no lock, between any two system calls; an exchange that takes out another file than was read |
| **family App credential** `ac/family_github_app.py`, `family_cli.py` | the App file and the key, a token cached with the files it was made from, the binding | sign, cache, inventory, create an Issue | two files the operator replaces one after the other while they are read; a token that runs out between two uses |
| **project registration** `ac/agentctl.py`, `state.py`, `github_broker_policy.py`, `src/bin/setup.sh` | the broker policy, the workspace, `project.json` | `project add` in each of its modes, policy upgrade, a rerun after an interruption | several commands at once; a kill between any two files; a look at a file that another command makes |
| **project migration** `ac/migration.py` | the live configuration, the stage, the project's `claude-config` | plan, copy, publish, clean up | a source that changes between plan and copy; a destination that appears; a stage somebody moves away |
| protocols, policies, API clients, remaining commands, profiles, hooks | none of their own | parse, format, print | |

What makes each of them correct:

* *store*: a request is never sent more often than the operators decided, a sender is never
  taken for dead, finished requests stay finished, the audit file tells everything in order,
  and interrupted work is recovered;
* *intake*: at most one attempt per run, only by a process below the registered one, none
  after revocation, and no silent death of the service;
* *kernel*: nothing is removed under a live thread, every error is told, stop returns;
* *egress*: limits hold, no number is used twice, no tunnel goes unaudited unnoticed;
* *GitHub broker*: it only creates work branches, does nothing twice, and nothing it did is
  missing from the audit unnoticed;
* *hand-over*: documents appear whole or not at all, are never replaced, and an answered one
  survives a crash;
* *supervised run*: the agent starts only after registration, and does not outlive the call;
* *binding*: what an editor put in place is not lost to a writer that never saw it;
* *credential*: a token is signed with an App file and a key that belonged together, and the
  Issue goes with the token whose reach was looked at;
* *registration*: a registered project has its policy, its workspace and its record for one
  repository, and a policy in use is not replaced;
* *migration*: what gets the final name is the whole plan and nothing denied, and a clean-up
  removes nothing of somebody else's.

## 2. Modules

| module | models | abstract specification | proofs |
|---|---|---|---|
| `FamilyPending` | the store and all commands that change it | `FamilyApproval` | `FamilyPending_proofs` |
| `FamilyIntake` | session, serving thread, supervisor's check and close | | `FamilyIntake_proofs` |
| `PeerAncestry` | `validate_peer` against a changing process table | | `PeerAncestry_proofs` |
| `SupervisedRun` | `run_command_supervised` with gate and container | | through `AgentRun` |
| `AgentRun` | a whole `agentctl run`: `FamilyIntake` and `SupervisedRun` composed | `SupervisedRun` | `FamilyIntake_proofs` |
| `BrokerRuntime` | the kernel, in every form its brokers use | | `BrokerRuntime_proofs` |
| `EgressTunnels` | the gateway's handlers, composed with `BrokerRuntime` | `BrokerRuntime` | `EgressTunnels_proofs` |
| `RelayTunnel` | the bytes of one tunnel through adapter and gateway | `ByteStream` | `EgressTunnels_proofs` |
| `GithubBroker` | a session, its handlers, their calls to GitHub, the push gate | `GuardedRepository` | `GithubBroker_proofs` |
| `ReplayWindow` | numbering, delivery and authorization of egress requests | `AcceptOnce` | `Admission_proofs` |
| `FamilyCredential` | from the App's files to a token and one Issue | | `Admission_proofs` |
| `ProjectAdd` | `project add`, the policy's upgrade, the end of `setup.sh` | | `Admission_proofs` |
| `HandoverWriter` | `create_atomic_handover` under its callers | `DocumentShelf` | `HostFiles_proofs` |
| `ProjectMigration` | `migrate claude`: plan, stage, publication, clean-up | | `HostFiles_proofs` |
| `FamilyBinding` | `write_family_binding` among writers and editors | | `HostFiles_proofs` |
| `MCFamilyPending`, `MCFamilyScenarios`, `MCEgressTunnels`, `MCGithubBroker`, `MCProjectAdd` | instances for TLC | | |
| `MCAdmission`, `MCBrokers`, `MCHostFiles` | several components in one instance, see section 3 | | |

### FamilyPending

State: `record` (the durable files: state, marker, inode number, Issue), `debris` (a
temporary file nobody will remove), `holder` (`.pending.lock`), `audit`, `overdue` (the
clock: requests past their 24 hours), `wire` (per request, the POSTs whose body was begun,
each `sent` until GitHub lands or loses it), `proc` (per process: command, request, program
point, clock reading, snapshot).  `trail`, `reopened` and `mishaps` are history.

A transition is what `transition_pending_audited` makes it: `Publish` (state and marker in
one exchange), `AppendAudit`, `ClearMarker`, and `Abandon` (a failure, an interrupt, a kill)
may come between any two.  The sweep of `initialize_pending_store`, which every command
begins with, is one action per kind of step (`SweepMigrate`, `SweepDrain`, `SweepRecover`,
`SweepExpire`) and one for its end.  Before it, `validate_family_audit` asks for the audit
file's lock without waiting, and the command ends if another process is appending (`AuditBusy`).
`approve` takes the lock for its snapshot, gives it up
for the prompt (`TakeSnapshot`), takes it again and compares (`ConfirmApproval`), checks GitHub
(`PreflightDenied`), announces the send (`BeginSend`), and sends in three steps (`PostBody`,
then one of `SendSucceeded` and `SendOutcomeUnknown`; `SendNotStarted` instead of the body).
GitHub is external: it settles a POST at any later moment.  Inode numbers are a small set
that a replacement draws from and returns to, because the comparison of
`pending_lock` uses them.

`FamilyApproval` is the life of a request with none of this: states, moves, and a count of
sends against decisions.  `ImplementsApproval` is the refinement, with `status` mapped to
the records' states and `sends` to the length of `wire`.

### FamilyIntake and PeerAncestry

`FamilyIntake` has the thread's program points from accept to the answer, the session's
lock as the grouping of its steps, and `close()` as the owner's sequence revoke, listener,
interrupt, join, remove.  The store behind it is only the outcomes of `create_pending`:
stored, refused, failed before or after the publication was durable.  `PeerAncestry` has a process
table in which processes fork, exit (children go to the reaper) and reuse numbers between
any two reads of one `/proc` entry; start times are fresh, as the kernel's are to a tick.

### BrokerRuntime and EgressTunnels

`BrokerRuntime` separates the owner's program points (`deactivate`, `unlisten`, `join`, `reap`,
`revoke`, `verdict`, `report`), the serve thread's, and each client's, from being accepted to
gone.  How a broker is built is a choice of the initial state: `threaded` and
`deactivateAfterJoin` in all four combinations, three of which the repository uses (hand-over:
inline, revoked before the join; GitHub: inline, after; egress: a thread per client, after).

`EgressTunnels` instantiates it (`threaded` and `deactivateAfterJoin` TRUE) and replaces its
abstract handler by the gateway's own: authorize, reserve, resolve, connect, mark, answer,
relay, audit, close, release.  The handler's end is the kernel's `WorkerEnds` with the
outcome the handler really came to.  `ImplementsKernel` says that the gateway's threads
then do nothing the kernel does not allow, and it is by way of it that what is proved of the
kernel holds of the gateway.  `ReplayWindow` is the number check of `authorize` on
its own; the bit mask is a set of ages.

### RelayTunnel

Two relays in a row, the adapter's in the container and the gateway's on the host, run the
same `relay_tunnel`; three connections, each with room for a few bytes in each direction, join
them to the agent and the target.  A stream is a number of bytes, since no step reorders
them, and the two directions of a relay are separate steps, since its loop touches a
direction's own buffer only.  `ReadAnswer` is what the adapter does before it relays: it reads
the gateway's answer through a buffered file and drops the file with what else it holds; `ahead`
remembers how much that was.  A relay may give up anywhere (`GiveUp`: idle and lifetime limit,
errors), and passing its limit of bytes does the same.

`ByteStream` is the same tunnel without relays: two streams that are put into, taken from and
closed each by itself.  It may swallow bytes of the target once, before the agent has
received any, which is what the adapter does; and when it breaks, an end may come early.
`ImplementsStream` is the refinement, with the ends' own counts and closings.

### HandoverWriter and SupervisedRun

`HandoverWriter` distinguishes what the directory shows from what a crash may leave of it
(`maybe`): a link is durable after the directory is synced, a file's content after it is.
`DocumentShelf` is what its callers are promised: whole documents, put on a free place once,
taken back by their writer before the answer only, and after the answer there for good, while a
crash may lose or bring back what nobody was told of.  `ImplementsShelf` is the
refinement: a document that is not on disk counts as `"partial"`, which no move of the shelf
ever shows.
`SupervisedRun` has the supervisor's program points, podman, the container and the pipe as
separate actors: podman may die and leave the container, or start it after the supervisor
has given up.

### AgentRun

What `main` does in `run` with a family project: the intake is entered, podman is started and
watched, and when that returns or raises the intake is left.  `AgentRun` extends `FamilyIntake`
and instantiates `SupervisedRun` with what it took from its environment replaced by what the
intake says: `registered` is `root = "known"`, and `familyDown` is the answer of `check()`.  The
other brokers are there as ways in which a run ends before podman starts, the egress gateway
also as one that fails while it runs.  A request is served only below a process that is alive
in the container.  `ImplementsSupervised` says that the composition is still a run of
`SupervisedRun`, and it is by way of it that the supervisor's properties are proved.

### ProjectMigration and FamilyBinding

`ProjectMigration` has a small tree of a live configuration: `settings.json`, the default
directories, the plug-in's cache directories and their children, one of them denied.  A
migrator looks at it entry by entry (`Look`), copies into a stage (`Copy`), publishes the stage
with one rename that replaces nothing (`PublishStage`), and cleans up; between any two of these somebody else may change
the source, make the destination, or put something else under the stage's name.  `result` is
what the command answers; a killed one answers nothing.  The bytes of `settings.json` are a
member of `Bodies`, since they decide whether it may be copied.  The stage is made in two steps
(`MakeStage`, `VerifyStage`): after the `mkdir` the migrator looks who is under the name, outside
the `try`, and takes whatever is there by then for its stage.

`FamilyBinding` follows inodes, not contents: which inode is under the binding's name, which
under each writer's temporary name.  A writer that finds none links its file there; one that
is asked to replace exchanges the two names and then looks at what it took out, and exchanges
back when that is not the file it had read.  Editors rename over the binding or remove it
without the lock.

### FamilyCredential and ProjectAdd

`FamilyCredential` gives each of the App's two files an inode and a number of its last
writing, because that is what the code compares; the operator replaces them, by a rename or
by writing over them, between any two steps of `FamilyInstallationTokenProvider.get`.
`together` remembers which pairs of writings were in place at one moment, and it is what
`SignedPairWasInstalled` looks up.  The record's own life cycle is `FamilyPending`'s.

`ProjectAdd` has the three things a registration leaves on disk, each absent, torn or whole
and for one repository, and the commands that look at them and make them at other times.  A
command fails at any step (`AddFails`) or is killed there (`AddKilled`); `alone` records whether any
other ran beside it, since the code takes no lock and promises less then.  The initial states
include what an earlier version left: a policy without repository ID, and a project completed
with one.

### GithubBroker

The serve thread handles one connection at a time; `h` is what it is doing: the connection,
the operation, the program point, the call in progress with its token, what GitHub
advertised, the commands of a push, and the audit lines still to be written.  A call is
`GetToken`, then one of `Unauthorized` (the only repetition), `Answered`, `CallFails` and
`CallRaises`; in the last two GitHub may or may not have carried the request out (`Lost`).  Of a push it
applies the commands whose old value still stands, or, where atomic is negotiated, all or none
(`Carried`).
The Git handlers audit and then answer, the others answer and then audit, and an exception
nobody catches (`Escape`) ends the serve thread, as the kernel's inline form does.  GitHub,
the other users of the repository and the owner's stop act at any moment; `landed` and
`pulls` are history.

`GuardedRepository` is what remains of this for whoever owns the repository: one connection is
served after the other; it may act once, while its client waits or has been told ok, and
before a line of it is written; lines and messages agree with what it did; and it is let go
with a line unless the broker fails.  A step of the broker may do several of these at
once (a call whose answer is lost acts and tells), so a step of the abstract one is a conjunction
of parts, each of which may be left out.  `ImplementsRepository` is the refinement, with
`up` for a serve thread that has not failed.

## 3. Runs

Passing runs:

| run | instance | distinct states | shows |
|---|---|---|---|
| `commands` | 2 processes, 2 requests, 3 scenarios | 2.5 million | send budget, at most one Issue with a careful operator, audit order, announced sends, `created` that names an Issue of that content, capacity, refinement of `FamilyApproval` |
| `recovery` | 2 processes, 1 request, no torn writes | 100 thousand | interrupted sends surface and markers drain |
| `brokers` | kernel: 3 clients, 2 stops, all four forms; relay: room and chunks of 2, limit of 3, 4 bytes | 657 thousand | quiet release, honest reports, stop returns; refinement of `ByteStream`, ends that arrive |
| `egress_limits` | up to 4 clients, 2 slots, 3 creations, 1 stop | 1.4 million | limits, an opened tunnel in the audit |
| `agent_run` | 3 clients, 2 of the family; family project, egress gateway, or both | 329 thousand | one attempt, interrupts that arrive, quiet revocation; gate, no survivor; a success that is clean; alarms end the run; refinement of `SupervisedRun` |
| `github` | 2 connections, 3 refs, 4 pushes, 2 tokens | 1.2 million | refinement of `GuardedRepository`; only new work branches, effects accounted for, an ok that was delivered |
| `admission` | window of 4 in 8 numbers; 3 pids, depth 3, 6 forks; 2 Apps, 2 repositories, 2 installations; 3 commands | 2.2 million | refinement of `AcceptOnce`; sound admission of a peer; keys and tokens that belong together; what a registration leaves, and policies that endure |
| `host_files` | 1 guarded and 1 unguarded hand-over writer; 2 migrators; 2 binding writers, 3 editors' files | 969 thousand | refinement of `DocumentShelf`, failures that leave nothing; published plans, true answers, other people's files left alone; edits that survive |

`admission`, `brokers` and `host_files` each check several components that share no state and never call
one another.  In each behaviour one of them moves and the others stay in one of their initial
states (`...Still`, `moving`): a component sees in it what it would see alone, and the combined state
space is the sum of theirs and not the product.

Runs that refute what a document or a test says (`findings` in `PROJECT.json` quotes each):

* `torn`: a kill between the exchange and the removal of the temporary file leaves a name
  that `_inventory` refuses.  Every recovery begins with `_inventory`, so a request in
  `sending` stays there; the design document promises `unknown`.
* `raced_push`: another user creates a ref between the advertisement and the push.  GitHub
  rejects that command inside an answer of status 200, which the broker passes on without
  reading it, and audits "ok" with the ref's name; the design says such a race is a
  `receive-rpc` error.  `OkWasDelivered` and `CreateOnly` are what does hold.
* `setup_rerun`: `src/README.md:39` says the same set-up command can be rerun.  `setup.sh` always
  runs `project add`, which opens `project.json` with `"x"` (`ac/state.py:297`), so the second
  run of a completed set-up is refused.  `RegisteredFits` is what does hold: the refused
  rerun leaves the project as it was.

* `early_bytes`: the adapter reads the gateway's answer through `gateway.makefile("rb")`
  (`ac/egress_adapter.py:171`), the only one of the brokers' `makefile` calls without
  `buffering=0`.  What a target that speaks first has said by then is read ahead and lost, and
  the tunnel goes on without it; the design promises an opaque byte stream behind the
  answer.  `ImplementsStream` is what does hold: nothing else is lost.

Two more configurations are kept beside the runs; each is refuted when TLC checks it:

* `FamilyPending_stale.cfg` (module `MCFamilyPending`, `ConfirmationIsFresh`): two
  replacements of a record during the prompt can bring back the inode number, and with it the
  equality that `pending_lock` takes for "untouched".  A test's comment
  (`src/tests/container/test_family_pending.py:863`) says the comparison catches a
  replacement of equal content.
* `EgressTunnels_resolver.cfg` (module `MCEgressTunnels`, `ResolvingIsTimed`): `getaddrinfo` is
  called without a timeout (`ac/egress_gateway.py:88`), so resolving may last for ever and
  keep the tunnel's slot; the design
  (`src/docs/superpowers/specs/2026-08-30-egress-domain-allowlist-design.md:187`) lists 15
  seconds for DNS as fixed.

Divergences seen while modelling and not given a run of their own:

* After one of its peers has closed a connection altogether, `relay_tunnel` is woken by the
  hang-up, which `epoll` reports whatever is asked for, and finds nothing to do, again and
  again until its idle limit (`ac/egress_gateway.py:185`).  In `RelayTunnel` such an iteration is
  a stutter.
* A pull request with a base, head or number the broker refuses raises `ValueError` past its
  handler (`ac/github_pr.py:141`, `ac/github_broker_transport.py:441`), and so do an
  oversized answer (line 454) and an `HTTPException`; the serve thread ends, and with it the
  broker.  `src/docs/phase3-github-broker.md` says a known failure closes only its own
  connection.  In `GithubBroker` these are `GrantThenRaise`, `TooLarge` and `CallRaises`;
  `EffectsAccounted` therefore allows a failed broker.
* `SendNotStarted` moves a request from `sending` back to `pending` (`ac/family_cli.py:577`);
  the design (`src/docs/superpowers/specs/2026-08-30-family-issue-create-broker-design.md:106`)
  has only `created` and `unknown` after `sending`.  `FamilyApproval!GiveBack` is that move: it
  is only taken while the budget is unspent.
* A clean-up error of the kernel hides an error of the serve thread, and the broker counts as
  exited, so no second stop tells it (`ac/broker/runtime.py:346`), where the kernel's design says a
  hidden report is evaluated again.  `SilenceMeansDone` is what does hold: *some* error is told.
* Authorized numbers need not increase (`ac/egress_broker.py:159`); the egress design says
  "monotonically increasing".  `NeverTwice` and `LateIsFresh` are what the code gives instead.
* A failure to store a request is dropped if `close()` had already set the stop flag
  (`ac/family_intake_runtime.py:311`), although a test names the propagation to the supervisor.

* Two concurrent upgrades of a policy with different repository IDs may both pass their
  look at `project.json`, and the later rename rebinds a project that was completed with the
  other ID.  `PolicyEndures` holds for commands that run one after the other.
* The design lets a policy be upgraded only while workspace and `project.json` are absent; the
  code asks for that only when the bound policy would change, and an equal one is accepted.
* A kill inside `write_broker_policy` leaves an empty policy that every later `project add`
  refuses until somebody removes it.  Half a clone and half a seeded Codex home are accepted
  by the next command, and a clone that fails removes the workspace even when another command
  has registered with it; `RegisteredFits` therefore promises the workspace only for commands
  that run one after the other.
* A kill of `write_family_binding` between its link and its unlink leaves the binding with
  two links; `_validate_private_file` refuses it from then on.
* The migration's clean-up removes an *empty* directory that somebody else put under the
  stage's name (`RemoveStage`); `GuestIsSafe` excepts it.
* The migration's first look at its stage (`ac/migration.py:699`) is outside the `try` that cleans
  up: an error there leaves the empty stage, which `AnswerIsTrue` excepts, and a directory put
  under the name between the `mkdir` and that look is taken for the stage, which `GuestIsSafe`
  excepts.

### Bounds, and why they are enough

* *Two processes* in the store: every property relates one process to the lock holder or to
  the record it left; a third adds only another waiter for the lock.  The proofs of
  `SendBudget` and `SenderIsAlone` need no bound.
* *Scenarios*: all commands on two requests at once are out of reach, so `MCFamilyScenarios`
  follows each behaviour as long as its states stay `Within` three scenarios: *OneRequestSent*
  (start, intake, approve and resolve-not-created of one request, with one failure anywhere),
  *FullStore* (two requests and room for one; intake, preview, reject, expiry, a leftover
  temporary file), and *LegacyResolved* (a request an older version left in `unknown`, next to
  a new one with the same text; intake, approve, resolve-created, one command at a time).
  `MaxMishaps = 1` is the one failure each durable step can meet; `MaxAudit = 5` is just
  enough for a second send and full right after it.  In FullStore at most two lines are
  followed, which is what filling, emptying and refilling the store takes.
* *Queue*: only two clients came when the egress gateway is stopped, three otherwise; a
  fourth comes when two tunnels were opened and nothing went wrong, which is what it takes
  to reach three creations with two more pending.  Two slots and three creations make each
  limit the binding one in some states.
* *MaxStops = 2*: the second stop meets everything the first may leave behind, and a third
  begins in a state in which a second may begin.
* *Window 4 of 8 numbers*: jumps smaller than, equal to and larger than the window occur.
* *GitHub*: `Quiet` keeps the other users off the protected branch and lets them write one of
  the two work branches with one value, which is enough for a ref to appear, change and go
  between any two steps.  Two tokens are one refusal and its retry; two nonces make the
  second request of a connection a replay or the last one admitted.
* *Migration*: `MaxChanges = 2` is a change and its undoing, or a change of the source and one
  of the stage.  `Alone` lets two migrators run at once only while nobody else changes
  anything, which is where they meet: at the destination's name.
* *Binding*: two writers, one of them replacing, and three editors' files, one of which does
  not decode: an edit before the read, one between read and exchange, and one after it.
* *Credential*: two installations are the App file and the key, or one of them twice; each
  token may run out at any moment.
* *Registration*: three commands, at most two at once (`TwoAtOnce`), in five modes: a completed
  project, one that is interrupted, and one that comes after both.
* *Relay*: three bytes fit a direction and a fourth passes the limit; a connection with one
  byte in it takes half of a chunk, which is the partial send.
* *Ancestry*: depth 3 and six forks let the root, a parent and the peer be replaced by
  processes with the same numbers while they are read.
* *Symmetry* is used on processes, commands, migrators and clients where only invariants and action properties
  are checked, never with liveness.
* *Deadlock* is checked for the store (`commands`, `recovery`, `torn`).  The other systems
  really stop: a broker that is shut down, a call or a command that has returned.

### Fairness, and why the code justifies it

* `FamilyPending`: a running process takes its next step, for its network calls have timeouts
  and it waits for no one but the lock's holder; the prompt is exempt.  `flock` waits in no
  particular order, so fairness is weak per process.  An idle process starts a command again:
  recovery is promised "at the next start", so there must be one.
* `BrokerRuntime`: the serve thread's accept has a timeout, joins have one, nothing in stop
  blocks.  A handler may hang for ever; clients may never come; the owner need not stop.
* `EgressTunnels`: every step of a handler has a timeout except the resolver's.
* `RelayTunnel`: `select` tells what is ready and the loop serves all of it, each direction by
  itself; an end that has not closed its socket reads.  No end needs to send or to finish.
* `AgentRun`: every wait of the supervisor, of the intake's thread and of `close()` has a
  timeout.  Podman, the container, clients and signals are not fair.

## 4. Proofs

The `TypeOK` of a module that is proved about is a conjunct of its invariant and is not
checked a second time by a run.

Each `*_proofs` module proves, for each of its components, an inductive invariant, initially
true and kept by every action, and from it the results below, from no assumption but the
`ASSUME`s next to the constants.  `FamilyIntake_proofs`, `EgressTunnels_proofs`,
`Admission_proofs` and `HostFiles_proofs` hold several components each, one after the other.

* **FamilyPending** (any requests, processes, failures).  `SendBudget` alone is not
  inductive: that a POST is permitted at `PostBody` rests on what the sender knew when it
  claimed the record.  `IInv` adds the discipline of the lock (`LockDiscipline`: a process is at a
  critical program point exactly while it holds the lock), what each process is busy with
  (`Focus`), what the record must say meanwhile (`Phases`), and that every state without a POST
  outstanding has budget left (`Unspent`).  Results: `TypeCorrect`, `SendsStayInBudget`,
  `SendersAreAlone`.

  The rest of the store is proved by kinds of step, since nearly every command publishes,
  appends and clears in the same way: `StepKinds` shows that a step publishes one record
  (`Publishing`, for one of the reasons that `Reason` lists), migrates one, appends a line, clears
  a marker, posts a body, is GitHub's, or touches no record (`Aside`).  The frame lemmas say what each
  kind changes, and `StoreInv` is kept kind by kind.  It adds to `IInv`: `LostInv`, that of a
  request's POSTs only the last can be anything but lost if the operator is careful, and
  none unless the request is out, which gives `IssuesAreUnique`; and `AuditInv`.  The audit file is read as positions:
  `Heads(r)` are the lines about r that do not repeat the one before them, and the file tells k events
  (`Tells(r, k)`) when there are k heads and every line says what the head before it
  says.  `HistoryOf` ties the record to the last event of its history and its marker to that
  event, `WritingOf` says that the line is in the file when a marker is about to be cleared, and
  `AnnouncedOf` that whoever is about to post has been announced once more often than posted.
  Appending the last event can then only repeat the last head or add the next one
  (`AppendTells`).  Results: `CapacityIsRespected`, `CreatedAreReal`, `IssuesAreUnique`,
  `AuditIsComplete`, `SendsAreAnnounced`, and the refinement `StoreImplementsApproval`.
  `CreatedAreReal` is as strong as the code: the Issue that a created record names exists and has the
  request's content, and it is the one the request's own last POST made unless an operator
  named it (`Resolved`); one whom `verify_existing` believes may name the Issue of another
  request with the same content.
* **BrokerRuntime** (any clients, any number of stops, all forms).  `IInv` ties the owner's
  program point to what stop has already seen dead.  Results: `ReleaseIsQuiet`, `ExitIsClean`,
  `SilenceIsDone`.
* **EgressTunnels** (any clients and limits).  `IInv` counts the created tunnels and those
  that may still be created against the limit, from the reservation on: `GrantsAreHonoured`,
  `LimitsAreKept`, `SlotsAreReturned`.  `OpenedAreLogged` has an invariant of its own (`AuditInv`),
  which follows a client from the announcement of its tunnel to the end of its handler along
  every way an exception may take through `_handle_client` and the kernel.

  `GatewayIsBroker` proves `ImplementsKernel`, step by step, and with it the kernel's theorems are
  the gateway's (`GatewayEndsWell`: they are taken through an instance of
  `BrokerRuntime_proofs` and not proved again).  Neither half alone says how a gateway ends: the
  kernel knows nothing of slots, the handler nothing of when its artifacts go.  `Hosted` says at
  which of the handler's phases the kernel's worker may be; from it and the two halves follows
  `EndsAreSettled`: once the artifacts are gone, no slot is out but of a handler whose
  upstream would not close, and an owner that was told of no error has every tunnel
  it announced in the audit, but for those whose `OSError` the kernel drops.
* **RelayTunnel** (any room, chunk size and limit): `StreamsAreWhole`, `CountsAreTrueAlways`.
  `Sound` has the bytes conserved and counted hop by hop and the end of a stream behind its last
  byte at each; nothing of it is claimed once a relay has failed, and a failed one stays so.
  `TunnelsAreStreams` proves the refinement of `ByteStream`, and for it two more invariants:
  `Kept`, that whatever has failed, what has arrived and what is on its way are together no
  more than what was sent, so that no byte is invented; and `Unanswered`, that before the adapter has
  read the answer nothing has come through to the agent, so that what it swallows came first.
* **ReplayWindow** (any window and range).  `WindowIsExact` is the inductive core;
  `NumbersAreUsedOnce`, `LateNumbersAreFresh` follow, and `ImplementsOnce` proves the
  refinement of `AcceptOnce`: initial states map to initial states and every step to a step
  or a stutter.
* **FamilyIntake**: `IntakeTypes`, `OneAttempt`, `RevokedIsQuiet`, `InterruptsArrive`,
  `ClosesAreClean`, for any number of clients.
* **AgentRun**: `RunIsSupervised`, the refinement: every step of a run is one of `SupervisedRun`
  or a stutter.  It rests on the intake's invariant, which every run keeps
  (`RunStepIsIntakeStep`): the thread ends only with its stop flag set, so `check()` fails exactly
  when an error is recorded (`CheckIsError`), and that is for ever (`ErrorStays`).
  `SuperviseInv` is then an invariant of `SupervisedRun`'s steps: `Gated` says who has moved the
  gate at each program point of the supervisor; `Over` says that once the call has ended, podman
  is gone and its container with it, or whatever podman still starts meets a closed gate.
  Results: `GateIsHeld`, `NothingIsLeft`, `OkRunsAreClean`, `RunsRevokeQuietly`.
* **PeerAncestry**: `AdmissionIsSound`, `WalksAreBounded`.  The argument: start times are fresh, so a
  process read with the same parent and start time twice was alive in between; when the
  first pass ends, all of the chain is alive at once, which is the instant `descended` names.
* **GithubBroker** (any clients, refs, pushes and bounds).  Every step of the serve thread either
  goes on with its connection or is through with it (`GoesOn`, `Finishes`), and each kind
  keeps `IInv` once its effect on GitHub is known (`LostEffect`); `IInv` says where in its
  operation a handler can have had an effect (`Timely`), that commands on their way passed
  the gate (`PushGated`), and that a refusal in line for the audit had none (`Owed`).
  Results: `TypeCorrect`, `OnlyCreates`, `NoSecondPull`, `NoSilentEffect`; from an invariant on the
  tokens alone, `RetriesWithNewToken`; and from `Honest`, `OksWereDelivered`: a connection's
  audit lines are written at its end, and what it is sent after them never contradicts them.
  `BrokerGuardsRepository` proves the refinement of `GuardedRepository`, part by part of what a
  step does for its connection: `Acts`, `Tells`, `Writes`, `Lets`.  It needs to know what the
  client has heard at each program point, that nothing was done before the last call is
  answered, and that the lines of a connection agree (`Standing`).
* **HandoverWriter** (any writers, names and number of tries): `VisibleIsWhole`,
  `AnsweredIsKept`, `FailedIsGone`, `DocumentsAreKept`, `RevokedIsQuiet`.  `IInv` says who owns an
  entry (`Owning`, `Owned`) and that what a crash may leave is on disk (`Durable`).
  `HandoversAreShelved` proves the refinement of `DocumentShelf`, which says all of these but
  `FailedIsGone` in one; a crash then needs to know of every entry that may come back whose it was
  and where, and that a document from before is never in doubt (`Remains`).
* **ProjectMigration** (any tree, any migrators, any number of changes): `PlansArePublished`,
  `AnswersAreTrue`, `GuestsAreSafe`.  `MigrationInv` says of each migrator what its plan consists
  of, that the stage it can still reach holds what the plan says has been copied, and what it
  must have done before it leaves with an answer.  A stage stays behind only when the migrator was
  killed, or its first look at the stage or its clean-up met an error; a guest under the
  stage's name is safe only from that first look on.
* **FamilyBinding** (any writers and editors): `EditsAreKept`.  `Spared` says that a writer has
  nothing under its temporary name before it has written, and has read a file only if it was
  asked to replace one.
* **FamilyCredential** (any Apps, any number of installations): `PairsWereInstalled`,
  `SentTokensAreVerified`.  Writings are numbered and never come again (`Numbered`), so a file that
  is found unchanged after the other one was read was there all the while; `Proven` says at
  which program point which of the two has been found so, and `Tied` that the token in use is
  the one whose inventory was looked at.
* **ProjectAdd** (any commands and requests): `AddInvariant`, `RegisteredFitsAlways`,
  `PoliciesEndure`.  `Each` is what a command knows at each program point whoever else runs, and
  what it knows in addition when it is alone; `Apart`, `Bound` and `Housed` relate commands to one
  another, the record to its policy and to its workspace.

Only model-checked: liveness, for fairness and ENABLED are out of the prover's reach
(`InterruptedSendSurfaces`, `MarkersDrain`, `StopReturns`, `EndArrives`, `AlarmsEndRun`).  Every
safety property that a passing run checks has a theorem.  The other way round, these are proved and no run
states them: `SenderIsAlone`, `OnePullPerRequest`, `GrantHonoured`, `ExitedIsClean`, `WindowExact`, `NeverTwice`, `LateIsFresh`,
`WalkBounded`, `RetryHasNewToken`, `AnswerIsDurable`, `NoReplacement`, `CleanClose`,
`SlotsReturned`, `CountsAreTrue`, `StreamIsWhole`, `EndIsSettled`, `ImplementsKernel`,
`NoPartialDocument` and `RevokedPublishesNothing`; TLC found each to hold before it was proved.

## 5. What is not modelled

* Contents: titles, bodies, stages, timestamps, host names, the framing of messages.  What
  the code decides on them appears as a choice of outcomes.
* The per-record lock files of the store, and the checks on ownership, mode and link count
  that guard against a changed file system: they end a command, as `Abandon` does.
* `doctor`, `list`, `status` and the other commands that change nothing or start podman once; the
  rendering and discovery of hand-over documents.
* The assembly of podman's arguments, image building, set-up of Claude and Codex.
* Address matching of the egress policy, and of the container's end the CONNECT header, the
  egress runtime and the Git remote helper.
* Of a run: a signal during `close()`, and the start of the other brokers step by step.
* Frames, capability files and the creation of a broker's artifacts: functions of one process
  over one file, whose failures are outcomes of the kernel's start and stop.
* Of the family App: the sealing of the key's copy, `openssl`, and the formats of GitHub's
  answers.  Of the migration: several plug-ins in one call.  Of the binding: the layout around
  it and the mount of a run.
* pkt-lines and capability negotiation of the Git protocol.
* Of the family's audit file: a line torn by a crash of the whole machine, and the limit of 4096
  bytes on a record.

Some steps of the code are one step here.  None of them decides a property:

* `Preview` takes the store's lock twice and compares what it read; a record changed in between
  ends the command, which wrote nothing yet.
* `FamilyIntake!RegisterRuntime` tests `_stop` and registers under the session's lock later.  Only
  the serve thread can act in between: a consumed session refuses the registration under that lock, and
  after a failure the registered runtime has nobody left to connect to.
* `FamilyIntake!Caught` keeps `_error` and then sets `_stop`.  Who finds the flag unset
  in between behaves as if it had looked before both.
* A second SIGINT, after the handlers are restored, unwinds the `ExitStack` with a
  `KeyboardInterrupt`; `SupervisedRun` lets the supervisor die, which promises less.
* `audit` of the GitHub broker tests `_closed` without a lock and appends later, so a line may
  land after `deactivate`.  No property says that the file is silent by then.

## 6. Plan

Modelled first was what acts outside the sandbox and cannot be undone: the creation of
Issues.  Next came the intake in front of it, the run around it, and the kernel, gateway and relay that
all container traffic passes, and the GitHub broker, whose pushes and pull requests cannot be
undone either; then what the host's commands leave on disk: registrations, bindings,
migrations, documents.  What follows, in this order:

1. `EgressRuntime`: the adapter's handshake with the container's command.
2. The runtime artifacts of a broker, with a crash after each step.
3. An abstract specification of `FamilyIntake`, and the store's intake command as what the
   serving thread's outcomes stand for.
