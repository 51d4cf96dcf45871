---------------------------- MODULE FamilyPending ----------------------------
(***************************************************************************)
(* The host-side store of family Issue requests and the commands that act  *)
(* on it: intake, startup recovery, preview, approve, reject and the two   *)
(* ways of resolving an ambiguous send (family_pending.py, family_cli.py,  *)
(* family_issue_create.py).                                                *)
(*                                                                         *)
(* Several host processes share the store.  One flock (.pending.lock)      *)
(* serialises them; approve keeps it across its network call, but not      *)
(* while the operator reads the preview.  A record is replaced as a whole  *)
(* (renameat2 EXCHANGE), and carries the audit event of its last           *)
(* transition until that event has been appended to the audit file: a      *)
(* transition is three durable steps, publish, append and clear, and a     *)
(* process may stop between any two of them.                               *)
(*                                                                         *)
(* Timestamps, stages, titles and bodies are abstracted: a request's       *)
(* content is Canonical[r], the clock is the set of requests past their    *)
(* 24 hours.                                                               *)
(***************************************************************************)
EXTENDS Integers, Sequences, FiniteSets

CONSTANTS
  Requests,        \* request ids
  Procs,           \* host processes: operator commands, runtime starts, brokers
  Inodes,          \* inode numbers the filesystem hands out and reuses
  NoRequest, NoProc, NoIssue,
  Canonical,       \* the canonical title/body of each request
  LegacyRequests,  \* those an older version may have left, audit still pending
  Commands,        \* commands the processes may run
  MaxUnfinished,   \* _MAX_UNFINISHED
  MaxAudit,        \* audit lines that fit into _MAX_AUDIT_BYTES
  MaxMishaps,      \* bound on failures, interrupts and crashes
  TornWrites,      \* may a crash leave a record's temporary file behind?
  CarefulOperator  \* does not-created wait until every earlier POST is settled?

ASSUME ProcsAssumption == NoProc \notin Procs /\ Inodes # {}
ASSUME RequestsAssumption ==
  /\ NoRequest \notin Requests
  /\ NoIssue \notin Requests \X Nat
  /\ LegacyRequests \subseteq Requests
  /\ IsFiniteSet(Requests)
ASSUME BoundsAssumption ==
  /\ MaxUnfinished \in Nat /\ MaxAudit \in Nat /\ MaxMishaps \in Nat
  /\ Cardinality(LegacyRequests) <= MaxUnfinished
  /\ TornWrites \in BOOLEAN /\ CarefulOperator \in BOOLEAN

VARIABLES
  record,     \* [Requests -> Record], the durable <id>.json files
  debris,     \* a temporary file no operation will ever remove is in the store
  holder,     \* the process that holds .pending.lock
  audit,      \* the lines of the audit file
  overdue,    \* requests whose expires_at has passed
  wire,       \* [Requests -> Seq(Fate)], the POSTs whose body was begun
  proc,       \* the local state of each process
  trail,      \* history: the events published for each request
  reopened,   \* history: number of not-created resolutions of each request
  mishaps     \* history: failures so far

vars == <<record, debris, holder, audit, overdue, wire, proc, trail, reopened, mishaps>>
history == <<trail, reopened, mishaps>>
store == <<record, debris, trail>>
outside == <<overdue, wire>>

-----------------------------------------------------------------------------
(* Records, events and local states                                        *)

ContentStates == {"pending", "sending", "unknown"}
TerminalStates == {"created", "rejected", "expired"}
States == {"absent"} \cup ContentStates \cup TerminalStates

Transitions ==
  [s \in States |->
     CASE s = "absent"  -> {"pending"}
       [] s = "pending" -> {"sending", "rejected", "expired"}
       [] s = "sending" -> {"pending", "created", "unknown"}
       [] s = "unknown" -> {"pending", "created"}
       [] OTHER         -> {}]

Event(op, status) == [operation |-> op, status |-> status]
NoEvent == Event("none", "none")
LegacyBit == Event("legacy", "unknown")
Operations == {"none", "legacy", "intake", "preview", "approve", "reject", "expire",
               "resolve-created", "resolve-not-created", "recover"}
Statuses == {"none", "denied", "error"} \cup (States \ {"absent"})
Events == [operation : Operations, status : Statuses]

Issues == Requests \X Nat
Record == [state : States, marker : Events, inode : Inodes, issue : Issues \cup {NoIssue}]
Fates == {"sent", "landed", "lost"}

Line(r, e) == [request |-> r, operation |-> e.operation, status |-> e.status]
Lines == [request : Requests, operation : Operations, status : Statuses]

Unfinished == {r \in Requests : record[r].state \in ContentStates}

Labels == {"idle", "startup", "sweep", "admit", "select", "prompt", "preflight", "send",
           "await", "verify", "append", "clear"}
Unseen == [state |-> "absent", marker |-> NoEvent, inode |-> CHOOSE i \in Inodes : TRUE,
           issue |-> NoIssue]
Local == [pc : Labels, cmd : Commands \cup {"none"}, target : Requests \cup {NoRequest},
          at : Requests \cup {NoRequest}, then : Labels, clock : SUBSET Requests,
          seen : Record, age : Nat]
Idle == [pc |-> "idle", cmd |-> "none", target |-> NoRequest, at |-> NoRequest,
         then |-> "idle", clock |-> {}, seen |-> Unseen, age |-> 0]

-----------------------------------------------------------------------------
Init ==
  /\ \E legacy \in SUBSET LegacyRequests :
       /\ record = [r \in Requests |->
                      IF r \in legacy
                        THEN [Unseen EXCEPT !.state = "unknown", !.marker = LegacyBit]
                        ELSE Unseen]
       /\ wire = [r \in Requests |-> IF r \in legacy THEN <<"sent">> ELSE <<>>]
  /\ debris = FALSE
  /\ holder = NoProc
  /\ audit = <<>>
  /\ overdue = {}
  /\ proc = [p \in Procs |-> Idle]
  /\ trail = [r \in Requests |-> <<>>]
  /\ reopened = [r \in Requests |-> 0]
  /\ mishaps = 0

-----------------------------------------------------------------------------
(* The durable steps of one audited transition                             *)

At(p, label) == proc[p].pc = label
Free == holder = NoProc
Goto(p, label) == proc' = [proc EXCEPT ![p].pc = label]
Finish(p) == proc' = [proc EXCEPT ![p] = Idle]
Release(p) == holder' = IF holder = p THEN NoProc ELSE holder

Quiet(r) == record[r].marker = NoEvent

\* _atomic_replace: the exchanged file has another inode than the one it displaces,
\* whose number is free again afterwards.
Replace(r, s, e, n) ==
  \E i \in Inodes :
    /\ record[r].state = "absent" \/ i # record[r].inode
    /\ record' = [record EXCEPT ![r] =
                    [state |-> s, marker |-> e, inode |-> i, issue |-> n]]

\* transition_pending_audited up to the exchange: state, content cleanup and marker
\* become durable together; the process then appends, clears and goes on at "resume".
Publish(p, r, s, e, n, resume) ==
  /\ Quiet(r)
  /\ s \in Transitions[record[r].state]
  /\ Replace(r, s, e, n)
  /\ trail' = [trail EXCEPT ![r] = Append(@, e)]
  /\ proc' = [proc EXCEPT ![p].pc = "append", ![p].at = r, ![p].then = resume]
  /\ UNCHANGED debris

\* append_family_audit for an event that is no transition: a preview, a refusal or a
\* failed reconciliation.  A full audit file makes it raise.
Note(r, e) ==
  audit' = IF Len(audit) < MaxAudit THEN Append(audit, Line(r, e)) ELSE audit

AppendAudit(p) ==
  /\ At(p, "append")
  /\ Len(audit) < MaxAudit
  /\ audit' = Append(audit, Line(proc[p].at, record[proc[p].at].marker))
  /\ Goto(p, "clear")
  /\ UNCHANGED <<holder, store, outside, reopened, mishaps>>

\* Mutant: a full audit file is ignored.
AppendRefused_Ignored(p) ==
  /\ At(p, "append")
  /\ Len(audit) >= MaxAudit
  /\ Goto(p, "clear")
  /\ UNCHANGED <<holder, audit, store, outside, reopened, mishaps>>

AppendRefused(p) ==
  /\ At(p, "append")
  /\ Len(audit) >= MaxAudit
  /\ Finish(p)
  /\ Release(p)
  /\ UNCHANGED <<audit, store, outside, reopened, mishaps>>

ClearMarker(p) ==
  LET r == proc[p].at IN
  /\ At(p, "clear")
  /\ Replace(r, record[r].state, NoEvent, record[r].issue)
  /\ IF proc[p].then = "idle"
       THEN Finish(p) /\ Release(p)
       ELSE Goto(p, proc[p].then) /\ UNCHANGED holder
  /\ UNCHANGED <<debris, audit, outside, history>>

-----------------------------------------------------------------------------
(* Startup recovery: initialize_pending_store, and the sweep of create_pending *)

Start(p, c, r) ==
  /\ At(p, "idle")
  /\ r = NoRequest <=> c \in {"start", "intake"}
  /\ r \in Requests => record[r].state # "absent"
  /\ proc' = [proc EXCEPT ![p] = [Idle EXCEPT !.pc = "startup", !.cmd = c, !.target = r,
                                              !.clock = overdue]]
  /\ UNCHANGED <<holder, audit, store, outside, reopened, mishaps>>

BeginSweep(p) ==
  /\ At(p, "startup")
  /\ Free /\ ~debris
  /\ holder' = p
  /\ Goto(p, "sweep")
  /\ UNCHANGED <<audit, store, outside, reopened, mishaps>>

\* validate_family_audit does not wait for the lock of the audit file: while another process
\* appends, the command ends before it looks at the store.
AuditBusy(p) ==
  /\ At(p, "startup")
  /\ \E q \in Procs : At(q, "append")
  /\ Finish(p)
  /\ UNCHANGED <<holder, audit, store, outside, reopened, mishaps>>

\* _inventory rejects a name it does not know, before anything is recovered or read.
InventoryRefused(p) ==
  /\ proc[p].pc \in {"startup", "select", "prompt"}
  /\ Free /\ debris
  /\ Finish(p)
  /\ UNCHANGED <<holder, audit, store, outside, reopened, mishaps>>

\* _migrate_recovery_audit_pending: the legacy bit becomes an ordinary marker.
SweepMigrate(p, r) ==
  /\ At(p, "sweep")
  /\ record[r].marker = LegacyBit
  /\ Replace(r, record[r].state, Event("recover", "unknown"), record[r].issue)
  /\ trail' = [trail EXCEPT ![r] = Append(@, Event("recover", "unknown"))]
  /\ UNCHANGED <<debris, holder, audit, outside, proc, reopened, mishaps>>

\* Mutant: an event found undrained is cleared without being appended.
SweepDrain_ClearsOnly(p, r) ==
  /\ At(p, "sweep")
  /\ record[r].marker \notin {NoEvent, LegacyBit}
  /\ proc' = [proc EXCEPT ![p].pc = "clear", ![p].at = r, ![p].then = "sweep"]
  /\ UNCHANGED <<holder, audit, store, outside, reopened, mishaps>>

\* Mutant: only the start command drains what it finds.
SweepDrain_OnStart(p, r) ==
  /\ At(p, "sweep")
  /\ proc[p].cmd = "start"
  /\ record[r].marker \notin {NoEvent, LegacyBit}
  /\ proc' = [proc EXCEPT ![p].pc = "append", ![p].at = r, ![p].then = "sweep"]
  /\ UNCHANGED <<holder, audit, store, outside, reopened, mishaps>>

SweepDrain(p, r) ==
  /\ At(p, "sweep")
  /\ record[r].marker \notin {NoEvent, LegacyBit}
  /\ proc' = [proc EXCEPT ![p].pc = "append", ![p].at = r, ![p].then = "sweep"]
  /\ UNCHANGED <<holder, audit, store, outside, reopened, mishaps>>

\* Mutant: an interrupted send is queued again.
SweepRecover_ToPending(p, r) ==
  /\ At(p, "sweep")
  /\ record[r].state = "sending"
  /\ Publish(p, r, "pending", Event("recover", "unknown"), NoIssue, "sweep")
  /\ UNCHANGED <<holder, audit, outside, reopened, mishaps>>

\* Mutant: an interrupted send is recovered only once it has expired.
SweepRecover_Overdue(p, r) ==
  /\ At(p, "sweep")
  /\ record[r].state = "sending"
  /\ r \in proc[p].clock
  /\ Publish(p, r, "unknown", Event("recover", "unknown"), NoIssue, "sweep")
  /\ UNCHANGED <<holder, audit, outside, reopened, mishaps>>

SweepRecover(p, r) ==
  /\ At(p, "sweep")
  /\ record[r].state = "sending"
  /\ Publish(p, r, "unknown", Event("recover", "unknown"), NoIssue, "sweep")
  /\ UNCHANGED <<holder, audit, outside, reopened, mishaps>>

SweepExpire(p, r) ==
  /\ At(p, "sweep")
  /\ record[r].state = "pending"
  /\ r \in proc[p].clock
  /\ Publish(p, r, "expired", Event("expire", "expired"), NoIssue, "sweep")
  /\ UNCHANGED <<holder, audit, outside, reopened, mishaps>>

Settled(p) ==
  \A r \in Requests :
    /\ Quiet(r)
    /\ record[r].state # "sending"
    /\ record[r].state = "pending" => r \notin proc[p].clock

EndSweep(p) ==
  /\ At(p, "sweep")
  /\ Settled(p)
  /\ CASE proc[p].cmd = "intake" -> Goto(p, "admit") /\ UNCHANGED holder
       [] proc[p].cmd = "start"  -> Finish(p) /\ Release(p)
       [] OTHER -> /\ proc' = [proc EXCEPT ![p].pc = "select", ![p].clock = overdue]
                   /\ Release(p)
  /\ UNCHANGED <<audit, store, outside, reopened, mishaps>>

-----------------------------------------------------------------------------
(* create_pending                                                          *)

\* Mutant: the capacity check lets one request too many in.
Admit_OneTooMany(p, r) ==
  /\ At(p, "admit")
  /\ Cardinality(Unfinished) <= MaxUnfinished
  /\ record[r].state = "absent"
  /\ Publish(p, r, "pending", Event("intake", "pending"), NoIssue, "idle")
  /\ UNCHANGED <<holder, audit, outside, reopened, mishaps>>

Admit(p, r) ==
  /\ At(p, "admit")
  /\ Cardinality(Unfinished) < MaxUnfinished
  /\ record[r].state = "absent"
  /\ Publish(p, r, "pending", Event("intake", "pending"), NoIssue, "idle")
  /\ UNCHANGED <<holder, audit, outside, reopened, mishaps>>

\* PendingCapacityError, or no fresh id in _ID_ATTEMPTS draws.
IntakeRefused(p) ==
  /\ At(p, "admit")
  /\ \/ Cardinality(Unfinished) >= MaxUnfinished
     \/ \A r \in Requests : record[r].state # "absent"
  /\ Finish(p)
  /\ Release(p)
  /\ UNCHANGED <<audit, store, outside, reopened, mishaps>>

-----------------------------------------------------------------------------
(* The operator's commands, after their own startup sweep                  *)

\* pending_lock, snapshot check aside: lock free, inventory clean, nothing undrained.
Open(p, label, c) ==
  At(p, label) /\ proc[p].cmd = c /\ Free /\ ~debris

\* The command raises under the lock, without effect: the record has another state or
\* an undrained marker.
Refuse(p, label, c, states) ==
  /\ Open(p, label, c)
  /\ ~Quiet(proc[p].target) \/ record[proc[p].target].state \notin states
  /\ Finish(p)
  /\ UNCHANGED <<holder, audit, store, outside, reopened, mishaps>>

\* snapshot_pending, followed by the prompt with no lock held.
TakeSnapshot(p, c, s) ==
  LET r == proc[p].target IN
  /\ Open(p, "select", c)
  /\ Quiet(r) /\ record[r].state = s
  /\ proc' = [proc EXCEPT ![p].pc = "prompt", ![p].seen = record[r], ![p].age = Len(trail[r])]
  /\ UNCHANGED <<holder, audit, store, outside, reopened, mishaps>>

\* No terminal to ask on: refused whatever the record's state, after load_pending.
NoTerminal(p) ==
  /\ At(p, "select") /\ proc[p].cmd \in {"approve", "resolve-not-created"}
  /\ Free /\ ~debris
  /\ Quiet(proc[p].target)
  /\ Note(proc[p].target, Event(proc[p].cmd, "denied"))
  /\ Finish(p)
  /\ UNCHANGED <<holder, store, outside, reopened, mishaps>>

\* Anything but the exact confirmation.
Decline(p) ==
  /\ At(p, "prompt")
  /\ Note(proc[p].target, Event(proc[p].cmd, "denied"))
  /\ Finish(p)
  /\ UNCHANGED <<holder, store, outside, reopened, mishaps>>

\* PendingSnapshotMismatch: approve audits the refusal, after the lock is released.
Mismatch(p) ==
  LET r == proc[p].target IN
  /\ At(p, "prompt") /\ Free /\ ~debris
  /\ Quiet(r) /\ record[r] # proc[p].seen
  /\ IF proc[p].cmd = "approve" THEN Note(r, Event("approve", "denied")) ELSE UNCHANGED audit
  /\ Finish(p)
  /\ UNCHANGED <<holder, store, outside, reopened, mishaps>>

Preview(p) ==
  LET r == proc[p].target IN
  /\ Open(p, "select", "preview")
  /\ Quiet(r) /\ record[r].state \in {"pending", "unknown"}
  /\ Note(r, Event("preview", record[r].state))
  /\ Finish(p)
  /\ UNCHANGED <<holder, store, outside, reopened, mishaps>>

Reject(p) ==
  LET r == proc[p].target IN
  /\ Open(p, "select", "reject")
  /\ record[r].state = "pending"
  /\ IF r \in proc[p].clock
       THEN Publish(p, r, "expired", Event("expire", "expired"), NoIssue, "idle")
       ELSE Publish(p, r, "rejected", Event("reject", "rejected"), NoIssue, "idle")
  /\ holder' = p
  /\ UNCHANGED <<audit, outside, reopened, mishaps>>

-----------------------------------------------------------------------------
(* approve                                                                 *)

ConfirmApproval(p) ==
  LET r == proc[p].target IN
  /\ Open(p, "prompt", "approve")
  /\ Quiet(r) /\ record[r] = proc[p].seen
  /\ holder' = p
  /\ Goto(p, "preflight")
  /\ UNCHANGED <<audit, store, outside, reopened, mishaps>>

\* The binding changed, or the token or the repository inventory is refused.
PreflightDenied(p) ==
  /\ At(p, "preflight")
  /\ Note(proc[p].target, Event("approve", "denied"))
  /\ Finish(p)
  /\ Release(p)
  /\ UNCHANGED <<store, outside, reopened, mishaps>>

ApproveExpired(p) ==
  LET r == proc[p].target IN
  /\ At(p, "preflight")
  /\ r \in overdue
  /\ Publish(p, r, "expired", Event("expire", "expired"), NoIssue, "idle")
  /\ UNCHANGED <<holder, audit, outside, reopened, mishaps>>

BeginSend(p) ==
  LET r == proc[p].target IN
  /\ At(p, "preflight")
  /\ r \notin overdue
  /\ Publish(p, r, "sending", Event("approve", "sending"), NoIssue, "send")
  /\ UNCHANGED <<holder, audit, outside, reopened, mishaps>>

\* SendNotStarted: no token, no connection, or the headers could not be written.
SendNotStarted(p) ==
  /\ At(p, "send")
  /\ Publish(p, proc[p].target, "pending", Event("approve", "error"), NoIssue, "idle")
  /\ UNCHANGED <<holder, audit, outside, reopened, mishaps>>

\* body_send_begun: from here on the POST may take effect whatever the process sees.
\* Mutant: the POST is retried on the same claim.
PostBody_Retries(p) ==
  /\ At(p, "send")
  /\ wire' = [wire EXCEPT ![proc[p].target] = Append(@, "sent")]
  /\ \E label \in {"send", "await"} : Goto(p, label)
  /\ Len(wire[proc[p].target]) < 3
  /\ UNCHANGED <<holder, audit, store, overdue, reopened, mishaps>>

PostBody(p) ==
  LET r == proc[p].target IN
  /\ At(p, "send")
  /\ wire' = [wire EXCEPT ![r] = Append(@, "sent")]
  /\ Goto(p, "await")
  /\ UNCHANGED <<holder, audit, store, overdue, reopened, mishaps>>

\* The 201 names the Issue this POST created: POST number n of r creates Issue <<r, n>>.
SendSucceeded(p) ==
  LET r == proc[p].target
      n == Len(wire[r]) IN
  /\ At(p, "await")
  /\ wire[r][n] = "landed"
  /\ Publish(p, r, "created", Event("approve", "created"), <<r, n>>, "idle")
  /\ UNCHANGED <<holder, audit, outside, reopened, mishaps>>

\* SendOutcomeUnknown: timeout, reset, another status, a response that does not parse.
\* Mutant: a failed send counts as not created.
SendOutcomeUnknown_ToPending(p) ==
  /\ At(p, "await")
  /\ Publish(p, proc[p].target, "pending", Event("approve", "error"), NoIssue, "idle")
  /\ UNCHANGED <<holder, audit, outside, reopened, mishaps>>

SendOutcomeUnknown(p) ==
  /\ At(p, "await")
  /\ Publish(p, proc[p].target, "unknown", Event("approve", "unknown"), NoIssue, "idle")
  /\ UNCHANGED <<holder, audit, outside, reopened, mishaps>>

-----------------------------------------------------------------------------
(* resolve-created and resolve-not-created                                 *)

BeginVerify(p) ==
  LET r == proc[p].target IN
  /\ Open(p, "select", "resolve-created")
  /\ Quiet(r) /\ record[r].state = "unknown"
  /\ holder' = p
  /\ Goto(p, "verify")
  /\ UNCHANGED <<audit, store, outside, reopened, mishaps>>

\* The inventory or the Issue does not match; a changed binding is not even audited.
VerifyFailed(p) ==
  /\ At(p, "verify")
  /\ Note(proc[p].target, Event("resolve-created", "error")) \/ UNCHANGED audit
  /\ Finish(p)
  /\ Release(p)
  /\ UNCHANGED <<store, outside, reopened, mishaps>>

\* verify_existing: the Issue of that number exists and has this title and body.  It may
\* have been created for another request with the same content.
\* Mutant: the number is believed without looking at the Issue.
VerifyExisting_Unseen(p, q, n) ==
  LET r == proc[p].target IN
  /\ At(p, "verify")
  /\ n \in DOMAIN wire[q]
  /\ Canonical[q] = Canonical[r]
  /\ Publish(p, r, "created", Event("resolve-created", "created"), <<q, n>>, "idle")
  /\ UNCHANGED <<holder, audit, outside, reopened, mishaps>>

VerifyExisting(p, q, n) ==
  LET r == proc[p].target IN
  /\ At(p, "verify")
  /\ n \in DOMAIN wire[q] /\ wire[q][n] = "landed"
  /\ Canonical[q] = Canonical[r]
  /\ Publish(p, r, "created", Event("resolve-created", "created"), <<q, n>>, "idle")
  /\ UNCHANGED <<holder, audit, outside, reopened, mishaps>>

ConfirmNotCreated(p) ==
  LET r == proc[p].target IN
  /\ Open(p, "prompt", "resolve-not-created")
  /\ record[r] = proc[p].seen
  /\ CarefulOperator => \A n \in DOMAIN wire[r] : wire[r][n] = "lost"
  /\ holder' = p
  /\ Publish(p, r, "pending", Event("resolve-not-created", "pending"), NoIssue, "idle")
  /\ reopened' = [reopened EXCEPT ![r] = @ + 1]
  /\ UNCHANGED <<audit, outside, mishaps>>

-----------------------------------------------------------------------------
(* GitHub, the clock, and failures                                         *)

Settle(r, n, fate) ==
  /\ n \in DOMAIN wire[r] /\ wire[r][n] = "sent"
  /\ wire' = [wire EXCEPT ![r][n] = fate]
  /\ UNCHANGED <<record, debris, holder, audit, overdue, proc, history>>

Lapse(r) ==
  /\ r \notin overdue
  /\ record[r].state \in ContentStates
  /\ overdue' = overdue \cup {r}
  /\ UNCHANGED <<record, debris, holder, audit, wire, proc, history>>

\* An exception out of a durable step, an interrupt or a kill: the locks go with the
\* process, what it published stays.  Killed around an exchange, it leaves the
\* temporary file it would have unlinked.
Abandon(p) ==
  /\ ~At(p, "idle")
  /\ mishaps < MaxMishaps
  /\ mishaps' = mishaps + 1
  /\ Release(p)
  /\ debris' \in IF TornWrites /\ holder = p THEN {debris, TRUE} ELSE {debris}
  /\ Finish(p)
  /\ UNCHANGED <<record, audit, outside, trail, reopened>>

-----------------------------------------------------------------------------
Recovery(p) ==
  \/ BeginSweep(p) \/ AuditBusy(p) \/ InventoryRefused(p) \/ EndSweep(p)
  \/ \E r \in Requests :
       SweepMigrate(p, r) \/ SweepDrain(p, r) \/ SweepRecover(p, r) \/ SweepExpire(p, r)

Intake(p) == IntakeRefused(p) \/ \E r \in Requests : Admit(p, r)

Approval(p) ==
  \/ TakeSnapshot(p, "approve", "pending")
  \/ Refuse(p, "select", "approve", {"pending"})
  \/ Refuse(p, "prompt", "approve", States)
  \/ ConfirmApproval(p) \/ PreflightDenied(p) \/ ApproveExpired(p) \/ BeginSend(p)
  \/ SendNotStarted(p) \/ PostBody(p) \/ SendSucceeded(p) \/ SendOutcomeUnknown(p)

Reconciliation(p) ==
  \/ Refuse(p, "select", "resolve-created", {"unknown"})
  \/ BeginVerify(p) \/ VerifyFailed(p)
  \/ \E q \in Requests : \E n \in DOMAIN wire[q] : VerifyExisting(p, q, n)
  \/ TakeSnapshot(p, "resolve-not-created", "unknown")
  \/ Refuse(p, "select", "resolve-not-created", {"unknown"})
  \/ Refuse(p, "prompt", "resolve-not-created", States)
  \/ ConfirmNotCreated(p)

Inspection(p) ==
  \/ Preview(p) \/ Refuse(p, "select", "preview", {"pending", "unknown"})
  \/ Reject(p) \/ Refuse(p, "select", "reject", {"pending"})
  \/ NoTerminal(p) \/ Decline(p) \/ Mismatch(p)

Outbox(p) == AppendAudit(p) \/ AppendRefused(p) \/ ClearMarker(p)

Step(p) ==
  Recovery(p) \/ Intake(p) \/ Approval(p) \/ Reconciliation(p) \/ Inspection(p) \/ Outbox(p)

Launch(p) == \E c \in Commands, r \in Requests \cup {NoRequest} : Start(p, c, r)

GitHub == \E r \in Requests : \E n \in DOMAIN wire[r], fate \in {"landed", "lost"} :
            Settle(r, n, fate)

Next ==
  \/ \E p \in Procs : Launch(p) \/ Step(p) \/ Abandon(p)
  \/ GitHub
  \/ \E r \in Requests : Lapse(r)

Spec == Init /\ [][Next]_vars

-----------------------------------------------------------------------------
(* Type invariant                                                          *)

\* Every variable keeps its type: whole records, one process at most on the lock.
TypeOK ==
  /\ record \in [Requests -> Record]
  /\ debris \in BOOLEAN
  /\ holder \in Procs \cup {NoProc}
  /\ audit \in Seq(Lines)
  /\ overdue \subseteq Requests
  /\ wire \in [Requests -> Seq(Fates)]
  /\ proc \in [Procs -> Local]
  /\ trail \in [Requests -> Seq(Events)]
  /\ reopened \in [Requests -> Nat]
  /\ mishaps \in Nat

-----------------------------------------------------------------------------
(* Sends and Issues                                                        *)

Landed(r) == {n \in DOMAIN wire[r] : wire[r][n] = "landed"}

\* A request's body is put on the wire once, and once more for each time an operator
\* resolved it as not created: no crash, recovery, failed send or second approver adds
\* a POST.  A request shown as rejected, expired or still pending has none unaccounted
\* for (approve_family_issue, _recover_locked, family_issue_transport).
SendBudget ==
  \A r \in Requests :
    /\ Len(wire[r]) <= reopened[r] + 1
    /\ record[r].state \in {"pending", "rejected", "expired"} => Len(wire[r]) <= reopened[r]

\* If operators answer not-created only once every earlier POST is settled, a request
\* makes at most one Issue ("create exactly one GitHub Issue", family_cli.py).
AtMostOneIssue ==
  CarefulOperator => \A r \in Requests : \A m, n \in Landed(r) : m = n

\* Whether an operator said of a request that it was created, and named the Issue.
Resolved(r) == \E k \in DOMAIN trail[r] : trail[r][k] = Event("resolve-created", "created")

\* A record that says created names an Issue that exists and has the request's content, and it is
\* the Issue that the request's own last POST made (create), unless it was an operator who
\* named it: then it may be that of another request with the same content (verify_existing).
CreatedIsReal ==
  \A r \in Requests :
    record[r].state = "created" =>
      \E q \in Requests : \E n \in Landed(q) :
        /\ record[r].issue = <<q, n>> /\ Canonical[q] = Canonical[r]
        /\ <<q, n>> = <<r, Len(wire[r])>> \/ Resolved(r)

\* While a process is sending a request or waits for GitHub's answer, the record says
\* sending and no other process is in its critical section: recovery of a sending record
\* always finds a dead sender (initialize_pending_store).
SenderIsAlone ==
  \A p \in Procs : proc[p].pc \in {"send", "await"} =>
    /\ record[proc[p].target].state = "sending"
    /\ \A q \in Procs \ {p} : proc[q].pc \in {"idle", "startup", "select", "prompt"}

\* At most MaxUnfinished requests keep their content in the store, whatever mixture of
\* intake, reopened requests and legacy records led there (create_pending).
CapacityRespected == Cardinality(Unfinished) <= MaxUnfinished

\* The store implements the abstract approval life cycle: each durable step of any
\* process is one of its moves or changes nothing it can see.
Life == INSTANCE FamilyApproval
              WITH status <- [r \in Requests |-> record[r].state],
                   sends <- [r \in Requests |-> Len(wire[r])]

ImplementsApproval == Life!Spec

-----------------------------------------------------------------------------
(* The inductive invariant behind the properties above                     *)

Critical == {"sweep", "admit", "preflight", "send", "await", "verify", "append", "clear"}

\* A process is between pending_lock's acquisition and release exactly while it holds it.
LockDiscipline == \A p \in Procs : proc[p].pc \in Critical <=> holder = p

\* A process that works on a request knows which.
FocusOf(p) ==
  /\ proc[p].pc # "idle" /\ proc[p].target \notin Requests => proc[p].cmd \in {"start", "intake"}
  /\ proc[p].pc \in {"select", "prompt", "preflight", "send", "await", "verify"} =>
       proc[p].target \in Requests
  /\ proc[p].pc = "prompt" =>
       <<proc[p].cmd, proc[p].seen.state>>
         \in {<<"approve", "pending">>, <<"resolve-not-created", "unknown">>}
  /\ proc[p].pc \in {"append", "clear"} =>
       /\ proc[p].at \in Requests
       /\ proc[p].then \in {"idle", "sweep", "send"}
       /\ proc[p].then = "send" => proc[p].at = proc[p].target

\* What the record says of a request while a process that holds the lock is busy with it.
Unsent(p) == At(p, "send") \/ (proc[p].pc \in {"append", "clear"} /\ proc[p].then = "send")

PhaseOf(p) ==
  LET r == proc[p].target IN
  /\ At(p, "preflight") => record[r].state = "pending"
  /\ At(p, "verify") => record[r].state = "unknown"
  /\ At(p, "await") => record[r].state = "sending" /\ wire[r] # <<>>
  /\ Unsent(p) => record[r].state = "sending" /\ Len(wire[r]) <= reopened[r]

Focus == \A p \in Procs : FocusOf(p)
Phases == \A p \in Procs : PhaseOf(p)

Unspent ==
  \A r \in Requests :
    /\ Len(wire[r]) <= reopened[r] + 1
    /\ record[r].state \in {"absent", "pending", "rejected", "expired"} =>
         Len(wire[r]) <= reopened[r]

IInv == TypeOK /\ LockDiscipline /\ Focus /\ Phases /\ Unspent

-----------------------------------------------------------------------------
(* The audit file                                                          *)

\* An audit line that records no transition of a request.
IsNote(line) ==
  \/ line.status = "denied"
  \/ line.operation = "preview"
  \/ line.operation = "resolve-created" /\ line.status = "error"

\* The lines that tell the history of r, and those among them that do not merely repeat the
\* line of r before them: what was appended again after a crash is no head.
Told(r) == {i \in DOMAIN audit : audit[i].request = r /\ ~IsNote(audit[i])}

Heads(r) ==
  LET told == Told(r) IN
  {i \in told : \A j \in told :
     j < i => audit[j] # audit[i] \/ \E k \in told : j < k /\ k < i}

Rank(heads, i) == Cardinality({j \in heads : j <= i})

\* The lines about r tell its first k events: each of them, in order.
Tells(r, k) ==
  LET heads == Heads(r) IN
  /\ Cardinality(heads) = k
  /\ \A i \in Told(r) :
       LET rank == Rank(heads, i) IN
       rank \in 1..k /\ audit[i] = Line(r, trail[r][rank])

\* The audit file tells the history of every request completely and in order; only the
\* event still carried as the record's marker may be missing, and an event may be
\* repeated but never lost or overtaken ("Audit" section of family-issue-create-broker.md).
AuditKeepsUp ==
  \A r \in Requests :
    Tells(r, Len(trail[r])) \/ (~Quiet(r) /\ Tells(r, Len(trail[r]) - 1))

\* No body goes to GitHub before the audit file says so: as many "approve sending" lines
\* as POSTs (transition_pending_audited before creator.create).
Announced(r) == {i \in DOMAIN audit : audit[i] = Line(r, Event("approve", "sending"))}

EverySendAudited ==
  \A r \in Requests \ LegacyRequests : Len(wire[r]) <= Cardinality(Announced(r))

-----------------------------------------------------------------------------
(* What the audit properties and AtMostOneIssue rest on                    *)

\* The state a transition's event leaves its record in.
Outcome(e) == IF e.status = "error" THEN "pending" ELSE e.status

\* A request's history ends in the state of its record and never repeats itself at once;
\* the marker is its last event.  What an older version left has no history yet.
HistoryOf(r) ==
  LET last == trail[r][Len(trail[r])] IN
  /\ trail[r] # <<>> => record[r].state = Outcome(last)
  /\ record[r].marker = LegacyBit => trail[r] = <<>> /\ record[r].state = "unknown"
  /\ record[r].marker \notin {NoEvent, LegacyBit} => trail[r] # <<>> /\ record[r].marker = last
  /\ \A i \in DOMAIN trail[r] :
       /\ trail[r][i] \notin {NoEvent, LegacyBit} /\ ~IsNote(Line(r, trail[r][i]))
       /\ i > 1 => trail[r][i] # trail[r][i - 1]
  /\ Told(r) # {} => \E i \in Told(r) : \A j \in Told(r) : j <= i

\* What a process that writes an event out knows of it.
WritingOf(p) ==
  LET r == proc[p].at IN
  /\ At(p, "append") => record[r].marker \notin {NoEvent, LegacyBit}
  /\ At(p, "append") /\ proc[p].then = "send" => record[r].marker = Event("approve", "sending")
  /\ At(p, "clear") => Tells(r, Len(trail[r]))

\* A process that may send has been announced once more than there were POSTs.
AnnouncedOf(p) ==
  LET r == proc[p].target IN
  /\ At(p, "send") \/ (At(p, "clear") /\ proc[p].then = "send")
  /\ r \notin LegacyRequests
  => Len(wire[r]) < Cardinality(Announced(r))

AuditInv ==
  /\ \A r \in Requests : HistoryOf(r)
  /\ \A p \in Procs : WritingOf(p) /\ AnnouncedOf(p)
  /\ AuditKeepsUp /\ EverySendAudited

\* With careful operators, every POST but the last is known to have failed, and all of
\* them while the request is not out.
AllLost(r) == \A n \in DOMAIN wire[r] : wire[r][n] = "lost"

LostInv ==
  CarefulOperator =>
    /\ \A r \in Requests :
         /\ \A n \in DOMAIN wire[r] : n < Len(wire[r]) => wire[r][n] = "lost"
         /\ record[r].state \in {"absent", "pending", "rejected", "expired"} => AllLost(r)
    /\ \A p \in Procs : Unsent(p) => AllLost(proc[p].target)

-----------------------------------------------------------------------------
(* What a test says and the code does not do                               *)

\* tests/container/test_family_pending.py:863: a record replaced since the preview is
\* refused even if its bytes are equal, so nothing happened to the request between the
\* preview and the preflight.
ConfirmationIsFresh ==
  \A p \in Procs :
    At(p, "preflight") => proc[p].age = Len(trail[proc[p].target])

-----------------------------------------------------------------------------
(* Liveness                                                                *)

\* A running process takes its next step: the network calls have timeouts, it waits for
\* nobody but the holder of the store lock, and no order among the waiters is assumed.  A
\* prompt may stay open for ever.  A process that is idle starts again and again: there is
\* always another family command or runtime start.
Fairness ==
  \A p \in Procs :
    /\ WF_vars(Start(p, "start", NoRequest))
    /\ WF_vars(~At(p, "prompt") /\ Step(p))

FairSpec == Spec /\ Fairness

Blocked == Len(audit) >= MaxAudit

\* A request left in sending by a dead sender does not stay there: a later start moves it
\* on, unless the audit file is full.
InterruptedSendSurfaces ==
  \A r \in Requests : (record[r].state = "sending") ~> (record[r].state # "sending" \/ Blocked)

\* Every event left as a marker is eventually written and cleared.
MarkersDrain ==
  \A r \in Requests : (~Quiet(r)) ~> (Quiet(r) \/ Blocked)

=============================================================================
