------------------------ MODULE FamilyPending_proofs -------------------------
(***************************************************************************)
(* Proofs about FamilyPending, for any number of requests and processes,   *)
(* any inode allocation and any bounds.                                    *)
(***************************************************************************)
EXTENDS FamilyPending, FiniteSetTheorems, TLAPS

\* The atomic exchange of one record leaves every other record alone.
LEMMA ReplaceFrame ==
  ASSUME record \in [Requests -> Record], NEW r \in Requests, NEW s \in States,
         NEW e \in Events, NEW n \in Issues \cup {NoIssue}, Replace(r, s, e, n)
  PROVE  /\ record' \in [Requests -> Record]
         /\ record'[r].state = s /\ record'[r].marker = e /\ record'[r].issue = n
         /\ \A q \in Requests \ {r} : record'[q] = record[q]
<1>1. PICK i \in Inodes :
        record' = [record EXCEPT ![r] = [state |-> s, marker |-> e, inode |-> i, issue |-> n]]
  BY DEF Replace
<1>2. [state |-> s, marker |-> e, inode |-> i, issue |-> n] \in Record
  BY DEF Record
<1>3. QED
  BY <1>1, <1>2

\* A published transition: the new state is one the table allows, the history grows by the
\* marker, and the process goes on to append it.
LEMMA PublishFrame ==
  ASSUME TypeOK, NEW p \in Procs, NEW r \in Requests, NEW s \in States, NEW e \in Events,
         NEW n \in Issues \cup {NoIssue}, NEW resume \in Labels,
         Publish(p, r, s, e, n, resume)
  PROVE  /\ record' \in [Requests -> Record]
         /\ record'[r].state = s /\ record'[r].issue = n
         /\ \A q \in Requests \ {r} : record'[q] = record[q]
         /\ s \in Transitions[record[r].state]
         /\ trail' \in [Requests -> Seq(Events)]
         /\ proc' \in [Procs -> Local]
         /\ proc'[p].pc = "append" /\ proc'[p].at = r /\ proc'[p].then = resume
         /\ proc'[p].target = proc[p].target /\ proc'[p].cmd = proc[p].cmd
         /\ \A q \in Procs \ {p} : proc'[q] = proc[q]
         /\ debris' = debris
<1>1. Replace(r, s, e, n) /\ record \in [Requests -> Record]
  BY DEF Publish, TypeOK
<1>2. /\ record' \in [Requests -> Record]
      /\ record'[r].state = s /\ record'[r].issue = n
      /\ \A q \in Requests \ {r} : record'[q] = record[q]
  BY <1>1, ReplaceFrame
<1>3. trail' \in [Requests -> Seq(Events)]
  BY DEF Publish, TypeOK
<1>4. /\ proc' \in [Procs -> Local]
      /\ proc'[p].pc = "append" /\ proc'[p].at = r /\ proc'[p].then = resume
      /\ proc'[p].target = proc[p].target /\ proc'[p].cmd = proc[p].cmd
      /\ \A q \in Procs \ {p} : proc'[q] = proc[q]
  <2>1. proc' = [proc EXCEPT ![p] = [proc[p] EXCEPT !.pc = "append", !.at = r, !.then = resume]]
    BY DEF Publish, TypeOK
  <2>2. proc[p] \in Local
    BY DEF TypeOK
  <2>3. [proc[p] EXCEPT !.pc = "append", !.at = r, !.then = resume] \in Local
    BY <2>2 DEF Local, Labels
  <2>4. QED
    BY <2>1, <2>2, <2>3 DEF TypeOK, Local
<1>5. QED
  BY <1>2, <1>3, <1>4 DEF Publish

\* A note leaves the audit file a sequence of lines.
LEMMA NoteFrame ==
  ASSUME TypeOK, NEW r \in Requests, NEW e \in Events, Note(r, e)
  PROVE  audit' \in Seq(Lines)
<1>1. Line(r, e) \in Lines
  BY DEF Line, Lines, Events
<1>2. QED
  BY <1>1 DEF Note, TypeOK

\* A process that ends keeps its place among the typed local states.
LEMMA FinishFrame ==
  ASSUME TypeOK, NEW p \in Procs, Finish(p)
  PROVE  /\ proc' \in [Procs -> Local]
         /\ proc'[p] = Idle
         /\ \A q \in Procs \ {p} : proc'[q] = proc[q]
<1>1. Idle \in Local
  <2>1. Unseen \in Record
    BY ProcsAssumption DEF Unseen, Record, States, Events, NoEvent, Event, Operations, Statuses
  <2>2. QED
    BY <2>1 DEF Idle, Local, Labels
<1>2. QED
  BY <1>1 DEF Finish, TypeOK

-----------------------------------------------------------------------------
(* The inductive invariant                                                 *)

LEMMA InitIInv == Init => IInv
<1> SUFFICES ASSUME Init PROVE IInv
  OBVIOUS
<1>0. PICK legacy \in SUBSET LegacyRequests :
        /\ record = [r \in Requests |->
                       IF r \in legacy
                         THEN [Unseen EXCEPT !.state = "unknown", !.marker = LegacyBit]
                         ELSE Unseen]
        /\ wire = [r \in Requests |-> IF r \in legacy THEN <<"sent">> ELSE <<>>]
  BY DEF Init
<1>1. Unseen \in Record /\ Idle \in Local
  BY ProcsAssumption DEF Unseen, Record, States, Events, NoEvent, Event, Operations, Statuses,
     Idle, Local, Labels
<1>2. TypeOK
  <2>1. record \in [Requests -> Record]
    BY <1>0, <1>1 DEF Record, States, ContentStates, LegacyBit, Event, Events, Operations, Statuses
  <2>2. wire \in [Requests -> Seq(Fates)]
    <3>1. "sent" \in Fates
      BY DEF Fates
    <3>2. <<"sent">> \in Seq(Fates) /\ <<>> \in Seq(Fates)
      BY <3>1
    <3>3. QED
      BY <1>0, <3>2
  <2>3. debris \in BOOLEAN
    BY Zenon DEF Init
  <2>4. /\ holder \in Procs \cup {NoProc} /\ overdue \subseteq Requests
        /\ proc \in [Procs -> Local] /\ reopened \in [Requests -> Nat] /\ mishaps \in Nat
    BY <1>1 DEF Init
  <2>5. audit \in Seq(Lines) /\ trail \in [Requests -> Seq(Events)]
    BY DEF Init
  <2>6. QED
    BY <2>1, <2>2, <2>3, <2>4, <2>5 DEF TypeOK
<1>3. LockDiscipline /\ Focus /\ Phases
  BY <1>0, ProcsAssumption DEF Init, LockDiscipline, Focus, FocusOf, Phases, PhaseOf, Unsent, At, Idle,
     Critical
<1>4. Unspent
  <2> SUFFICES ASSUME NEW r \in Requests
               PROVE  /\ Len(wire[r]) <= reopened[r] + 1
                      /\ record[r].state \in {"absent", "pending", "rejected", "expired"} =>
                           Len(wire[r]) <= reopened[r]
    BY DEF Unspent
  <2>1. CASE r \in legacy
    <3>1. record[r] = [Unseen EXCEPT !.state = "unknown", !.marker = LegacyBit]
      BY <1>0, <2>1 DEF Init
    <3>2. record[r].state = "unknown"
      BY <3>1, <1>1 DEF Record
    <3>3. wire[r] = <<"sent">> /\ reopened[r] = 0
      BY <1>0, <2>1 DEF Init
    <3>4. Len(wire[r]) = 1
      BY <3>3
    <3>5. QED
      BY <3>2, <3>3, <3>4
  <2>2. CASE r \notin legacy
    <3>1. wire[r] = <<>> /\ reopened[r] = 0
      BY <1>0, <2>2 DEF Init
    <3>2. QED
      BY <3>1
  <2>3. QED
    BY <2>1, <2>2
<1>5. QED
  BY <1>2, <1>3, <1>4 DEF IInv

\* A step of one process keeps the invariant if the shared state it changes is the lock
\* holder's to change and the process itself ends in order: every other process is then
\* outside its critical section, where the invariant asks nothing of the store.
LEMMA LocalStep ==
  ASSUME IInv, NEW p \in Procs, TypeOK', Unspent', FocusOf(p)', PhaseOf(p)',
         \A q \in Procs \ {p} : proc'[q] = proc[q],
         proc'[p].pc \in Critical <=> holder' = p,
         \A q \in Procs \ {p} : holder' = q <=> holder = q,
         holder = p \/ Free \/ UNCHANGED <<record, wire, reopened>>
  PROVE  IInv'
<1>1. LockDiscipline'
  BY DEF IInv, LockDiscipline
<1>2. Focus'
  BY DEF IInv, Focus, FocusOf
<1>3. ASSUME NEW q \in Procs \ {p} PROVE PhaseOf(q)'
  <2>1. CASE UNCHANGED <<record, wire, reopened>>
    BY <2>1 DEF IInv, Phases, PhaseOf, Unsent, At
  <2>2. CASE holder = p \/ Free
    <3>1. proc[q].pc \notin Critical
      BY <2>2, ProcsAssumption DEF IInv, LockDiscipline, Free
    <3>2. QED
      BY <3>1 DEF PhaseOf, Unsent, At, Critical
  <2>3. QED
    BY <2>1, <2>2
<1>4. Phases'
  BY <1>3 DEF Phases
<1>5. QED
  BY <1>1, <1>2, <1>4 DEF IInv

\* A process that ends, gives the lock back if it has it and leaves the records alone.
LEMMA FinishStep ==
  ASSUME IInv, NEW p \in Procs, Finish(p), Release(p),
         UNCHANGED <<record, outside, trail, reopened>>,
         audit' \in Seq(Lines), debris' \in BOOLEAN, mishaps' \in Nat
  PROVE  IInv'
<1>1. /\ proc' \in [Procs -> Local]
      /\ proc'[p] = Idle
      /\ \A q \in Procs \ {p} : proc'[q] = proc[q]
  BY FinishFrame DEF IInv
<1>2. holder' \in Procs \cup {NoProc}
  BY DEF IInv, TypeOK, Release
<1>3. TypeOK'
  BY <1>1, <1>2 DEF IInv, TypeOK, outside
<1>4. Unspent'
  BY DEF IInv, Unspent, outside
<1>5. FocusOf(p)' /\ PhaseOf(p)'
  BY <1>1 DEF FocusOf, PhaseOf, Unsent, At, Idle
<1>6. /\ proc'[p].pc \in Critical <=> holder' = p
      /\ \A q \in Procs \ {p} : holder' = q <=> holder = q
  BY <1>1, ProcsAssumption DEF Idle, Critical, Release
<1>7. QED
  BY <1>1, <1>3, <1>4, <1>5, <1>6, LocalStep DEF outside

\* A process that moves on to another label without touching the records.
LEMMA MoveStep ==
  ASSUME IInv, NEW p \in Procs, NEW to \in Labels, Goto(p, to),
         UNCHANGED <<record, debris, outside, trail, reopened, mishaps>>,
         audit' \in Seq(Lines), holder' \in Procs \cup {NoProc},
         \A q \in Procs \ {p} : holder' = q <=> holder = q,
         to \in Critical <=> holder' = p, to # "idle", ~At(p, "idle"),
         to \in {"preflight", "verify"} => proc[p].target \in Requests,
         to \in {"sweep", "admit", "clear", "preflight", "verify"},
         to = "clear" => At(p, "append"),
         to = "preflight" => record[proc[p].target].state = "pending",
         to = "verify" => record[proc[p].target].state = "unknown"
  PROVE  IInv'
<1>1. proc[p] \in Local
  BY DEF IInv, TypeOK
<1>2. proc' = [proc EXCEPT ![p] = [proc[p] EXCEPT !.pc = to]]
  BY DEF Goto, IInv, TypeOK
<1>3. [proc[p] EXCEPT !.pc = to] \in Local
  BY <1>1 DEF Local
<1>4. /\ proc' \in [Procs -> Local]
      /\ \A q \in Procs \ {p} : proc'[q] = proc[q]
      /\ proc'[p].pc = to
      /\ proc'[p].target = proc[p].target /\ proc'[p].cmd = proc[p].cmd
      /\ proc'[p].at = proc[p].at /\ proc'[p].then = proc[p].then
  BY <1>1, <1>2, <1>3 DEF IInv, TypeOK, Local
<1>5. TypeOK'
  BY <1>4 DEF IInv, TypeOK, outside
<1>6. Unspent'
  BY DEF IInv, Unspent, outside
<1>7. FocusOf(p)'
  BY <1>4 DEF IInv, Focus, FocusOf, At
<1>8. PhaseOf(p)'
  BY <1>4 DEF IInv, Phases, PhaseOf, Unsent, At, outside
<1>9. QED
  BY <1>4, <1>5, <1>6, <1>7, <1>8, LocalStep DEF outside

\* A process that publishes a transition of r, holding the lock or taking it.
LEMMA PublishStep ==
  ASSUME IInv, NEW p \in Procs, NEW r \in Requests, NEW s \in States, NEW e \in Events,
         NEW n \in Issues \cup {NoIssue}, NEW resume \in {"idle", "sweep", "send"},
         Publish(p, r, s, e, n, resume), ~At(p, "idle"),
         holder = p \/ Free, holder' = p,
         UNCHANGED <<audit, outside, mishaps>>,
         reopened' \in [Requests -> Nat], \A q \in Requests : reopened[q] <= reopened'[q],
         s \in {"pending", "rejected", "expired"} => Len(wire[r]) <= reopened'[r],
         resume = "send" =>
           s = "sending" /\ r = proc[p].target /\ Len(wire[r]) <= reopened[r]
  PROVE  IInv'
<1>1. /\ record' \in [Requests -> Record]
      /\ record'[r].state = s
      /\ \A q \in Requests \ {r} : record'[q] = record[q]
      /\ s \in Transitions[record[r].state]
      /\ trail' \in [Requests -> Seq(Events)]
      /\ proc' \in [Procs -> Local]
      /\ proc'[p].pc = "append" /\ proc'[p].at = r /\ proc'[p].then = resume
      /\ proc'[p].target = proc[p].target /\ proc'[p].cmd = proc[p].cmd
      /\ \A q \in Procs \ {p} : proc'[q] = proc[q]
      /\ debris' = debris
  <2>1. TypeOK /\ resume \in Labels
    BY DEF IInv, Labels
  <2>2. QED
    BY <2>1, PublishFrame
<1>2. TypeOK'
  BY <1>1 DEF IInv, TypeOK, outside
<1>3. s # "absent"
  <2>1. record[r].state \in States
    BY DEF IInv, TypeOK, Record
  <2>2. QED
    BY <1>1, <2>1 DEF Transitions, States, ContentStates, TerminalStates
<1>4. Unspent'
  <2> SUFFICES ASSUME NEW q \in Requests
               PROVE  /\ Len(wire[q]) <= reopened'[q] + 1
                      /\ record'[q].state \in {"absent", "pending", "rejected", "expired"} =>
                           Len(wire[q]) <= reopened'[q]
    BY DEF Unspent, outside
  <2>1. /\ Len(wire[q]) \in Nat /\ reopened[q] \in Nat /\ reopened'[q] \in Nat
        /\ reopened[q] <= reopened'[q]
    BY DEF IInv, TypeOK
  <2>2. /\ Len(wire[q]) <= reopened[q] + 1
        /\ record[q].state \in {"absent", "pending", "rejected", "expired"} =>
             Len(wire[q]) <= reopened[q]
    BY DEF IInv, Unspent
  <2>3. Len(wire[q]) <= reopened'[q] + 1
    BY <2>1, <2>2
  <2>4. CASE q = r
    <3>1. record'[q].state = s
      BY <1>1, <2>4
    <3>2. QED
      BY <1>3, <2>3, <2>4, <3>1
  <2>5. CASE q # r
    <3>1. record'[q].state = record[q].state
      BY <1>1, <2>5
    <3>2. QED
      BY <2>1, <2>2, <2>3, <3>1
  <2>6. QED
    BY <2>4, <2>5
<1>5. FocusOf(p)'
  BY <1>1 DEF IInv, Focus, FocusOf, At
<1>6. PhaseOf(p)'
  <2>1. resume = "send" => Len(wire[r]) <= reopened'[r]
    BY DEF IInv, TypeOK
  <2>2. QED
    BY <1>1, <2>1 DEF PhaseOf, Unsent, At, outside
<1>7. /\ proc'[p].pc \in Critical
      /\ \A q \in Procs \ {p} : holder' = q <=> holder = q
  BY <1>1, ProcsAssumption DEF Critical, Free
<1>8. QED
  BY <1>1, <1>2, <1>4, <1>5, <1>6, <1>7, LocalStep

-----------------------------------------------------------------------------
(* One lemma per group of actions                                          *)

\* Whoever is in the critical section holds the lock.
LEMMA InsideHolds ==
  ASSUME IInv, NEW p \in Procs, proc[p].pc \in Critical
  PROVE  holder = p
  BY DEF IInv, LockDiscipline

\* Every event the code writes is an event.
LEMMA EventTyped ==
  ASSUME NEW o \in Operations, NEW s \in Statuses
  PROVE  Event(o, s) \in Events
  BY DEF Event, Events

\* The clock's stamp of a start changes nothing but the process.
LEMMA StartIInv ==
  ASSUME IInv, NEW p \in Procs, NEW c \in Commands, NEW r \in Requests \cup {NoRequest},
         Start(p, c, r)
  PROVE  IInv'
<1>1. Idle \in Local /\ overdue \in SUBSET Requests
  <2>1. Unseen \in Record
    BY ProcsAssumption DEF Unseen, Record, States, Events, NoEvent, Event, Operations, Statuses
  <2>2. QED
    BY <2>1 DEF Idle, Local, Labels, IInv, TypeOK
<1> DEFINE begun == [Idle EXCEPT !.pc = "startup", !.cmd = c, !.target = r, !.clock = overdue]
<1>2. begun \in Local /\ begun.pc = "startup" /\ begun.cmd = c /\ begun.target = r
  BY <1>1 DEF Local, Labels
<1>3. proc' = [proc EXCEPT ![p] = begun]
  BY DEF Start
<1> HIDE DEF begun
<1>4. /\ proc' \in [Procs -> Local] /\ proc'[p] = begun
      /\ \A q \in Procs \ {p} : proc'[q] = proc[q]
  BY <1>2, <1>3 DEF IInv, TypeOK
<1>5. UNCHANGED <<record, debris, holder, audit, overdue, wire, trail, reopened, mishaps>>
  BY DEF Start, store, outside
<1>6. TypeOK' /\ Unspent'
  BY <1>4, <1>5 DEF IInv, TypeOK, Unspent
<1>7. FocusOf(p)'
  BY <1>2, <1>4, RequestsAssumption DEF FocusOf, Start
<1>8. PhaseOf(p)'
  BY <1>2, <1>4 DEF PhaseOf, Unsent, At
<1>9. proc'[p].pc \in Critical <=> holder' = p
  <2>1. proc[p].pc \notin Critical
    BY DEF Start, At, Critical
  <2>2. QED
    BY <1>2, <1>4, <1>5, <2>1 DEF IInv, LockDiscipline, Critical
<1>10. QED
  BY <1>4, <1>5, <1>6, <1>7, <1>8, <1>9, LocalStep

\* A process that ends under, or without, the lock: every refusal, denial and preview.
LEMMA EndingIInv ==
  ASSUME IInv, NEW p \in Procs,
         \/ AuditBusy(p) \/ InventoryRefused(p) \/ IntakeRefused(p) \/ AppendRefused(p)
         \/ \E label \in {"select", "prompt"}, c \in Operations, ss \in SUBSET States :
              Refuse(p, label, c, ss)
         \/ NoTerminal(p) \/ Decline(p) \/ Mismatch(p) \/ Preview(p) \/ PreflightDenied(p) \/ VerifyFailed(p)
         \/ Abandon(p)
  PROVE  IInv'
<1>0. /\ audit \in Seq(Lines) /\ mishaps \in Nat /\ mishaps + 1 \in Nat
      /\ TypeOK
  BY DEF IInv, TypeOK
<1>1. debris \in BOOLEAN
  BY Zenon DEF IInv, TypeOK
<1>11. CASE AuditBusy(p)
  <2>1. Release(p)
    BY <1>11, ProcsAssumption DEF AuditBusy, At, Release, IInv, LockDiscipline, Critical
  <2>2. QED
    BY <1>0, <1>1, <1>11, <2>1, FinishStep DEF AuditBusy, store
<1>2. CASE InventoryRefused(p)
  <2>1. Release(p)
    BY <1>2, ProcsAssumption DEF InventoryRefused, Free, Release
  <2>2. QED
    BY <1>0, <1>1, <1>2, <2>1, FinishStep DEF InventoryRefused, store
<1>3. CASE IntakeRefused(p) \/ AppendRefused(p)
  BY <1>0, <1>1, <1>3, FinishStep DEF IntakeRefused, AppendRefused, store
<1>4. ASSUME NEW label \in {"select", "prompt"}, NEW c \in Operations, NEW ss \in SUBSET States,
             Refuse(p, label, c, ss)
      PROVE  IInv'
  <2>1. Release(p)
    BY <1>4, ProcsAssumption DEF Refuse, Open, Free, Release
  <2>2. QED
    BY <1>0, <1>1, <1>4, <2>1, FinishStep DEF Refuse, store
<1>5. CASE NoTerminal(p) \/ Decline(p)
  <2>1. proc[p].target \in Requests
    BY <1>5 DEF NoTerminal, Decline, At, IInv, Focus, FocusOf
  <2>2. Event(proc[p].cmd, "denied") \in Events
    <3>1. proc[p].cmd \in Operations
      BY <1>5 DEF NoTerminal, Decline, At, IInv, Focus, FocusOf, Operations
    <3>2. QED
      BY <3>1, EventTyped DEF Statuses
  <2>3. audit' \in Seq(Lines)
    BY <1>0, <1>5, <2>1, <2>2, NoteFrame DEF NoTerminal, Decline
  <2>4. Release(p)
    BY <1>5, ProcsAssumption DEF NoTerminal, Decline, At, Release, IInv, LockDiscipline, Critical
  <2>5. QED
    BY <1>0, <1>1, <1>5, <2>3, <2>4, FinishStep DEF NoTerminal, Decline, store
<1>6. CASE Mismatch(p)
  <2>1. proc[p].target \in Requests
    BY <1>6 DEF Mismatch, At, IInv, Focus, FocusOf
  <2>2. Event("approve", "denied") \in Events
    BY EventTyped DEF Statuses, Operations
  <2>3. audit' \in Seq(Lines)
    BY <1>0, <1>6, <2>1, <2>2, NoteFrame DEF Mismatch
  <2>4. Release(p)
    BY <1>6, ProcsAssumption DEF Mismatch, Free, Release
  <2>5. QED
    BY <1>0, <1>1, <1>6, <2>3, <2>4, FinishStep DEF Mismatch, store
<1>7. CASE Preview(p)
  <2>1. proc[p].target \in Requests
    BY <1>7 DEF Preview, Open, At, IInv, Focus, FocusOf
  <2>2. record[proc[p].target].state \in {"pending", "unknown"}
    BY <1>7 DEF Preview
  <2>3. Event("preview", record[proc[p].target].state) \in Events
    BY <2>2, EventTyped DEF Statuses, Operations, States, ContentStates
  <2>4. audit' \in Seq(Lines)
    BY <1>0, <1>7, <2>1, <2>3, NoteFrame DEF Preview
  <2>5. Release(p)
    BY <1>7, ProcsAssumption DEF Preview, Open, Free, Release
  <2>6. QED
    BY <1>0, <1>1, <1>7, <2>4, <2>5, FinishStep DEF Preview, store
<1>8. CASE PreflightDenied(p) \/ VerifyFailed(p)
  <2>1. proc[p].target \in Requests
    BY <1>8 DEF PreflightDenied, VerifyFailed, At, IInv, Focus, FocusOf
  <2>2. Event("approve", "denied") \in Events /\ Event("resolve-created", "error") \in Events
    BY EventTyped DEF Statuses, Operations
  <2>3. audit' \in Seq(Lines)
    BY <1>0, <1>8, <2>1, <2>2, NoteFrame DEF PreflightDenied, VerifyFailed
  <2>4. QED
    BY <1>0, <1>1, <1>8, <2>3, FinishStep DEF PreflightDenied, VerifyFailed, store
<1>9. CASE Abandon(p)
  <2>1. debris' \in BOOLEAN
    BY <1>1, <1>9, Zenon DEF Abandon
  <2>2. QED
    BY <1>0, <1>9, <2>1, FinishStep DEF Abandon
<1>10. QED
  BY <1>2, <1>3, <1>4, <1>5, <1>6, <1>7, <1>8, <1>9, <1>11

\* The sweep: it takes the lock, moves from record to record, and gives it back or goes
\* on to admit a request.
LEMMA RecoveryIInv ==
  ASSUME IInv, NEW p \in Procs, Recovery(p)
  PROVE  IInv'
<1>1. /\ proc[p] \in Local /\ audit \in Seq(Lines) /\ holder \in Procs \cup {NoProc}
      /\ \A r \in Requests : Len(wire[r]) \in Nat /\ reopened[r] \in Nat
      /\ reopened \in [Requests -> Nat]
      /\ TypeOK
  BY DEF IInv, TypeOK
<1>2. CASE BeginSweep(p)
  <2>1. \A q \in Procs \ {p} : holder' = q <=> holder = q
    BY <1>2, ProcsAssumption DEF BeginSweep, Free
  <2>2. QED
    BY <1>1, <1>2, <2>1, MoveStep DEF BeginSweep, Labels, Critical, At, store
<1>3. CASE AuditBusy(p) \/ InventoryRefused(p)
  BY <1>3, EndingIInv
<1>4. CASE EndSweep(p)
  <2>1. holder = p
    BY <1>4, InsideHolds DEF EndSweep, At, Critical
  <2>2. CASE proc[p].cmd = "intake"
    BY <1>1, <1>4, <2>1, <2>2, MoveStep DEF EndSweep, Labels, Critical, At, store
  <2>3. CASE proc[p].cmd = "start"
    <3>1. debris' \in BOOLEAN
      BY <1>4, Zenon DEF EndSweep, store, IInv, TypeOK
    <3>2. mishaps' \in Nat
      BY <1>4 DEF EndSweep, IInv, TypeOK
    <3>3. QED
      BY <1>1, <1>4, <2>3, <3>1, <3>2, FinishStep DEF EndSweep, store
  <2>4. CASE proc[p].cmd \notin {"intake", "start"}
    <3> DEFINE free == [proc[p] EXCEPT !.pc = "select", !.clock = overdue]
    <3>1. proc' = [proc EXCEPT ![p] = free] /\ Release(p)
      BY <1>1, <1>4, <2>4 DEF EndSweep, TypeOK
    <3>2. free \in Local /\ free.pc = "select" /\ free.target = proc[p].target
      BY <1>1 DEF Local, Labels, TypeOK
    <3> HIDE DEF free
    <3>3. /\ proc' \in [Procs -> Local] /\ proc'[p] = free
          /\ \A q \in Procs \ {p} : proc'[q] = proc[q]
      BY <3>1, <3>2 DEF IInv, TypeOK
    <3>4. holder' = NoProc
      BY <2>1, <3>1 DEF Release
    <3>5. UNCHANGED <<record, debris, audit, overdue, wire, trail, reopened, mishaps>>
      BY <1>4 DEF EndSweep, store, outside
    <3>6. TypeOK' /\ Unspent'
      BY <3>3, <3>4, <3>5 DEF IInv, TypeOK, Unspent
    <3>7. proc[p].target \in Requests
      BY <1>4, <2>4 DEF EndSweep, At, IInv, Focus, FocusOf
    <3>8. FocusOf(p)' /\ PhaseOf(p)'
      BY <3>2, <3>3, <3>7 DEF FocusOf, PhaseOf, Unsent, At
    <3>9. /\ proc'[p].pc \in Critical <=> holder' = p
          /\ \A q \in Procs \ {p} : holder' = q <=> holder = q
      BY <2>1, <3>2, <3>3, <3>4, ProcsAssumption DEF Critical
    <3>10. QED
      BY <2>1, <3>3, <3>6, <3>8, <3>9, LocalStep
  <2>5. QED
    BY <2>2, <2>3, <2>4
<1>5. ASSUME NEW r \in Requests, SweepMigrate(p, r) PROVE IInv'
  <2>1. holder = p
    BY <1>5, InsideHolds DEF SweepMigrate, At, Critical
  <2>2. /\ record[r].state \in States /\ record[r].issue \in Issues \cup {NoIssue}
        /\ Event("recover", "unknown") \in Events
    BY <1>1, EventTyped DEF TypeOK, Record, Operations, Statuses, States, ContentStates
  <2>3. /\ record' \in [Requests -> Record]
        /\ \A q \in Requests : record'[q].state = record[q].state
    BY <1>1, <1>5, <2>2, ReplaceFrame DEF SweepMigrate, TypeOK
  <2>4. trail' \in [Requests -> Seq(Events)]
    BY <1>5, <2>2 DEF SweepMigrate, IInv, TypeOK
  <2>5. UNCHANGED <<debris, holder, audit, overdue, wire, proc, reopened, mishaps>>
    BY <1>5 DEF SweepMigrate, outside
  <2>6. TypeOK'
    BY <2>3, <2>4, <2>5 DEF IInv, TypeOK
  <2>7. Unspent'
    BY <2>3, <2>5 DEF IInv, Unspent
  <2>8. FocusOf(p)' /\ PhaseOf(p)'
    BY <1>5, <2>5 DEF SweepMigrate, IInv, Focus, FocusOf, PhaseOf, Unsent, At
  <2>9. QED
    BY <2>1, <2>5, <2>6, <2>7, <2>8, LocalStep DEF IInv, LockDiscipline
<1>6. ASSUME NEW r \in Requests, SweepDrain(p, r) PROVE IInv'
  <2>1. holder = p
    BY <1>6, InsideHolds DEF SweepDrain, At, Critical
  <2> DEFINE drain == [proc[p] EXCEPT !.pc = "append", !.at = r, !.then = "sweep"]
  <2>2. proc' = [proc EXCEPT ![p] = drain]
    BY <1>1, <1>6 DEF SweepDrain, TypeOK
  <2>3. /\ drain \in Local /\ drain.pc = "append" /\ drain.at = r /\ drain.then = "sweep"
        /\ drain.target = proc[p].target /\ drain.cmd = proc[p].cmd
    BY <1>1 DEF Local, Labels
  <2> HIDE DEF drain
  <2>4. /\ proc' \in [Procs -> Local] /\ proc'[p] = drain
        /\ \A q \in Procs \ {p} : proc'[q] = proc[q]
    BY <2>2, <2>3 DEF IInv, TypeOK
  <2>5. UNCHANGED <<record, debris, holder, audit, overdue, wire, trail, reopened, mishaps>>
    BY <1>6 DEF SweepDrain, store, outside
  <2>6. TypeOK' /\ Unspent'
    BY <2>4, <2>5 DEF IInv, TypeOK, Unspent
  <2>7. FocusOf(p)' /\ PhaseOf(p)'
    BY <1>6, <2>3, <2>4 DEF SweepDrain, IInv, Focus, FocusOf, PhaseOf, Unsent, At
  <2>8. QED
    BY <2>1, <2>3, <2>4, <2>5, <2>6, <2>7, LocalStep DEF Critical
<1>7. ASSUME NEW r \in Requests, SweepRecover(p, r) PROVE IInv'
  <2>1. holder = p
    BY <1>7, InsideHolds DEF SweepRecover, At, Critical
  <2>2. Event("recover", "unknown") \in Events /\ "unknown" \in States
    BY EventTyped DEF Operations, Statuses, States, ContentStates
  <2>3. QED
    BY <1>1, <1>7, <2>1, <2>2, PublishStep DEF SweepRecover, At
<1>8. ASSUME NEW r \in Requests, SweepExpire(p, r) PROVE IInv'
  <2>1. holder = p
    BY <1>8, InsideHolds DEF SweepExpire, At, Critical
  <2>2. Event("expire", "expired") \in Events /\ "expired" \in States
    BY EventTyped DEF Operations, Statuses, States, TerminalStates
  <2>3. Len(wire[r]) <= reopened[r]
    BY <1>8 DEF SweepExpire, IInv, Unspent
  <2>4. QED
    BY <1>1, <1>8, <2>1, <2>2, <2>3, PublishStep DEF SweepExpire, At
<1>9. QED
  BY <1>2, <1>3, <1>4, <1>5, <1>6, <1>7, <1>8 DEF Recovery

\* create_pending: a fresh id, admitted under the lock the sweep took.
LEMMA IntakeIInv ==
  ASSUME IInv, NEW p \in Procs, Intake(p)
  PROVE  IInv'
<1>1. CASE IntakeRefused(p)
  BY <1>1, EndingIInv
<1>2. ASSUME NEW r \in Requests, Admit(p, r) PROVE IInv'
  <2>1. holder = p
    BY <1>2, InsideHolds DEF Admit, At, Critical
  <2>2. Event("intake", "pending") \in Events /\ "pending" \in States
    BY EventTyped DEF Operations, Statuses, States, ContentStates
  <2>3. Len(wire[r]) <= reopened[r]
    BY <1>2 DEF Admit, IInv, Unspent
  <2>4. reopened \in [Requests -> Nat]
    BY DEF IInv, TypeOK
  <2>5. QED
    BY <1>2, <2>1, <2>2, <2>3, <2>4, PublishStep DEF Admit, At
<1>3. QED
  BY <1>1, <1>2 DEF Intake

\* The snapshot an operator looks at is remembered by the process alone.
LEMMA SnapshotIInv ==
  ASSUME IInv, NEW p \in Procs, NEW c \in Operations, NEW s \in States,
         <<c, s>> \in {<<"approve", "pending">>, <<"resolve-not-created", "unknown">>},
         TakeSnapshot(p, c, s)
  PROVE  IInv'
<1> DEFINE r == proc[p].target
           held == [proc[p] EXCEPT !.pc = "prompt", !.seen = record[r], !.age = Len(trail[r])]
<1>1. r \in Requests /\ At(p, "select") /\ Free /\ proc[p].cmd = c /\ record[r].state = s
  BY DEF TakeSnapshot, Open, At, IInv, Focus, FocusOf
<1>2. proc[p] \in Local /\ record[r] \in Record /\ Len(trail[r]) \in Nat
  BY <1>1 DEF IInv, TypeOK
<1>3. proc' = [proc EXCEPT ![p] = held]
  BY <1>2 DEF TakeSnapshot, IInv, TypeOK
<1>4. /\ held \in Local /\ held.pc = "prompt" /\ held.target = r /\ held.cmd = c
      /\ held.seen.state = s
  BY <1>1, <1>2 DEF Local, Labels
<1> HIDE DEF held
<1>5. /\ proc' \in [Procs -> Local] /\ proc'[p] = held
      /\ \A q \in Procs \ {p} : proc'[q] = proc[q]
  BY <1>3, <1>4 DEF IInv, TypeOK
<1>6. UNCHANGED <<record, debris, holder, audit, overdue, wire, trail, reopened, mishaps>>
  BY DEF TakeSnapshot, store, outside
<1>7. TypeOK' /\ Unspent'
  BY <1>5, <1>6 DEF IInv, TypeOK, Unspent
<1>8. FocusOf(p)' /\ PhaseOf(p)'
  BY <1>1, <1>4, <1>5 DEF FocusOf, PhaseOf, Unsent, At
<1>9. proc'[p].pc \in Critical <=> holder' = p
  BY <1>1, <1>4, <1>5, <1>6, ProcsAssumption DEF Critical, Free
<1>10. QED
  BY <1>1, <1>5, <1>6, <1>7, <1>8, <1>9, LocalStep

\* approve, from its snapshot to the answer of GitHub.
LEMMA ApprovalIInv ==
  ASSUME IInv, NEW p \in Procs, Approval(p)
  PROVE  IInv'
<1>1. /\ proc[p] \in Local /\ audit \in Seq(Lines) /\ reopened \in [Requests -> Nat]
      /\ "approve" \in Operations /\ {"pending"} \in SUBSET States
      /\ States \in SUBSET States
      /\ {"pending", "sending", "unknown", "created", "expired"} \subseteq States
  BY DEF IInv, TypeOK, Operations, States, ContentStates, TerminalStates
<1>2. /\ Event("expire", "expired") \in Events /\ Event("approve", "sending") \in Events
      /\ Event("approve", "error") \in Events /\ Event("approve", "created") \in Events
      /\ Event("approve", "unknown") \in Events
  BY EventTyped DEF Operations, Statuses, States, ContentStates, TerminalStates
<1>3. ASSUME proc[p].pc \in {"preflight", "send", "await"}
      PROVE  holder = p /\ proc[p].target \in Requests /\ PhaseOf(p)
  BY <1>3, InsideHolds DEF Critical, IInv, Focus, FocusOf, Phases
<1>4. CASE TakeSnapshot(p, "approve", "pending")
  BY <1>1, <1>4, SnapshotIInv
<1>5. CASE Refuse(p, "select", "approve", {"pending"}) \/ Refuse(p, "prompt", "approve", States)
  BY <1>1, <1>5, EndingIInv
<1>6. CASE ConfirmApproval(p)
  <2>1. proc[p].target \in Requests /\ Free /\ At(p, "prompt")
    BY <1>6 DEF ConfirmApproval, Open, At, IInv, Focus, FocusOf
  <2>2. record[proc[p].target].state = "pending"
    BY <1>6 DEF ConfirmApproval, Open, At, IInv, Focus, FocusOf
  <2>3. QED
    BY <1>1, <1>6, <2>1, <2>2, ProcsAssumption, MoveStep
    DEF ConfirmApproval, Labels, Critical, At, store, Free
<1>7. CASE PreflightDenied(p)
  BY <1>7, EndingIInv
<1>8. CASE ApproveExpired(p)
  <2>1. holder = p /\ proc[p].target \in Requests /\ PhaseOf(p)
    BY <1>3, <1>8 DEF ApproveExpired, At
  <2>2. Len(wire[proc[p].target]) <= reopened[proc[p].target]
    BY <1>8, <2>1 DEF ApproveExpired, PhaseOf, IInv, Unspent
  <2>3. QED
    BY <1>1, <1>2, <1>8, <2>1, <2>2, PublishStep DEF ApproveExpired, At
<1>9. CASE BeginSend(p)
  <2>1. holder = p /\ proc[p].target \in Requests /\ PhaseOf(p)
    BY <1>3, <1>9 DEF BeginSend, At
  <2>2. Len(wire[proc[p].target]) <= reopened[proc[p].target]
    BY <1>9, <2>1 DEF BeginSend, PhaseOf, IInv, Unspent
  <2>3. QED
    BY <1>1, <1>2, <1>9, <2>1, <2>2, PublishStep DEF BeginSend, At
<1>10. CASE SendNotStarted(p)
  <2>1. holder = p /\ proc[p].target \in Requests /\ PhaseOf(p)
    BY <1>3, <1>10 DEF SendNotStarted, At
  <2>2. Len(wire[proc[p].target]) <= reopened[proc[p].target]
    BY <1>10, <2>1 DEF SendNotStarted, PhaseOf, Unsent
  <2>3. QED
    BY <1>1, <1>2, <1>10, <2>1, <2>2, PublishStep DEF SendNotStarted, At
<1>11. CASE PostBody(p)
  <2> DEFINE r == proc[p].target
  <2>1. holder = p /\ r \in Requests /\ PhaseOf(p)
    BY <1>3, <1>11 DEF PostBody, At
  <2>2. record[r].state = "sending" /\ Len(wire[r]) <= reopened[r]
    BY <1>11, <2>1 DEF PostBody, PhaseOf, Unsent
  <2>3. /\ wire' = [wire EXCEPT ![r] = Append(wire[r], "sent")]
        /\ UNCHANGED <<record, debris, holder, audit, overdue, trail, reopened, mishaps>>
    BY <1>11 DEF PostBody, IInv, TypeOK, store
  <2>4. wire[r] \in Seq(Fates) /\ "sent" \in Fates
    BY <2>1 DEF IInv, TypeOK, Fates
  <2>5. Append(wire[r], "sent") \in Seq(Fates) /\ Len(Append(wire[r], "sent")) = Len(wire[r]) + 1
    BY <2>4
  <2>6. wire' \in [Requests -> Seq(Fates)] /\ wire'[r] = Append(wire[r], "sent")
    BY <2>1, <2>3, <2>5 DEF IInv, TypeOK
  <2>7. proc' = [proc EXCEPT ![p] = [proc[p] EXCEPT !.pc = "await"]]
    BY <1>11 DEF PostBody, Goto, IInv, TypeOK
  <2>8. [proc[p] EXCEPT !.pc = "await"] \in Local
    BY <1>1 DEF Local, Labels
  <2>9. /\ proc' \in [Procs -> Local] /\ proc'[p].pc = "await" /\ proc'[p].target = r
        /\ proc'[p].cmd = proc[p].cmd
        /\ \A q \in Procs \ {p} : proc'[q] = proc[q]
    BY <1>1, <2>7, <2>8 DEF IInv, TypeOK, Local
  <2>10. TypeOK'
    BY <2>3, <2>6, <2>9 DEF IInv, TypeOK
  <2>11. Unspent'
    <3> SUFFICES ASSUME NEW q \in Requests
                 PROVE  /\ Len(wire'[q]) <= reopened'[q] + 1
                        /\ record'[q].state \in {"absent", "pending", "rejected", "expired"} =>
                             Len(wire'[q]) <= reopened'[q]
      BY DEF Unspent
    <3>1. CASE q = r
      <4>1. Len(wire'[r]) = Len(wire[r]) + 1 /\ Len(wire[r]) \in Nat /\ reopened[r] \in Nat
        BY <1>1, <2>1, <2>4, <2>5, <2>6
      <4>2. QED
        BY <2>2, <2>3, <3>1, <4>1
    <3>2. CASE q # r
      BY <2>1, <2>3, <3>2 DEF IInv, TypeOK, Unspent
    <3>3. QED
      BY <3>1, <3>2
  <2>12. FocusOf(p)' /\ PhaseOf(p)'
    <3>1. wire'[r] # <<>>
      BY <2>4, <2>6
    <3>2. QED
      BY <2>1, <2>2, <2>3, <2>9, <3>1 DEF FocusOf, PhaseOf, Unsent, At
  <2>13. QED
    BY <2>1, <2>3, <2>9, <2>10, <2>11, <2>12, LocalStep DEF Critical
<1>12. CASE SendSucceeded(p)
  <2>1. holder = p /\ proc[p].target \in Requests /\ PhaseOf(p)
    BY <1>3, <1>12 DEF SendSucceeded, At
  <2>2. <<proc[p].target, Len(wire[proc[p].target])>> \in Issues
    BY <2>1 DEF Issues, IInv, TypeOK
  <2>3. QED
    BY <1>1, <1>2, <1>12, <2>1, <2>2, PublishStep DEF SendSucceeded, At
<1>13. CASE SendOutcomeUnknown(p)
  <2>1. holder = p /\ proc[p].target \in Requests /\ PhaseOf(p)
    BY <1>3, <1>13 DEF SendOutcomeUnknown, At
  <2>2. QED
    BY <1>1, <1>2, <1>13, <2>1, PublishStep DEF SendOutcomeUnknown, At
<1>14. QED
  BY <1>4, <1>5, <1>6, <1>7, <1>8, <1>9, <1>10, <1>11, <1>12, <1>13 DEF Approval

\* resolve-created and resolve-not-created.
LEMMA ReconciliationIInv ==
  ASSUME IInv, NEW p \in Procs, Reconciliation(p)
  PROVE  IInv'
<1>1. /\ audit \in Seq(Lines) /\ reopened \in [Requests -> Nat]
      /\ {"resolve-created", "resolve-not-created"} \subseteq Operations
      /\ {"unknown"} \in SUBSET States /\ States \in SUBSET States
      /\ {"pending", "unknown", "created"} \subseteq States
  BY DEF IInv, TypeOK, Operations, States, ContentStates, TerminalStates
<1>2. /\ Event("resolve-created", "created") \in Events
      /\ Event("resolve-not-created", "pending") \in Events
  BY EventTyped DEF Operations, Statuses, States, ContentStates, TerminalStates
<1>3. CASE \/ Refuse(p, "select", "resolve-created", {"unknown"})
           \/ Refuse(p, "select", "resolve-not-created", {"unknown"})
           \/ Refuse(p, "prompt", "resolve-not-created", States)
           \/ VerifyFailed(p)
  BY <1>1, <1>3, EndingIInv
<1>4. CASE TakeSnapshot(p, "resolve-not-created", "unknown")
  BY <1>1, <1>4, SnapshotIInv
<1>5. CASE BeginVerify(p)
  <2>1. proc[p].target \in Requests /\ Free /\ At(p, "select")
    BY <1>5 DEF BeginVerify, Open, At, IInv, Focus, FocusOf
  <2>2. QED
    BY <1>1, <1>5, <2>1, ProcsAssumption, MoveStep
    DEF BeginVerify, Labels, Critical, At, store, Free
<1>6. ASSUME NEW q \in Requests, NEW n \in DOMAIN wire[q], VerifyExisting(p, q, n)
      PROVE  IInv'
  <2>1. holder = p /\ proc[p].target \in Requests
    BY <1>6, InsideHolds DEF VerifyExisting, At, Critical, IInv, Focus, FocusOf
  <2>2. <<q, n>> \in Issues
    BY DEF Issues, IInv, TypeOK
  <2>3. QED
    BY <1>1, <1>2, <1>6, <2>1, <2>2, PublishStep DEF VerifyExisting, At
<1>7. CASE ConfirmNotCreated(p)
  <2> DEFINE r == proc[p].target
  <2>1. r \in Requests /\ Free /\ At(p, "prompt")
    BY <1>7 DEF ConfirmNotCreated, Open, At, IInv, Focus, FocusOf
  <2>2. /\ reopened' = [reopened EXCEPT ![r] = reopened[r] + 1]
        /\ reopened[r] \in Nat /\ reopened[r] + 1 \in Nat
    BY <1>1, <1>7, <2>1 DEF ConfirmNotCreated
  <2>3. /\ reopened' \in [Requests -> Nat] /\ reopened'[r] = reopened[r] + 1
        /\ \A q \in Requests : reopened[q] <= reopened'[q]
    BY <1>1, <2>1, <2>2
  <2>4. Len(wire[r]) <= reopened'[r]
    BY <2>1, <2>3 DEF IInv, Unspent
  <2>5. QED
    BY <1>1, <1>2, <1>7, <2>1, <2>3, <2>4, PublishStep DEF ConfirmNotCreated, At
<1>8. QED
  BY <1>3, <1>4, <1>5, <1>6, <1>7 DEF Reconciliation

\* preview, reject, and the refusals at the prompt.
LEMMA InspectionIInv ==
  ASSUME IInv, NEW p \in Procs, Inspection(p)
  PROVE  IInv'
<1>1. /\ {"preview", "reject"} \subseteq Operations
      /\ {"pending"} \in SUBSET States /\ {"pending", "unknown"} \in SUBSET States
  BY DEF Operations, States, ContentStates
<1>2. CASE \/ Preview(p) \/ Refuse(p, "select", "preview", {"pending", "unknown"})
           \/ Refuse(p, "select", "reject", {"pending"}) \/ NoTerminal(p) \/ Decline(p)
           \/ Mismatch(p)
  BY <1>1, <1>2, EndingIInv
<1>3. CASE Reject(p)
  <2> DEFINE r == proc[p].target
  <2>1. r \in Requests /\ Free
    BY <1>3 DEF Reject, Open, At, IInv, Focus, FocusOf
  <2>2. /\ Event("expire", "expired") \in Events /\ Event("reject", "rejected") \in Events
        /\ {"expired", "rejected"} \subseteq States
    BY EventTyped DEF Operations, Statuses, States, TerminalStates
  <2>3. Len(wire[r]) <= reopened[r] /\ reopened \in [Requests -> Nat]
    BY <1>3, <2>1 DEF Reject, IInv, TypeOK, Unspent
  <2> DEFINE s == IF r \in proc[p].clock THEN "expired" ELSE "rejected"
             e == IF r \in proc[p].clock THEN Event("expire", "expired")
                  ELSE Event("reject", "rejected")
  <2>4. /\ Publish(p, r, s, e, NoIssue, "idle") /\ holder' = p /\ ~At(p, "idle")
        /\ UNCHANGED <<audit, outside, reopened, mishaps>>
    BY <1>3 DEF Reject, Open, At
  <2>5. s \in {"expired", "rejected"} /\ s \in States /\ e \in Events
    BY <2>2
  <2> HIDE DEF s, e
  <2>6. /\ reopened' \in [Requests -> Nat]
        /\ \A q \in Requests : reopened[q] <= reopened'[q]
        /\ Len(wire[r]) <= reopened'[r]
    BY <2>1, <2>3, <2>4
  <2>7. QED
    BY <2>1, <2>4, <2>5, <2>6, PublishStep
<1>4. QED
  BY <1>2, <1>3 DEF Inspection

\* Appending and clearing the event a published record carries.
LEMMA OutboxIInv ==
  ASSUME IInv, NEW p \in Procs, Outbox(p)
  PROVE  IInv'
<1>1. CASE AppendRefused(p)
  BY <1>1, EndingIInv
<1>2. ASSUME proc[p].pc \in {"append", "clear"}
      PROVE  /\ holder = p /\ proc[p].at \in Requests /\ record[proc[p].at] \in Record
             /\ proc[p].then \in {"idle", "sweep", "send"} /\ proc[p] \in Local
  BY <1>2, InsideHolds DEF Critical, IInv, TypeOK, Focus, FocusOf
<1>3. CASE AppendAudit(p)
  <2>1. holder = p /\ Line(proc[p].at, record[proc[p].at].marker) \in Lines
    BY <1>2, <1>3 DEF AppendAudit, At, Line, Lines, Record, Events
  <2>2. audit' \in Seq(Lines)
    BY <1>3, <2>1 DEF AppendAudit, IInv, TypeOK
  <2>3. QED
    BY <1>3, <2>1, <2>2, MoveStep DEF AppendAudit, Labels, Critical, At, store, IInv, TypeOK
<1>4. CASE ClearMarker(p)
  <2> DEFINE r == proc[p].at
  <2>1. holder = p /\ r \in Requests /\ record[r] \in Record /\ proc[p] \in Local
    BY <1>2, <1>4 DEF ClearMarker, At
  <2>2. NoEvent \in Events
    BY EventTyped DEF NoEvent, Operations, Statuses
  <2>3. /\ record' \in [Requests -> Record]
        /\ \A q \in Requests : record'[q].state = record[q].state
    <3>1. record[r].state \in States /\ record[r].issue \in Issues \cup {NoIssue}
      BY <2>1 DEF Record
    <3>2. Replace(r, record[r].state, NoEvent, record[r].issue)
      BY <1>4 DEF ClearMarker
    <3>3. record \in [Requests -> Record]
      BY DEF IInv, TypeOK
    <3>4. record' \in [Requests -> Record] /\ record'[r].state = record[r].state
          /\ \A q \in Requests \ {r} : record'[q] = record[q]
      BY <2>1, <2>2, <3>1, <3>2, <3>3, ReplaceFrame
    <3>5. QED
      BY <3>4
  <2>4. UNCHANGED <<debris, audit, overdue, wire, trail, reopened, mishaps>>
    BY <1>4 DEF ClearMarker, outside, history
  <2>5. Unspent'
    BY <2>3, <2>4 DEF IInv, Unspent
  <2>6. CASE proc[p].then = "idle"
    <3>1. Finish(p) /\ Release(p)
      BY <1>4, <2>6 DEF ClearMarker
    <3>2. /\ proc' \in [Procs -> Local] /\ proc'[p] = Idle /\ holder' = NoProc
          /\ \A q \in Procs \ {p} : proc'[q] = proc[q]
      BY <2>1, <3>1, FinishFrame DEF IInv, Release
    <3>3. TypeOK'
      BY <2>3, <2>4, <3>2 DEF IInv, TypeOK
    <3>4. FocusOf(p)' /\ PhaseOf(p)'
      BY <3>2 DEF FocusOf, PhaseOf, Unsent, At, Idle
    <3>5. /\ proc'[p].pc \in Critical <=> holder' = p
          /\ \A q \in Procs \ {p} : holder' = q <=> holder = q
      BY <2>1, <3>2, ProcsAssumption DEF Idle, Critical
    <3>6. QED
      BY <2>1, <2>5, <3>2, <3>3, <3>4, <3>5, LocalStep
  <2>7. CASE proc[p].then # "idle"
    <3> DEFINE to == proc[p].then
    <3>1. to \in {"sweep", "send"} /\ holder' = holder
          /\ proc' = [proc EXCEPT ![p] = [proc[p] EXCEPT !.pc = to]]
      BY <1>2, <1>4, <2>7 DEF ClearMarker, At, Goto, IInv, TypeOK
    <3>2. [proc[p] EXCEPT !.pc = to] \in Local
      BY <2>1, <3>1 DEF Local, Labels
    <3>3. /\ proc' \in [Procs -> Local] /\ proc'[p].pc = to
          /\ proc'[p].target = proc[p].target /\ proc'[p].cmd = proc[p].cmd
          /\ \A q \in Procs \ {p} : proc'[q] = proc[q]
      BY <2>1, <3>1, <3>2 DEF IInv, TypeOK, Local
    <3>4. TypeOK'
      BY <2>3, <2>4, <3>1, <3>3 DEF IInv, TypeOK
    <3>5. FocusOf(p)'
      BY <1>4, <3>1, <3>3 DEF ClearMarker, At, IInv, Focus, FocusOf
    <3>6. PhaseOf(p)'
      BY <1>4, <2>1, <2>3, <2>4, <3>1, <3>3
      DEF ClearMarker, At, IInv, Focus, FocusOf, Phases, PhaseOf, Unsent
    <3>7. QED
      BY <2>1, <2>5, <3>1, <3>3, <3>4, <3>5, <3>6, LocalStep DEF Critical
  <2>8. QED
    BY <2>6, <2>7
<1>5. QED
  BY <1>1, <1>3, <1>4 DEF Outbox

\* GitHub settles a POST; a request's 24 hours run out.
LEMMA EnvironmentIInv ==
  ASSUME IInv, GitHub \/ \E r \in Requests : Lapse(r)
  PROVE  IInv'
<1>1. CASE GitHub
  <2>0. PICK r \in Requests :
          \E n \in DOMAIN wire[r], fate \in {"landed", "lost"} : Settle(r, n, fate)
    BY <1>1 DEF GitHub
  <2>1. PICK n \in DOMAIN wire[r], fate \in {"landed", "lost"} : Settle(r, n, fate)
    BY <2>0
  <2>2. /\ wire' = [wire EXCEPT ![r] = [wire[r] EXCEPT ![n] = fate]]
        /\ UNCHANGED <<record, debris, holder, audit, overdue, proc, trail, reopened, mishaps>>
    BY <2>1 DEF Settle, history, IInv, TypeOK
  <2>3. /\ wire[r] \in Seq(Fates) /\ fate \in Fates
    BY DEF IInv, TypeOK, Fates
  <2>4. /\ [wire[r] EXCEPT ![n] = fate] \in Seq(Fates)
        /\ Len([wire[r] EXCEPT ![n] = fate]) = Len(wire[r])
        /\ wire[r] # <<>> /\ [wire[r] EXCEPT ![n] = fate] # <<>>
    BY <2>3
  <2>5. /\ wire' \in [Requests -> Seq(Fates)]
        /\ \A q \in Requests : Len(wire'[q]) = Len(wire[q]) /\ (wire[q] # <<>> => wire'[q] # <<>>)
    BY <2>2, <2>4 DEF IInv, TypeOK
  <2>6. TypeOK'
    BY <2>2, <2>5 DEF IInv, TypeOK
  <2>7. Unspent'
    BY <2>2, <2>5 DEF IInv, Unspent
  <2>8. LockDiscipline' /\ Focus'
    BY <2>2 DEF IInv, LockDiscipline, Focus, FocusOf
  <2>9. ASSUME NEW p \in Procs PROVE PhaseOf(p)'
    BY <2>2, <2>5 DEF IInv, Focus, FocusOf, Phases, PhaseOf, Unsent, At
  <2>10. QED
    BY <2>6, <2>7, <2>8, <2>9 DEF IInv, Phases
<1>2. CASE \E r \in Requests : Lapse(r)
  <2>1. /\ overdue' \subseteq Requests
        /\ UNCHANGED <<record, debris, holder, audit, wire, proc, trail, reopened, mishaps>>
    BY <1>2 DEF Lapse, history, IInv, TypeOK
  <2>2. TypeOK'
    BY <2>1 DEF IInv, TypeOK
  <2>3. Unspent' /\ LockDiscipline' /\ Focus'
    BY <2>1 DEF IInv, Unspent, LockDiscipline, Focus, FocusOf
  <2>4. Phases'
    BY <2>1 DEF IInv, Phases, PhaseOf, Unsent, At
  <2>5. QED
    BY <2>2, <2>3, <2>4 DEF IInv
<1>3. QED
  BY <1>1, <1>2

-----------------------------------------------------------------------------
(* The theorems                                                            *)

\* The invariant is inductive: no step of any process, of GitHub or of the clock breaks it.
LEMMA NextIInv == IInv /\ [Next]_vars => IInv'
<1> SUFFICES ASSUME IInv, [Next]_vars PROVE IInv'
  OBVIOUS
<1>1. ASSUME NEW p \in Procs, Launch(p) PROVE IInv'
  BY <1>1, StartIInv DEF Launch
<1>2. ASSUME NEW p \in Procs, Step(p) PROVE IInv'
  BY <1>2, RecoveryIInv, IntakeIInv, ApprovalIInv, ReconciliationIInv, InspectionIInv, OutboxIInv
  DEF Step
<1>3. ASSUME NEW p \in Procs, Abandon(p) PROVE IInv'
  BY <1>3, EndingIInv
<1>4. CASE GitHub \/ \E r \in Requests : Lapse(r)
  BY <1>4, EnvironmentIInv
<1>5. CASE UNCHANGED vars
  BY <1>5 DEF vars, IInv, TypeOK, LockDiscipline, Focus, FocusOf, Phases, PhaseOf, Unsent, At,
     Unspent
<1>6. QED
  BY <1>1, <1>2, <1>3, <1>4, <1>5 DEF Next

\* Every reachable state satisfies the inductive invariant (all of family_pending.py's
\* transitions, with crashes).
THEOREM InvariantHolds == Spec => []IInv
  BY InitIInv, NextIInv, PTL DEF Spec

\* The types hold in every reachable state.
THEOREM TypeCorrect == Spec => []TypeOK
<1>1. IInv => TypeOK
  BY DEF IInv
<1>2. QED
  BY <1>1, InvariantHolds, PTL

\* The send budget holds for any number of requests, processes, crashes and recoveries:
\* one POST body per request, and one more per not-created decision of an operator.
THEOREM SendsStayInBudget == Spec => []SendBudget
<1>1. IInv => SendBudget
  BY DEF IInv, Unspent, SendBudget
<1>2. QED
  BY <1>1, InvariantHolds, PTL

\* A sender is alone in the store and its record says sending (approve_family_issue keeps
\* .pending.lock across creator.create).
THEOREM SendersAreAlone == Spec => []SenderIsAlone
<1>1. IInv => SenderIsAlone
  <2> SUFFICES ASSUME IInv, NEW p \in Procs, proc[p].pc \in {"send", "await"}
               PROVE  /\ record[proc[p].target].state = "sending"
                      /\ \A q \in Procs \ {p} :
                           proc[q].pc \in {"idle", "startup", "select", "prompt"}
    BY DEF SenderIsAlone
  <2>1. record[proc[p].target].state = "sending"
    BY DEF IInv, Phases, PhaseOf, Unsent, At
  <2>2. ASSUME NEW q \in Procs \ {p}
        PROVE  proc[q].pc \in {"idle", "startup", "select", "prompt"}
    <3>1. proc[q].pc \notin Critical
      BY DEF IInv, LockDiscipline, Critical
    <3>2. proc[q].pc \in Labels
      BY DEF IInv, TypeOK, Local
    <3>3. QED
      BY <3>1, <3>2 DEF Critical, Labels
  <2>3. QED
    BY <2>1, <2>2
<1>2. QED
  BY <1>1, InvariantHolds, PTL


-----------------------------------------------------------------------------
(* What a step can be, whoever takes it                                    *)

\* The event of a transition to state s: neither a note nor one of the two empty markers.
Fits(s, e) ==
  /\ Outcome(e) = s /\ e \notin {NoEvent, LegacyBit}
  /\ \A r \in Requests : ~IsNote(Line(r, e))

\* Why a record may go from its state to s, with issue number n.
Reason(p, r, s, n) ==
  \/ record[r].state = "absent" /\ s = "pending" /\ Cardinality(Unfinished) < MaxUnfinished
     /\ UNCHANGED reopened
  \/ record[r].state = "pending" /\ s \in {"rejected", "expired", "sending"} /\ UNCHANGED reopened
  \/ record[r].state = "sending" /\ s = "pending" /\ At(p, "send") /\ r = proc[p].target
     /\ UNCHANGED reopened
  \/ record[r].state = "sending" /\ s = "unknown" /\ UNCHANGED reopened
  \/ record[r].state = "sending" /\ s = "created" /\ wire[r] # <<>>
     /\ wire[r][Len(wire[r])] = "landed" /\ n = <<r, Len(wire[r])>> /\ UNCHANGED reopened
  \/ record[r].state = "unknown" /\ s = "created" /\ UNCHANGED reopened
     /\ \E q \in Requests : \E m \in Landed(q) : n = <<q, m>> /\ Canonical[q] = Canonical[r]
  \/ record[r].state = "unknown" /\ s = "pending" /\ (CarefulOperator => AllLost(r))
     /\ reopened' = [reopened EXCEPT ![r] = reopened[r] + 1]

Publishes(p, r, s, e, n, resume) ==
  /\ Publish(p, r, s, e, n, resume)
  /\ UNCHANGED <<audit, wire>>
  /\ holder = p \/ Free
  /\ Fits(s, e) /\ Reason(p, r, s, n)
  /\ resume = "send" => r = proc[p].target /\ s = "sending" /\ e = Event("approve", "sending")
  /\ record[r].state = "unknown" /\ s = "created" => e = Event("resolve-created", "created")

Publishing ==
  \E p \in Procs, r \in Requests, s \in States, e \in Events, n \in Issues \cup {NoIssue},
     resume \in {"idle", "sweep", "send"} : Publishes(p, r, s, e, n, resume)

\* An audit line, if any is written, is a note.
Spoken ==
  \/ UNCHANGED audit
  \/ \E r \in Requests, e \in Events :
       IsNote(Line(r, e)) /\ audit' = Append(audit, Line(r, e))

\* A step that leaves records and POSTs alone and brings no process nearer to a send.
Aside ==
  /\ UNCHANGED <<record, wire, trail, reopened>> /\ Spoken
  /\ \A p \in Procs :
       \/ proc'[p] = proc[p]
       \/ proc'[p].pc \notin {"append", "clear", "send"}
       \/ /\ proc'[p].pc = "append" /\ proc'[p].then = "sweep" /\ proc'[p].at \in Requests
          /\ record[proc'[p].at].marker \notin {NoEvent, LegacyBit}

\* The steps that are neither.
Migrating == \E p \in Procs, r \in Requests : SweepMigrate(p, r)
Appending == \E p \in Procs : AppendAudit(p)
Clearing == \E p \in Procs : ClearMarker(p)
Posting == \E p \in Procs : PostBody(p)

Kinds == Publishing \/ Aside \/ Migrating \/ Appending \/ Clearing \/ Posting \/ GitHub

\* A refused command is noted in the audit, or the audit file is full.
LEMMA NoteSpoken ==
  ASSUME NEW r \in Requests, NEW e \in Events, Note(r, e), IsNote(Line(r, e))
  PROVE  Spoken
  BY DEF Note, Spoken

\* A process that ends without touching the store.
LEMMA FinishAside ==
  ASSUME IInv, NEW p \in Procs, Finish(p), UNCHANGED <<record, wire, trail, reopened>>, Spoken
  PROVE  Aside
<1>1. /\ proc'[p].pc = "idle"
      /\ \A q \in Procs \ {p} : proc'[q] = proc[q]
  BY FinishFrame DEF IInv, Idle
<1>2. QED
  BY <1>1 DEF Aside

\* A process that goes on to a step that neither writes nor sends.
LEMMA MoveAside ==
  ASSUME IInv, NEW p \in Procs, NEW to \in Labels \ {"append", "clear", "send"},
         proc'[p].pc = to, \A q \in Procs \ {p} : proc'[q] = proc[q],
         UNCHANGED <<audit, record, wire, trail, reopened>>
  PROVE  Aside
  BY DEF Aside, Spoken

\* Every ending of a command is a step aside.
LEMMA EndingAside ==
  ASSUME IInv, NEW p \in Procs,
         \/ AuditBusy(p) \/ InventoryRefused(p) \/ IntakeRefused(p) \/ AppendRefused(p)
         \/ \E label \in {"select", "prompt"}, c \in Operations, ss \in SUBSET States :
              Refuse(p, label, c, ss)
         \/ NoTerminal(p) \/ Decline(p) \/ Mismatch(p) \/ Preview(p) \/ PreflightDenied(p) \/ VerifyFailed(p)
         \/ Abandon(p)
  PROVE  Aside
<1>1. CASE \/ AuditBusy(p) \/ InventoryRefused(p) \/ IntakeRefused(p) \/ AppendRefused(p) \/ Abandon(p)
           \/ \E label \in {"select", "prompt"}, c \in Operations, ss \in SUBSET States :
                Refuse(p, label, c, ss)
  BY <1>1, FinishAside
  DEF AuditBusy, InventoryRefused, IntakeRefused, AppendRefused, Abandon, Refuse, store, outside, Spoken
<1>2. CASE NoTerminal(p) \/ Decline(p)
  <2>1. /\ proc[p].target \in Requests /\ proc[p].cmd \in Operations
    BY <1>2 DEF NoTerminal, Decline, At, IInv, Focus, FocusOf, Operations
  <2>2. Event(proc[p].cmd, "denied") \in Events
    BY <2>1, EventTyped DEF Statuses
  <2>3. IsNote(Line(proc[p].target, Event(proc[p].cmd, "denied")))
    BY DEF IsNote, Line, Event
  <2>4. Spoken
    BY <1>2, <2>1, <2>2, <2>3, NoteSpoken DEF NoTerminal, Decline
  <2>5. QED
    BY <1>2, <2>4, FinishAside DEF NoTerminal, Decline, store, outside
<1>3. CASE Mismatch(p) \/ PreflightDenied(p) \/ VerifyFailed(p)
  <2>1. proc[p].target \in Requests
    BY <1>3 DEF Mismatch, PreflightDenied, VerifyFailed, At, IInv, Focus, FocusOf
  <2>2. Event("approve", "denied") \in Events /\ Event("resolve-created", "error") \in Events
    BY EventTyped DEF Statuses, Operations
  <2>3. /\ IsNote(Line(proc[p].target, Event("approve", "denied")))
        /\ IsNote(Line(proc[p].target, Event("resolve-created", "error")))
    BY DEF IsNote, Line, Event
  <2>4. Spoken
    <3>1. \/ Note(proc[p].target, Event("approve", "denied"))
          \/ Note(proc[p].target, Event("resolve-created", "error"))
          \/ UNCHANGED audit
      BY <1>3 DEF Mismatch, PreflightDenied, VerifyFailed
    <3>2. QED
      BY <2>1, <2>2, <2>3, <3>1, NoteSpoken DEF Spoken
  <2>5. QED
    BY <1>3, <2>4, FinishAside DEF Mismatch, PreflightDenied, VerifyFailed, store, outside
<1>4. CASE Preview(p)
  <2>1. proc[p].target \in Requests
    BY <1>4 DEF Preview, Open, At, IInv, Focus, FocusOf
  <2>2. record[proc[p].target].state \in {"pending", "unknown"}
    BY <1>4 DEF Preview
  <2>3. Event("preview", record[proc[p].target].state) \in Events
    BY <2>2, EventTyped DEF Statuses, Operations, States, ContentStates
  <2>4. IsNote(Line(proc[p].target, Event("preview", record[proc[p].target].state)))
    BY DEF IsNote, Line, Event
  <2>5. Spoken
    BY <1>4, <2>1, <2>3, <2>4, NoteSpoken DEF Preview
  <2>6. QED
    BY <1>4, <2>5, FinishAside DEF Preview, store, outside
<1>5. QED
  BY <1>1, <1>2, <1>3, <1>4

\* The events of the transitions, each with the state it leads to.
LEMMA EventsFit ==
  /\ Fits("pending", Event("intake", "pending"))
  /\ Fits("pending", Event("approve", "error"))
  /\ Fits("pending", Event("resolve-not-created", "pending"))
  /\ Fits("sending", Event("approve", "sending"))
  /\ Fits("unknown", Event("approve", "unknown"))
  /\ Fits("unknown", Event("recover", "unknown"))
  /\ Fits("created", Event("approve", "created"))
  /\ Fits("created", Event("resolve-created", "created"))
  /\ Fits("rejected", Event("reject", "rejected"))
  /\ Fits("expired", Event("expire", "expired"))
  BY DEF Fits, Outcome, Event, NoEvent, LegacyBit, IsNote, Line

\* They are events, and their states are states.
LEMMA EventsTyped ==
  /\ {"pending", "sending", "unknown", "created", "rejected", "expired"} \subseteq States
  /\ Event("intake", "pending") \in Events /\ Event("approve", "error") \in Events
  /\ Event("resolve-not-created", "pending") \in Events
  /\ Event("approve", "sending") \in Events /\ Event("approve", "unknown") \in Events
  /\ Event("recover", "unknown") \in Events /\ Event("approve", "created") \in Events
  /\ Event("resolve-created", "created") \in Events
  /\ Event("reject", "rejected") \in Events /\ Event("expire", "expired") \in Events
  BY EventTyped DEF Operations, Statuses, States, ContentStates, TerminalStates

\* The sweep and the intake.
LEMMA RecoveryKinds ==
  ASSUME IInv, NEW p \in Procs, Recovery(p) \/ Intake(p)
  PROVE  Kinds
<1>0. proc[p] \in Local /\ proc \in [Procs -> Local]
  BY DEF IInv, TypeOK
<1>1. CASE AuditBusy(p) \/ InventoryRefused(p) \/ IntakeRefused(p)
  BY <1>1, EndingAside DEF Kinds
<1>2. CASE BeginSweep(p)
  <2>1. proc'[p].pc = "sweep" /\ \A q \in Procs \ {p} : proc'[q] = proc[q]
    BY <1>0, <1>2 DEF BeginSweep, Goto, Local
  <2>2. QED
    BY <1>2, <2>1, MoveAside DEF BeginSweep, store, outside, Labels, Kinds
<1>3. CASE EndSweep(p)
  <2>1. /\ proc'[p].pc \in {"idle", "admit", "select"}
        /\ \A q \in Procs \ {p} : proc'[q] = proc[q]
    <3>1. CASE proc[p].cmd = "intake"
      BY <1>0, <1>3, <3>1 DEF EndSweep, Goto, Local
    <3>2. CASE proc[p].cmd = "start"
      BY <1>0, <1>3, <3>2, FinishFrame DEF EndSweep, IInv, Idle
    <3>3. CASE proc[p].cmd \notin {"start", "intake"}
      BY <1>0, <1>3, <3>3 DEF EndSweep, Local
    <3>4. QED
      BY <3>1, <3>2, <3>3
  <2>2. QED
    BY <1>3, <2>1, MoveAside DEF EndSweep, store, outside, Labels, Kinds
<1>4. ASSUME NEW r \in Requests, SweepMigrate(p, r) PROVE Kinds
  BY <1>4 DEF Kinds, Migrating
<1>5. ASSUME NEW r \in Requests, SweepDrain(p, r) PROVE Kinds
  <2>1. /\ proc'[p].pc = "append" /\ proc'[p].at = r /\ proc'[p].then = "sweep"
        /\ \A q \in Procs \ {p} : proc'[q] = proc[q]
    BY <1>0, <1>5 DEF SweepDrain, Local
  <2>2. record[r].marker \notin {NoEvent, LegacyBit}
    BY <1>5 DEF SweepDrain
  <2>3. UNCHANGED <<audit, record, wire, trail, reopened>>
    BY <1>5 DEF SweepDrain, store, outside
  <2>4. Aside
    BY <2>1, <2>2, <2>3 DEF Aside, Spoken
  <2>5. QED
    BY <2>4 DEF Kinds
<1>6. ASSUME NEW r \in Requests, SweepRecover(p, r) PROVE Kinds
  <2>1. Publishes(p, r, "unknown", Event("recover", "unknown"), NoIssue, "sweep")
    BY <1>6, InsideHolds, EventsFit DEF SweepRecover, Publishes, Reason, At, Critical, outside
  <2>2. QED
    BY <2>1, EventsTyped DEF Kinds, Publishing
<1>7. ASSUME NEW r \in Requests, SweepExpire(p, r) PROVE Kinds
  <2>1. Publishes(p, r, "expired", Event("expire", "expired"), NoIssue, "sweep")
    BY <1>7, InsideHolds, EventsFit DEF SweepExpire, Publishes, Reason, At, Critical, outside
  <2>2. QED
    BY <2>1, EventsTyped DEF Kinds, Publishing
<1>8. ASSUME NEW r \in Requests, Admit(p, r) PROVE Kinds
  <2>1. Publishes(p, r, "pending", Event("intake", "pending"), NoIssue, "idle")
    BY <1>8, InsideHolds, EventsFit DEF Admit, Publishes, Reason, At, Critical, outside
  <2>2. QED
    BY <2>1, EventsTyped DEF Kinds, Publishing
<1>9. QED
  BY <1>1, <1>2, <1>3, <1>4, <1>5, <1>6, <1>7, <1>8 DEF Recovery, Intake

\* A snapshot is taken and a prompt opened.
LEMMA SnapshotAside ==
  ASSUME IInv, NEW p \in Procs, NEW c, NEW s, TakeSnapshot(p, c, s)
  PROVE  Aside
<1>1. /\ proc'[p].pc = "prompt"
      /\ \A q \in Procs \ {p} : proc'[q] = proc[q]
  BY DEF TakeSnapshot, IInv, TypeOK, Local
<1>2. QED
  BY <1>1, MoveAside DEF TakeSnapshot, store, outside, Labels

\* approve.
LEMMA ApprovalKinds ==
  ASSUME IInv, NEW p \in Procs, Approval(p)
  PROVE  Kinds
<1> DEFINE r == proc[p].target
<1>0. /\ proc[p] \in Local /\ proc \in [Procs -> Local]
      /\ "approve" \in Operations /\ {"pending"} \in SUBSET States
      /\ States \in SUBSET States
  BY DEF IInv, TypeOK, Operations, States, ContentStates
<1>1. ASSUME proc[p].pc \in {"preflight", "send", "await"}
      PROVE  holder = p /\ r \in Requests /\ PhaseOf(p)
  BY <1>1, InsideHolds DEF Critical, IInv, Focus, FocusOf, Phases
<1>2. CASE TakeSnapshot(p, "approve", "pending")
  BY <1>2, SnapshotAside DEF Kinds
<1>3. CASE \/ Refuse(p, "select", "approve", {"pending"}) \/ Refuse(p, "prompt", "approve", States)
           \/ PreflightDenied(p)
  BY <1>0, <1>3, EndingAside DEF Kinds
<1>4. CASE ConfirmApproval(p)
  <2>1. proc'[p].pc = "preflight" /\ \A q \in Procs \ {p} : proc'[q] = proc[q]
    BY <1>0, <1>4 DEF ConfirmApproval, Goto, Local
  <2>2. QED
    BY <1>4, <2>1, MoveAside DEF ConfirmApproval, store, outside, Labels, Kinds
<1>5. CASE ApproveExpired(p)
  <2>1. holder = p /\ r \in Requests /\ record[r].state = "pending"
    BY <1>1, <1>5 DEF ApproveExpired, At, PhaseOf
  <2>2. Publishes(p, r, "expired", Event("expire", "expired"), NoIssue, "idle")
    BY <1>5, <2>1, EventsFit DEF ApproveExpired, Publishes, Reason, outside
  <2>3. QED
    BY <2>1, <2>2, EventsTyped DEF Kinds, Publishing
<1>6. CASE BeginSend(p)
  <2>1. holder = p /\ r \in Requests /\ record[r].state = "pending"
    BY <1>1, <1>6 DEF BeginSend, At, PhaseOf
  <2>2. Publishes(p, r, "sending", Event("approve", "sending"), NoIssue, "send")
    BY <1>6, <2>1, EventsFit DEF BeginSend, Publishes, Reason, outside
  <2>3. QED
    BY <2>1, <2>2, EventsTyped DEF Kinds, Publishing
<1>7. CASE SendNotStarted(p)
  <2>1. holder = p /\ r \in Requests /\ record[r].state = "sending"
    BY <1>1, <1>7 DEF SendNotStarted, At, PhaseOf, Unsent
  <2>2. Publishes(p, r, "pending", Event("approve", "error"), NoIssue, "idle")
    BY <1>7, <2>1, EventsFit DEF SendNotStarted, Publishes, Reason, outside
  <2>3. QED
    BY <2>1, <2>2, EventsTyped DEF Kinds, Publishing
<1>8. CASE PostBody(p)
  BY <1>8 DEF Kinds, Posting
<1>9. CASE SendSucceeded(p)
  <2>1. holder = p /\ r \in Requests /\ record[r].state = "sending" /\ wire[r] # <<>>
    BY <1>1, <1>9 DEF SendSucceeded, At, PhaseOf
  <2>2. <<r, Len(wire[r])>> \in Issues
    BY <2>1 DEF Issues, IInv, TypeOK
  <2>3. Publishes(p, r, "created", Event("approve", "created"), <<r, Len(wire[r])>>, "idle")
    BY <1>9, <2>1, EventsFit DEF SendSucceeded, Publishes, Reason, outside
  <2>4. QED
    BY <2>1, <2>2, <2>3, EventsTyped DEF Kinds, Publishing
<1>10. CASE SendOutcomeUnknown(p)
  <2>1. holder = p /\ r \in Requests /\ record[r].state = "sending"
    BY <1>1, <1>10 DEF SendOutcomeUnknown, At, PhaseOf
  <2>2. Publishes(p, r, "unknown", Event("approve", "unknown"), NoIssue, "idle")
    BY <1>10, <2>1, EventsFit DEF SendOutcomeUnknown, Publishes, Reason, outside
  <2>3. QED
    BY <2>1, <2>2, EventsTyped DEF Kinds, Publishing
<1>11. QED
  BY <1>2, <1>3, <1>4, <1>5, <1>6, <1>7, <1>8, <1>9, <1>10 DEF Approval

\* resolve-created, resolve-not-created, preview and reject.
LEMMA ResolutionKinds ==
  ASSUME IInv, NEW p \in Procs, Reconciliation(p) \/ Inspection(p)
  PROVE  Kinds
<1> DEFINE r == proc[p].target
<1>0. /\ proc[p] \in Local /\ proc \in [Procs -> Local] /\ reopened \in [Requests -> Nat]
      /\ {"resolve-created", "resolve-not-created", "preview", "reject"} \subseteq Operations
      /\ {"pending"} \in SUBSET States /\ {"unknown"} \in SUBSET States
      /\ {"pending", "unknown"} \in SUBSET States /\ States \in SUBSET States
  BY DEF IInv, TypeOK, Operations, States, ContentStates
<1>1. CASE \/ Refuse(p, "select", "resolve-created", {"unknown"})
           \/ Refuse(p, "select", "resolve-not-created", {"unknown"})
           \/ Refuse(p, "prompt", "resolve-not-created", States) \/ VerifyFailed(p)
           \/ Preview(p) \/ Refuse(p, "select", "preview", {"pending", "unknown"})
           \/ Refuse(p, "select", "reject", {"pending"}) \/ NoTerminal(p) \/ Decline(p)
           \/ Mismatch(p)
  BY <1>0, <1>1, EndingAside DEF Kinds
<1>2. CASE TakeSnapshot(p, "resolve-not-created", "unknown")
  BY <1>2, SnapshotAside DEF Kinds
<1>3. CASE BeginVerify(p)
  <2>1. proc'[p].pc = "verify" /\ \A q \in Procs \ {p} : proc'[q] = proc[q]
    BY <1>0, <1>3 DEF BeginVerify, Goto, Local
  <2>2. QED
    BY <1>3, <2>1, MoveAside DEF BeginVerify, store, outside, Labels, Kinds
<1>4. ASSUME NEW q \in Requests, NEW n \in DOMAIN wire[q], VerifyExisting(p, q, n)
      PROVE  Kinds
  <2>1. holder = p /\ r \in Requests /\ record[r].state = "unknown"
    BY <1>4, InsideHolds DEF VerifyExisting, At, Critical, IInv, Focus, FocusOf, Phases, PhaseOf
  <2>2. <<q, n>> \in Issues /\ n \in Landed(q)
    BY <1>4 DEF Issues, IInv, TypeOK, VerifyExisting, Landed
  <2>3. Reason(p, r, "created", <<q, n>>)
    BY <1>4, <2>1, <2>2 DEF Reason, VerifyExisting
  <2>4. Publishes(p, r, "created", Event("resolve-created", "created"), <<q, n>>, "idle")
    BY <1>4, <2>1, <2>3, EventsFit DEF VerifyExisting, Publishes, outside
  <2>5. QED
    BY <2>1, <2>2, <2>4, EventsTyped DEF Kinds, Publishing
<1>5. CASE ConfirmNotCreated(p)
  <2>1. r \in Requests /\ Free /\ record[r].state = "unknown"
    BY <1>5 DEF ConfirmNotCreated, Open, At, IInv, Focus, FocusOf
  <2>2. Reason(p, r, "pending", NoIssue)
    BY <1>5, <2>1 DEF Reason, ConfirmNotCreated, AllLost
  <2>3. Publishes(p, r, "pending", Event("resolve-not-created", "pending"), NoIssue, "idle")
    BY <1>5, <2>1, <2>2, EventsFit DEF ConfirmNotCreated, Publishes, outside
  <2>4. QED
    BY <2>1, <2>3, EventsTyped DEF Kinds, Publishing
<1>6. CASE Reject(p)
  <2>1. r \in Requests /\ Free /\ record[r].state = "pending"
    BY <1>6 DEF Reject, Open, At, IInv, Focus, FocusOf
  <2>2. \/ Publishes(p, r, "expired", Event("expire", "expired"), NoIssue, "idle")
        \/ Publishes(p, r, "rejected", Event("reject", "rejected"), NoIssue, "idle")
    BY <1>6, <2>1, EventsFit DEF Reject, Publishes, Reason, outside
  <2>3. QED
    BY <2>1, <2>2, EventsTyped DEF Kinds, Publishing
<1>7. QED
  BY <1>1, <1>2, <1>3, <1>4, <1>5, <1>6 DEF Reconciliation, Inspection

\* Every step is of one of the kinds.
LEMMA StepKinds == IInv /\ Next => Kinds
<1> SUFFICES ASSUME IInv, Next PROVE Kinds
  OBVIOUS
<1>1. ASSUME NEW p \in Procs, Launch(p) PROVE Kinds
  <2>1. /\ proc'[p].pc = "startup" /\ \A q \in Procs \ {p} : proc'[q] = proc[q]
        /\ UNCHANGED <<audit, record, wire, trail, reopened>>
    BY <1>1 DEF Launch, Start, IInv, TypeOK, Idle, store, outside
  <2>2. QED
    BY <2>1, MoveAside DEF Labels, Kinds
<1>2. ASSUME NEW p \in Procs, Step(p) PROVE Kinds
  <2>1. CASE Recovery(p) \/ Intake(p)
    BY <2>1, RecoveryKinds
  <2>2. CASE Approval(p)
    BY <2>2, ApprovalKinds
  <2>3. CASE Reconciliation(p) \/ Inspection(p)
    BY <2>3, ResolutionKinds
  <2>4. CASE AppendRefused(p)
    BY <2>4, EndingAside DEF Kinds
  <2>5. CASE AppendAudit(p) \/ ClearMarker(p)
    BY <2>5 DEF Kinds, Appending, Clearing
  <2>6. QED
    BY <1>2, <2>1, <2>2, <2>3, <2>4, <2>5 DEF Step, Outbox
<1>3. ASSUME NEW p \in Procs, Abandon(p) PROVE Kinds
  BY <1>3, EndingAside DEF Kinds
<1>4. CASE GitHub
  BY <1>4 DEF Kinds
<1>5. ASSUME NEW r \in Requests, Lapse(r) PROVE Kinds
  <2>1. UNCHANGED <<proc, audit, record, wire, trail, reopened>>
    BY <1>5 DEF Lapse, history
  <2>2. Aside
    BY <2>1 DEF Aside, Spoken
  <2>3. QED
    BY <2>2 DEF Kinds
<1>6. QED
  BY <1>1, <1>2, <1>3, <1>4, <1>5 DEF Next

-----------------------------------------------------------------------------
(* What a step of each kind changes                                        *)

\* Nothing but the record of r, its history and the process changes when p publishes.
LEMMA PublishesFrame ==
  ASSUME IInv, NEW p \in Procs, NEW r \in Requests, NEW s \in States, NEW e \in Events,
         NEW n \in Issues \cup {NoIssue}, NEW resume \in {"idle", "sweep", "send"},
         Publishes(p, r, s, e, n, resume)
  PROVE  /\ record' \in [Requests -> Record]
         /\ record'[r].state = s /\ record'[r].marker = e /\ record'[r].issue = n
         /\ \A q \in Requests \ {r} : record'[q] = record[q]
         /\ Quiet(r) /\ s \in Transitions[record[r].state]
         /\ trail' = [trail EXCEPT ![r] = Append(trail[r], e)]
         /\ proc' \in [Procs -> Local]
         /\ proc'[p].pc = "append" /\ proc'[p].at = r /\ proc'[p].then = resume
         /\ proc'[p].target = proc[p].target
         /\ \A q \in Procs \ {p} : proc'[q] = proc[q] /\ proc[q].pc \notin Critical
         /\ UNCHANGED <<audit, wire>>
<1>1. /\ Publish(p, r, s, e, n, resume) /\ TypeOK /\ resume \in Labels
      /\ record \in [Requests -> Record]
  BY DEF Publishes, IInv, TypeOK, Labels
<1>2. /\ record' \in [Requests -> Record]
      /\ record'[r].state = s /\ record'[r].marker = e /\ record'[r].issue = n
      /\ \A q \in Requests \ {r} : record'[q] = record[q]
  BY <1>1, ReplaceFrame DEF Publish
<1>3. /\ s \in Transitions[record[r].state]
      /\ proc' \in [Procs -> Local]
      /\ proc'[p].pc = "append" /\ proc'[p].at = r /\ proc'[p].then = resume
      /\ proc'[p].target = proc[p].target
      /\ \A q \in Procs \ {p} : proc'[q] = proc[q]
  BY <1>1, PublishFrame
<1>4. ASSUME NEW q \in Procs \ {p} PROVE proc[q].pc \notin Critical
  BY ProcsAssumption DEF Publishes, Free, IInv, LockDiscipline
<1>5. Quiet(r) /\ trail' = [trail EXCEPT ![r] = Append(trail[r], e)]
  BY <1>1 DEF Publish, TypeOK
<1>6. QED
  BY <1>2, <1>3, <1>4, <1>5 DEF Publishes

\* The migration of a legacy bit publishes an event and changes no state.
LEMMA MigrateFrame ==
  ASSUME IInv, NEW p \in Procs, NEW r \in Requests, SweepMigrate(p, r)
  PROVE  /\ record' \in [Requests -> Record]
         /\ \A q \in Requests : record'[q].state = record[q].state /\ record'[q].issue = record[q].issue
         /\ record[r].marker = LegacyBit /\ record'[r].marker = Event("recover", "unknown")
         /\ \A q \in Requests \ {r} : record'[q] = record[q]
         /\ trail' = [trail EXCEPT ![r] = Append(trail[r], Event("recover", "unknown"))]
         /\ At(p, "sweep") /\ \A q \in Procs \ {p} : proc[q].pc \notin Critical
         /\ UNCHANGED <<audit, wire, reopened, proc>>
<1>1. /\ record \in [Requests -> Record] /\ record[r].state \in States
      /\ record[r].issue \in Issues \cup {NoIssue} /\ Event("recover", "unknown") \in Events
  BY EventsTyped DEF IInv, TypeOK, Record
<1>2. Replace(r, record[r].state, Event("recover", "unknown"), record[r].issue)
  BY DEF SweepMigrate
<1>3. /\ record' \in [Requests -> Record]
      /\ record'[r].state = record[r].state /\ record'[r].issue = record[r].issue
      /\ record'[r].marker = Event("recover", "unknown")
      /\ \A q \in Requests \ {r} : record'[q] = record[q]
  BY <1>1, <1>2, ReplaceFrame
<1>4. At(p, "sweep") /\ holder = p
  BY InsideHolds DEF SweepMigrate, At, Critical
<1>5. ASSUME NEW q \in Procs \ {p} PROVE proc[q].pc \notin Critical
  BY <1>4 DEF IInv, LockDiscipline
<1>6. trail' = [trail EXCEPT ![r] = Append(trail[r], Event("recover", "unknown"))]
  BY DEF SweepMigrate, IInv, TypeOK
<1>7. record[r].marker = LegacyBit /\ UNCHANGED <<audit, wire, reopened, proc>>
  BY DEF SweepMigrate, outside
<1>8. QED
  BY <1>3, <1>4, <1>5, <1>6, <1>7

\* Appending changes the audit file and the label of the process.
LEMMA AppendFrame ==
  ASSUME IInv, NEW p \in Procs, AppendAudit(p)
  PROVE  /\ proc[p].at \in Requests /\ At(p, "append")
         /\ audit' = Append(audit, Line(proc[p].at, record[proc[p].at].marker))
         /\ Line(proc[p].at, record[proc[p].at].marker) \in Lines
         /\ proc' \in [Procs -> Local]
         /\ proc'[p].pc = "clear" /\ proc'[p].at = proc[p].at /\ proc'[p].then = proc[p].then
         /\ proc'[p].target = proc[p].target
         /\ \A q \in Procs \ {p} : proc'[q] = proc[q] /\ proc[q].pc \notin Critical
         /\ UNCHANGED <<record, wire, trail, reopened>>
<1>1. /\ At(p, "append") /\ proc[p].at \in Requests /\ holder = p /\ proc[p] \in Local
      /\ record[proc[p].at] \in Record
  BY InsideHolds DEF AppendAudit, At, Critical, IInv, TypeOK, Focus, FocusOf
<1>2. Line(proc[p].at, record[proc[p].at].marker) \in Lines
  BY <1>1 DEF Line, Lines, Record, Events
<1>3. proc' = [proc EXCEPT ![p] = [proc[p] EXCEPT !.pc = "clear"]]
  BY DEF AppendAudit, Goto, IInv, TypeOK
<1>4. [proc[p] EXCEPT !.pc = "clear"] \in Local
  BY <1>1 DEF Local, Labels
<1>5. /\ proc' \in [Procs -> Local]
      /\ proc'[p].pc = "clear" /\ proc'[p].at = proc[p].at /\ proc'[p].then = proc[p].then
      /\ proc'[p].target = proc[p].target
      /\ \A q \in Procs \ {p} : proc'[q] = proc[q]
  BY <1>1, <1>3, <1>4 DEF IInv, TypeOK, Local
<1>6. ASSUME NEW q \in Procs \ {p} PROVE proc[q].pc \notin Critical
  BY <1>1 DEF IInv, LockDiscipline
<1>7. QED
  BY <1>1, <1>2, <1>5, <1>6 DEF AppendAudit, store, outside

\* Clearing changes one marker; the process ends or goes on where it was to resume.
LEMMA ClearFrame ==
  ASSUME IInv, NEW p \in Procs, ClearMarker(p)
  PROVE  /\ proc[p].at \in Requests /\ At(p, "clear")
         /\ record' \in [Requests -> Record]
         /\ \A q \in Requests : record'[q].state = record[q].state /\ record'[q].issue = record[q].issue
         /\ record'[proc[p].at].marker = NoEvent
         /\ \A q \in Requests \ {proc[p].at} : record'[q] = record[q]
         /\ \/ proc'[p].pc = "idle"
            \/ /\ proc'[p].pc = proc[p].then /\ proc'[p].pc \in {"sweep", "send"}
               /\ proc'[p].target = proc[p].target
         /\ \A q \in Procs \ {p} : proc'[q] = proc[q] /\ proc[q].pc \notin Critical
         /\ UNCHANGED <<audit, wire, trail, reopened>>
<1> DEFINE r == proc[p].at
<1>1. /\ At(p, "clear") /\ r \in Requests /\ holder = p /\ proc[p] \in Local
      /\ record[r] \in Record /\ record \in [Requests -> Record] /\ proc \in [Procs -> Local]
      /\ proc[p].then \in {"idle", "sweep", "send"}
  BY InsideHolds DEF ClearMarker, At, Critical, IInv, TypeOK, Focus, FocusOf
<1>2. NoEvent \in Events
  BY EventTyped DEF NoEvent, Operations, Statuses
<1>3. /\ record' \in [Requests -> Record]
      /\ record'[r].state = record[r].state /\ record'[r].issue = record[r].issue
      /\ record'[r].marker = NoEvent
      /\ \A q \in Requests \ {r} : record'[q] = record[q]
  <2>1. record[r].state \in States /\ record[r].issue \in Issues \cup {NoIssue}
    BY <1>1 DEF Record
  <2>2. Replace(r, record[r].state, NoEvent, record[r].issue)
    BY DEF ClearMarker
  <2>3. QED
    BY <1>1, <1>2, <2>1, <2>2, ReplaceFrame
<1>4. /\ \/ proc'[p].pc = "idle"
         \/ /\ proc'[p].pc = proc[p].then /\ proc'[p].pc \in {"sweep", "send"}
            /\ proc'[p].target = proc[p].target
      /\ \A q \in Procs \ {p} : proc'[q] = proc[q]
  <2>1. CASE proc[p].then = "idle"
    BY <2>1, FinishFrame DEF ClearMarker, IInv, Idle
  <2>2. CASE proc[p].then # "idle"
    BY <1>1, <2>2 DEF ClearMarker, Goto, Local
  <2>3. QED
    BY <2>1, <2>2
<1>5. ASSUME NEW q \in Procs \ {p} PROVE proc[q].pc \notin Critical
  BY <1>1 DEF IInv, LockDiscipline
<1>6. QED
  BY <1>1, <1>3, <1>4, <1>5 DEF ClearMarker, outside, history

\* A POST is begun.
LEMMA PostFrame ==
  ASSUME IInv, NEW p \in Procs, PostBody(p)
  PROVE  /\ proc[p].target \in Requests /\ At(p, "send")
         /\ record[proc[p].target].state = "sending"
         /\ Len(wire[proc[p].target]) <= reopened[proc[p].target]
         /\ wire' = [wire EXCEPT ![proc[p].target] = Append(wire[proc[p].target], "sent")]
         /\ wire' \in [Requests -> Seq(Fates)]
         /\ proc'[p].pc = "await"
         /\ \A q \in Procs \ {p} : proc'[q] = proc[q] /\ proc[q].pc \notin Critical
         /\ UNCHANGED <<audit, record, trail, reopened>>
<1>1. /\ At(p, "send") /\ proc[p].target \in Requests /\ holder = p
      /\ record[proc[p].target].state = "sending"
      /\ Len(wire[proc[p].target]) <= reopened[proc[p].target]
  BY InsideHolds DEF PostBody, At, Critical, IInv, Focus, FocusOf, Phases, PhaseOf, Unsent
<1>2. proc'[p].pc = "await" /\ \A q \in Procs \ {p} : proc'[q] = proc[q]
  BY DEF PostBody, Goto, IInv, TypeOK, Local
<1>3. wire' = [wire EXCEPT ![proc[p].target] = Append(wire[proc[p].target], "sent")]
  BY DEF PostBody, IInv, TypeOK
<1>4. wire' \in [Requests -> Seq(Fates)]
  BY <1>1, <1>3 DEF IInv, TypeOK, Fates
<1>5. ASSUME NEW q \in Procs \ {p} PROVE proc[q].pc \notin Critical
  BY <1>1 DEF IInv, LockDiscipline
<1>6. QED
  BY <1>1, <1>2, <1>3, <1>4, <1>5 DEF PostBody, store

\* GitHub settles a POST and changes no other, and none that is settled.
LEMMA SettleFrame ==
  ASSUME IInv, GitHub
  PROVE  /\ wire' \in [Requests -> Seq(Fates)]
         /\ \A r \in Requests :
              /\ Len(wire'[r]) = Len(wire[r]) /\ DOMAIN wire'[r] = DOMAIN wire[r]
              /\ \A n \in DOMAIN wire[r] : wire[r][n] # "sent" => wire'[r][n] = wire[r][n]
         /\ UNCHANGED <<audit, record, trail, reopened, proc>>
<1>1. PICK r \in Requests :
        \E n \in DOMAIN wire[r], fate \in {"landed", "lost"} : Settle(r, n, fate)
  BY DEF GitHub
<1>2. PICK n \in DOMAIN wire[r], fate \in {"landed", "lost"} : Settle(r, n, fate)
  BY <1>1
<1>3. /\ wire' = [wire EXCEPT ![r] = [wire[r] EXCEPT ![n] = fate]]
      /\ wire[r][n] = "sent"
      /\ UNCHANGED <<audit, record, trail, reopened, proc>>
  BY <1>2 DEF Settle, history, IInv, TypeOK
<1>4. /\ wire \in [Requests -> Seq(Fates)] /\ fate \in Fates
  BY DEF IInv, TypeOK, Fates
<1>5. /\ [wire[r] EXCEPT ![n] = fate] \in Seq(Fates)
      /\ Len([wire[r] EXCEPT ![n] = fate]) = Len(wire[r])
      /\ DOMAIN [wire[r] EXCEPT ![n] = fate] = DOMAIN wire[r]
      /\ \A m \in DOMAIN wire[r] : m # n => [wire[r] EXCEPT ![n] = fate][m] = wire[r][m]
  BY <1>4
<1>6. QED
  BY <1>3, <1>4, <1>5

-----------------------------------------------------------------------------
(* Capacity                                                                *)

\* A record that joins the unfinished ones was admitted under the limit; every other step
\* keeps them or lets some go.
LEMMA CapacityStep ==
  ASSUME IInv, Kinds, CapacityRespected
  PROVE  CapacityRespected'
<1>0. /\ IsFiniteSet(Requests) /\ IsFiniteSet(Unfinished) /\ MaxUnfinished \in Nat
      /\ Cardinality(Unfinished) \in Nat
  BY RequestsAssumption, BoundsAssumption, FS_Subset, FS_CardinalityType DEF Unfinished
<1>1. ASSUME Unfinished' \subseteq Unfinished PROVE CapacityRespected'
  BY <1>0, <1>1, FS_Subset, FS_CardinalityType DEF CapacityRespected
<1>2. CASE Publishing
  <2>1. PICK p \in Procs, r \in Requests, s \in States, e \in Events, n \in Issues \cup {NoIssue},
             resume \in {"idle", "sweep", "send"} : Publishes(p, r, s, e, n, resume)
    BY <1>2 DEF Publishing
  <2>2. record'[r].state = s /\ \A q \in Requests \ {r} : record'[q] = record[q]
    BY <2>1, PublishesFrame
  <2>3. CASE record[r].state = "absent" /\ Cardinality(Unfinished) < MaxUnfinished
    <3>1. Unfinished' \subseteq Unfinished \cup {r}
      BY <2>2 DEF Unfinished
    <3>2. /\ IsFiniteSet(Unfinished \cup {r})
          /\ Cardinality(Unfinished \cup {r}) <= Cardinality(Unfinished) + 1
      <4>1. /\ IsFiniteSet(Unfinished \cup {r})
            /\ Cardinality(Unfinished \cup {r}) =
                 IF r \in Unfinished THEN Cardinality(Unfinished) ELSE Cardinality(Unfinished) + 1
        BY <1>0, FS_AddElement, Zenon
      <4>2. QED
        BY <1>0, <4>1
    <3>3. Cardinality(Unfinished') \in Nat /\ Cardinality(Unfinished') <= Cardinality(Unfinished \cup {r})
      BY <3>1, <3>2, FS_Subset, FS_CardinalityType
    <3>4. Cardinality(Unfinished \cup {r}) \in Nat
      BY <3>2, FS_CardinalityType
    <3>5. QED
      BY <1>0, <2>3, <3>2, <3>3, <3>4 DEF CapacityRespected
  <2>4. CASE record[r].state \in ContentStates
    <3>1. Unfinished' \subseteq Unfinished
      BY <2>2, <2>4 DEF Unfinished
    <3>2. QED
      BY <1>1, <3>1
  <2>5. QED
    BY <2>1, <2>3, <2>4 DEF Publishes, Reason, ContentStates
<1>3. CASE Aside \/ Appending \/ Posting \/ GitHub
  <2>1. UNCHANGED record
    BY <1>3, AppendFrame, PostFrame, SettleFrame DEF Aside, Appending, Posting
  <2>2. QED
    BY <1>1, <2>1 DEF Unfinished
<1>4. CASE Migrating \/ Clearing
  <2>1. \A q \in Requests : record'[q].state = record[q].state
    BY <1>4, MigrateFrame, ClearFrame DEF Migrating, Clearing
  <2>2. QED
    BY <1>1, <2>1 DEF Unfinished
<1>5. QED
  BY <1>2, <1>3, <1>4 DEF Kinds

-----------------------------------------------------------------------------
(* Issues                                                                  *)

\* What was found on GitHub stays there, and a created record is final.
LEMMA CreatedStep ==
  ASSUME IInv, Kinds, CreatedIsReal
  PROVE  CreatedIsReal'
<1> SUFFICES ASSUME NEW r \in Requests, record'[r].state = "created"
             PROVE  \E q \in Requests : \E n \in Landed(q)' :
                      /\ record'[r].issue = <<q, n>> /\ Canonical[q] = Canonical[r]
                      /\ <<q, n>> = <<r, Len(wire'[r])>> \/ Resolved(r)'
  BY DEF CreatedIsReal
<1>1. ASSUME NEW q \in Requests PROVE Landed(q) \subseteq Landed(q)'
  <2>1. CASE Posting
    <3>1. PICK p \in Procs : PostBody(p)
      BY <2>1 DEF Posting
    <3>2. wire' = [wire EXCEPT ![proc[p].target] = Append(wire[proc[p].target], "sent")]
      BY <3>1, PostFrame
    <3>3. wire[q] \in Seq(Fates) /\ wire \in [Requests -> Seq(Fates)]
      BY DEF IInv, TypeOK
    <3>4. \A n \in DOMAIN wire[q] : n \in DOMAIN wire'[q] /\ wire'[q][n] = wire[q][n]
      BY <3>2, <3>3
    <3>5. QED
      BY <3>4 DEF Landed
  <2>2. CASE GitHub
    BY <2>2, SettleFrame DEF Landed
  <2>3. CASE ~Posting /\ ~GitHub
    <3>1. UNCHANGED wire
      BY <2>3, PublishesFrame, MigrateFrame, AppendFrame, ClearFrame
      DEF Kinds, Publishing, Aside, Migrating, Appending, Clearing
    <3>2. QED
      BY <3>1 DEF Landed
  <2>4. QED
    BY <2>1, <2>2, <2>3
<1>6. ASSUME record[r].state # "sending" PROVE Len(wire'[r]) = Len(wire[r])
  <2>1. CASE Posting
    <3>1. PICK p \in Procs : PostBody(p)
      BY <2>1 DEF Posting
    <3>2. /\ wire' = [wire EXCEPT ![proc[p].target] = Append(wire[proc[p].target], "sent")]
          /\ proc[p].target # r
      BY <1>6, <3>1, PostFrame
    <3>3. QED
      BY <3>2 DEF IInv, TypeOK
  <2>2. CASE GitHub
    BY <2>2, SettleFrame
  <2>3. CASE ~Posting /\ ~GitHub
    BY <2>3, PublishesFrame, MigrateFrame, AppendFrame, ClearFrame
    DEF Kinds, Publishing, Aside, Migrating, Appending, Clearing
  <2>4. QED
    BY <2>1, <2>2, <2>3
<1>7. ASSUME Resolved(r) PROVE Resolved(r)'
  <2>1. /\ trail[r] \in Seq(Events)
        /\ \/ trail'[r] = trail[r]
           \/ \E e \in Events : trail'[r] = Append(trail[r], e)
    <3>1. trail \in [Requests -> Seq(Events)]
      BY DEF IInv, TypeOK
    <3>2. CASE Publishing
      <4>1. PICK p \in Procs, t \in Requests, s \in States, e \in Events, n \in Issues \cup {NoIssue},
                 resume \in {"idle", "sweep", "send"} : Publishes(p, t, s, e, n, resume)
        BY <3>2 DEF Publishing
      <4>2. trail' = [trail EXCEPT ![t] = Append(trail[t], e)]
        BY <4>1, PublishesFrame
      <4>3. QED
        BY <3>1, <4>2
    <3>3. CASE Migrating
      <4>1. PICK p \in Procs, t \in Requests : SweepMigrate(p, t)
        BY <3>3 DEF Migrating
      <4>2. trail' = [trail EXCEPT ![t] = Append(trail[t], Event("recover", "unknown"))]
        BY <4>1, MigrateFrame
      <4>3. QED
        BY <3>1, <4>2, EventsTyped
    <3>4. CASE ~Publishing /\ ~Migrating
      BY <3>1, <3>4, AppendFrame, ClearFrame, PostFrame, SettleFrame
      DEF Kinds, Aside, Appending, Clearing, Posting
    <3>5. QED
      BY <3>2, <3>3, <3>4
  <2>2. PICK k \in DOMAIN trail[r] : trail[r][k] = Event("resolve-created", "created")
    BY <1>7 DEF Resolved
  <2>3. k \in DOMAIN trail'[r] /\ trail'[r][k] = trail[r][k]
    BY <2>1, <2>2
  <2>4. QED
    BY <2>2, <2>3 DEF Resolved
<1>2. CASE record[r].state = "created" /\ record'[r].issue = record[r].issue
  BY <1>1, <1>2, <1>6, <1>7 DEF CreatedIsReal
<1>3. CASE Publishing
  <2>1. PICK p \in Procs, t \in Requests, s \in States, e \in Events, n \in Issues \cup {NoIssue},
             resume \in {"idle", "sweep", "send"} : Publishes(p, t, s, e, n, resume)
    BY <1>3 DEF Publishing
  <2>2. /\ record'[t].state = s /\ record'[t].issue = n
        /\ \A q \in Requests \ {t} : record'[q] = record[q]
    BY <2>1, PublishesFrame
  <2>3. CASE r # t
    BY <1>2, <2>2, <2>3
  <2>4. CASE r = t
    <3>1. s = "created"
      BY <2>2, <2>4
    <3>2. \E q \in Requests : \E m \in Landed(q) :
            /\ n = <<q, m>> /\ Canonical[q] = Canonical[r]
            /\ <<q, m>> = <<r, Len(wire'[r])>> \/ Resolved(r)'
      <4>0. UNCHANGED wire
        BY <2>1, PublishesFrame
      <4>1. CASE record[r].state = "sending"
        <5>1. /\ wire[r] # <<>> /\ wire[r][Len(wire[r])] = "landed"
              /\ n = <<r, Len(wire[r])>>
          BY <2>1, <2>4, <3>1, <4>1 DEF Publishes, Reason
        <5>2. Len(wire[r]) \in DOMAIN wire[r]
          BY <5>1 DEF IInv, TypeOK
        <5>3. QED
          BY <4>0, <5>1, <5>2 DEF Landed
      <4>2. CASE record[r].state # "sending"
        <5>1. /\ record[r].state = "unknown" /\ e = Event("resolve-created", "created")
              /\ \E q \in Requests : \E m \in Landed(q) : n = <<q, m>> /\ Canonical[q] = Canonical[r]
          BY <2>1, <2>4, <3>1, <4>2 DEF Publishes, Reason
        <5>2. trail[r] \in Seq(Events) /\ trail'[r] = Append(trail[r], e)
          BY <2>1, <2>4, PublishesFrame DEF IInv, TypeOK
        <5>3. Len(trail[r]) + 1 \in DOMAIN trail'[r] /\ trail'[r][Len(trail[r]) + 1] = e
          BY <5>2
        <5>4. Resolved(r)'
          BY <5>1, <5>3 DEF Resolved
        <5>5. QED
          BY <5>1, <5>4
      <4>3. QED
        BY <4>1, <4>2
    <3>3. QED
      BY <1>1, <2>2, <2>4, <3>2
  <2>5. QED
    BY <2>3, <2>4
<1>4. CASE ~Publishing
  <2>1. record'[r].state = record[r].state /\ record'[r].issue = record[r].issue
    BY <1>4, MigrateFrame, AppendFrame, ClearFrame, PostFrame, SettleFrame
    DEF Kinds, Aside, Migrating, Appending, Clearing, Posting
  <2>2. QED
    BY <1>2, <2>1
<1>5. QED
  BY <1>3, <1>4

\* A POST known to have failed stays failed; a new one is made when all before it have.
LEMMA LostStep ==
  ASSUME IInv, Kinds, LostInv
  PROVE  LostInv'
<1> SUFFICES ASSUME CarefulOperator
             PROVE  /\ \A r \in Requests :
                         /\ \A n \in DOMAIN wire'[r] : n < Len(wire'[r]) => wire'[r][n] = "lost"
                         /\ record'[r].state \in {"absent", "pending", "rejected", "expired"} =>
                              AllLost(r)'
                    /\ \A p \in Procs : Unsent(p)' => AllLost(proc[p].target)'
  BY DEF LostInv
<1> DEFINE Early(r) == \A n \in DOMAIN wire[r] : n < Len(wire[r]) => wire[r][n] = "lost"
           Home == {"absent", "pending", "rejected", "expired"}
<1>0. /\ \A r \in Requests : Early(r) /\ (record[r].state \in Home => AllLost(r))
      /\ \A p \in Procs : Unsent(p) => AllLost(proc[p].target)
      /\ wire \in [Requests -> Seq(Fates)]
  BY DEF LostInv, IInv, TypeOK
<1>1. CASE Posting
  <2>1. PICK p \in Procs : PostBody(p)
    BY <1>1 DEF Posting
  <2> DEFINE t == proc[p].target
  <2>2. /\ t \in Requests /\ At(p, "send") /\ record[t].state = "sending"
        /\ wire' = [wire EXCEPT ![t] = Append(wire[t], "sent")]
        /\ proc'[p].pc = "await" /\ UNCHANGED record
        /\ \A q \in Procs \ {p} : proc'[q] = proc[q] /\ proc[q].pc \notin Critical
    BY <2>1, PostFrame
  <2>3. AllLost(t)
    BY <1>0, <2>2 DEF Unsent
  <2>4. \A n \in DOMAIN wire'[t] : n < Len(wire'[t]) => wire'[t][n] = "lost"
    <3>1. /\ DOMAIN wire'[t] = 1..Len(wire[t]) + 1 /\ Len(wire'[t]) = Len(wire[t]) + 1
          /\ DOMAIN wire[t] = 1..Len(wire[t]) /\ Len(wire[t]) \in Nat
          /\ \A n \in DOMAIN wire[t] : wire'[t][n] = wire[t][n]
      BY <1>0, <2>2
    <3>2. QED
      BY <2>3, <3>1 DEF AllLost
  <2>5. \A r \in Requests \ {t} : wire'[r] = wire[r]
    BY <1>0, <2>2
  <2>6. \A r \in Requests : Early(r)' /\ (record'[r].state \in Home => AllLost(r)')
    <3>1. ASSUME NEW r \in Requests \ {t}
          PROVE  Early(r)' /\ (record'[r].state \in Home => AllLost(r)')
      BY <1>0, <2>2, <2>5 DEF AllLost
    <3>2. ASSUME NEW r \in Requests, r = t
          PROVE  Early(r)' /\ (record'[r].state \in Home => AllLost(r)')
      BY <2>2, <2>4, <3>2
    <3>3. QED
      BY <3>1, <3>2
  <2>7. \A q \in Procs : ~Unsent(q)'
    BY <2>2 DEF Unsent, At, Critical
  <2>8. QED
    BY <2>6, <2>7
<1>2. CASE GitHub
  <2>1. /\ \A r \in Requests :
             /\ Len(wire'[r]) = Len(wire[r]) /\ DOMAIN wire'[r] = DOMAIN wire[r]
             /\ \A n \in DOMAIN wire[r] : wire[r][n] # "sent" => wire'[r][n] = wire[r][n]
        /\ UNCHANGED <<record, proc>>
    BY <1>2, SettleFrame
  <2>2. ASSUME NEW r \in Requests PROVE Early(r)' /\ (AllLost(r) => AllLost(r)')
    BY <1>0, <2>1 DEF AllLost
  <2>3. ASSUME NEW p \in Procs, Unsent(p)' PROVE AllLost(proc[p].target)'
    <3>1. Unsent(p) /\ proc'[p].target = proc[p].target
      BY <2>1, <2>3 DEF Unsent, At
    <3>2. proc[p].target \in Requests
      BY <3>1 DEF Unsent, At, IInv, Focus, FocusOf
    <3>3. QED
      BY <1>0, <2>1, <2>2, <3>1, <3>2
  <2>4. QED
    BY <1>0, <2>1, <2>2, <2>3
<1>3. CASE Publishing
  <2>1. PICK p \in Procs, t \in Requests, s \in States, e \in Events, n \in Issues \cup {NoIssue},
             resume \in {"idle", "sweep", "send"} : Publishes(p, t, s, e, n, resume)
    BY <1>3 DEF Publishing
  <2>2. /\ record'[t].state = s /\ \A q \in Requests \ {t} : record'[q] = record[q]
        /\ proc'[p].pc = "append" /\ proc'[p].then = resume /\ proc'[p].target = proc[p].target
        /\ \A q \in Procs \ {p} : proc'[q] = proc[q] /\ proc[q].pc \notin Critical
        /\ UNCHANGED wire
    BY <2>1, PublishesFrame
  <2>3. s \in Home => AllLost(t)
    <3>1. CASE record[t].state = "sending" /\ s = "pending"
      BY <1>0, <2>1, <3>1 DEF Publishes, Reason, Unsent
    <3>2. CASE record[t].state # "sending"
      BY <1>0, <2>1, <3>2 DEF Publishes, Reason
    <3>3. QED
      BY <2>1, <3>1, <3>2 DEF Publishes, Reason
  <2>4. ASSUME resume = "send" PROVE t = proc[p].target /\ AllLost(t)
    <3>1. record[t].state = "pending" /\ t = proc[p].target
      BY <2>1, <2>4 DEF Publishes, Reason
    <3>2. QED
      BY <1>0, <3>1
  <2>5. \A q \in Procs : Unsent(q)' => AllLost(proc[q].target)'
    BY <2>2, <2>4 DEF Unsent, At, Critical, AllLost
  <2>6. \A r \in Requests : record'[r].state \in Home => AllLost(r)'
    BY <1>0, <2>2, <2>3 DEF AllLost
  <2>7. QED
    BY <1>0, <2>2, <2>5, <2>6
<1>4. CASE Aside \/ Migrating \/ Appending \/ Clearing
  <2>1. UNCHANGED wire /\ \A r \in Requests : record'[r].state = record[r].state
    BY <1>4, MigrateFrame, AppendFrame, ClearFrame DEF Aside, Migrating, Appending, Clearing
  <2>2. ASSUME NEW p \in Procs, Unsent(p)' PROVE Unsent(p) /\ proc'[p].target = proc[p].target
    <3>1. CASE Aside
      BY <2>2, <3>1 DEF Aside, Unsent, At
    <3>2. CASE Migrating
      BY <2>2, <3>2, MigrateFrame DEF Migrating, Unsent, At
    <3>3. CASE Appending
      BY <2>2, <3>3, AppendFrame DEF Appending, Unsent, At
    <3>4. CASE Clearing
      BY <2>2, <3>4, ClearFrame DEF Clearing, Unsent, At, Critical
    <3>5. QED
      BY <1>4, <3>1, <3>2, <3>3, <3>4
  <2>3. QED
    BY <1>0, <2>1, <2>2 DEF AllLost
<1>5. QED
  BY <1>1, <1>2, <1>3, <1>4 DEF Kinds

-----------------------------------------------------------------------------
(* The audit file                                                          *)

\* Told lines are positions of the file, and there are finitely many of them.
LEMMA ToldFinite ==
  ASSUME audit \in Seq(Lines), NEW r \in Requests
  PROVE  /\ DOMAIN audit = 1..Len(audit) /\ Len(audit) \in Nat
         /\ Heads(r) \subseteq Told(r) /\ Told(r) \subseteq 1..Len(audit)
         /\ IsFiniteSet(Heads(r)) /\ Cardinality(Heads(r)) \in Nat
         /\ IsFiniteSet(Announced(r)) /\ Cardinality(Announced(r)) \in Nat
         /\ Announced(r) \subseteq 1..Len(audit)
<1>1. /\ DOMAIN audit = 1..Len(audit) /\ Len(audit) \in Nat
      /\ Heads(r) \subseteq Told(r) /\ Told(r) \subseteq 1..Len(audit)
      /\ Announced(r) \subseteq 1..Len(audit)
  BY DEF Heads, Told, Announced
<1>2. IsFiniteSet(1..Len(audit))
  BY <1>1, FS_Interval
<1>3. IsFiniteSet(Heads(r)) /\ IsFiniteSet(Announced(r))
  BY <1>1, <1>2, FS_Subset
<1>4. QED
  BY <1>1, <1>3, FS_CardinalityType

\* A line that is not about r, or is a note, tells nothing of r.
LEMMA ForeignLine ==
  ASSUME audit \in Seq(Lines), NEW r \in Requests,
         \/ UNCHANGED audit
         \/ \E line \in Lines : audit' = Append(audit, line) /\ (line.request # r \/ IsNote(line))
  PROVE  /\ Told(r)' = Told(r) /\ Heads(r)' = Heads(r)
         /\ \A i \in Told(r) : audit'[i] = audit[i] /\ Rank(Heads(r), i)' = Rank(Heads(r), i)
<1>1. CASE UNCHANGED audit
  BY <1>1 DEF Told, Heads, Rank
<1>2. CASE \E line \in Lines : audit' = Append(audit, line) /\ (line.request # r \/ IsNote(line))
  <2>1. PICK line \in Lines : audit' = Append(audit, line) /\ (line.request # r \/ IsNote(line))
    BY <1>2
  <2>2. /\ DOMAIN audit' = DOMAIN audit \cup {Len(audit) + 1}
        /\ \A i \in DOMAIN audit : audit'[i] = audit[i]
        /\ audit'[Len(audit) + 1] = line
    BY <2>1
  <2>3. Told(r)' = Told(r)
    BY <2>1, <2>2 DEF Told
  <2>4. \A i \in Told(r) : audit'[i] = audit[i]
    BY <2>2 DEF Told
  <2>5. Heads(r)' = Heads(r)
    BY <2>3, <2>4 DEF Heads
  <2>6. QED
    BY <2>3, <2>4, <2>5 DEF Rank
<1>3. QED
  BY <1>1, <1>2

\* What is told stays told when neither the lines nor those events change.
LEMMA StillTells ==
  ASSUME NEW r \in Requests, NEW k, Tells(r, k),
         Told(r)' = Told(r), Heads(r)' = Heads(r),
         \A i \in Told(r) : audit'[i] = audit[i] /\ Rank(Heads(r), i)' = Rank(Heads(r), i),
         \A i \in 1..k : trail'[r][i] = trail[r][i]
  PROVE  /\ Cardinality(Heads(r)') = k
         /\ \A i \in Told(r)' : Rank(Heads(r), i)' \in 1..k /\ audit'[i] = Line(r, trail'[r][Rank(Heads(r), i)'])
  BY DEF Tells

\* Different events have different lines.
LEMMA LinesDiffer ==
  ASSUME NEW r, NEW d \in Events, NEW e \in Events, d # e
  PROVE  Line(r, d) # Line(r, e)
<1>1. d.operation # e.operation \/ d.status # e.status
  <2>1. /\ d = [operation |-> d.operation, status |-> d.status]
        /\ e = [operation |-> e.operation, status |-> e.status]
    BY DEF Events
  <2>2. QED
    BY <2>1
<1>2. /\ Line(r, d).operation = d.operation /\ Line(r, d).status = d.status
      /\ Line(r, e).operation = e.operation /\ Line(r, e).status = e.status
  BY DEF Line
<1>3. QED
  BY <1>1, <1>2

\* Appending the last event of r, which is the next one to be told or was told before,
\* leaves all of its history told.
LEMMA AppendTells ==
  ASSUME audit \in Seq(Lines), NEW r \in Requests, trail[r] \in Seq(Events), trail[r] # <<>>,
         HistoryOf(r), Tells(r, Len(trail[r])) \/ Tells(r, Len(trail[r]) - 1),
         Line(r, trail[r][Len(trail[r])]) \in Lines,
         audit' = Append(audit, Line(r, trail[r][Len(trail[r])])), UNCHANGED trail
  PROVE  /\ Tells(r, Len(trail[r]))'
         /\ \A j \in Told(r)' : j <= Len(audit) + 1
         /\ Len(audit) + 1 \in Told(r)'
<1>0. PICK len \in Nat, next \in Nat, line \in Lines :
        len = Len(trail[r]) /\ next = Len(audit) + 1 /\ line = Line(r, trail[r][len])
  OBVIOUS
<1>1. /\ len >= 1 /\ DOMAIN trail[r] = 1..len
      /\ Len(audit) \in Nat /\ next \notin DOMAIN audit
      /\ ~IsNote(line) /\ line.request = r
  <2>1. len >= 1 /\ DOMAIN trail[r] = 1..len /\ len \in DOMAIN trail[r]
    BY <1>0
  <2>2. ~IsNote(line) /\ line.request = r
    BY <1>0, <2>1 DEF HistoryOf, Line
  <2>3. QED
    BY <1>0, <2>1, <2>2
<1>2. /\ DOMAIN audit' = DOMAIN audit \cup {next}
      /\ \A i \in DOMAIN audit : audit'[i] = audit[i]
      /\ audit'[next] = line
  BY <1>0
<1>3. /\ Told(r) \subseteq 1..Len(audit) /\ Heads(r) \subseteq Told(r)
      /\ IsFiniteSet(Heads(r)) /\ Cardinality(Heads(r)) \in Nat
  BY ToldFinite
<1>4. /\ Told(r)' = Told(r) \cup {next} /\ next \notin Told(r)
      /\ \A i \in Told(r) : audit'[i] = audit[i] /\ i < next /\ i \in Nat
  <2>1. Told(r)' = Told(r) \cup {next}
    BY <1>1, <1>2 DEF Told
  <2>2. QED
    BY <1>0, <1>1, <1>2, <1>3, <2>1 DEF Told
<1>5. Heads(r)' \in {Heads(r), Heads(r) \cup {next}}
  <2>1. ASSUME NEW i \in Told(r) PROVE i \in Heads(r)' <=> i \in Heads(r)
    <3>1. i \in Nat /\ i < next /\ ~(next < i) /\ audit'[i] = audit[i]
      <4>1. i \in Nat /\ i < next /\ audit'[i] = audit[i]
        BY <1>4, Zenon
      <4>2. QED
        BY <1>0, <4>1
    <3>2. ASSUME NEW j \in Told(r)
          PROVE  (\E k \in Told(r)' : j < k /\ k < i) <=> (\E k \in Told(r) : j < k /\ k < i)
      BY <1>4, <3>1
    <3>3. ASSUME NEW j \in Told(r) PROVE audit'[j] = audit[j]
      BY <1>4
    <3>4. QED
      BY <1>4, <3>1, <3>2, <3>3 DEF Heads
  <2>2. Heads(r)' \subseteq Told(r) \cup {next}
    BY <1>4 DEF Heads
  <2>3. QED
    BY <1>3, <2>1, <2>2
<1>6. ASSUME NEW i \in Told(r) PROVE Rank(Heads(r), i)' = Rank(Heads(r), i)
  <2>1. i \in Nat /\ ~(next <= i)
    BY <1>0, <1>4
  <2>2. {j \in Heads(r)' : j <= i} = {j \in Heads(r) : j <= i}
    BY <1>5, <2>1
  <2>3. QED
    BY <2>2 DEF Rank
<1>7. Rank(Heads(r), next)' = Cardinality(Heads(r)')
  <2>1. \A j \in Heads(r)' : j <= next
    BY <1>0, <1>3, <1>4, <1>5
  <2>2. {j \in Heads(r)' : j <= next} = Heads(r)'
    BY <2>1
  <2>3. QED
    BY <2>2 DEF Rank
<1>8. ASSUME Cardinality(Heads(r)') = len PROVE Tells(r, Len(trail[r]))'
  <2>1. ASSUME NEW i \in Told(r)
        PROVE  Rank(Heads(r), i)' \in 1..len /\ audit'[i] = Line(r, trail'[r][Rank(Heads(r), i)'])
    <3>1. PICK k \in {len, len - 1} : Tells(r, k)
      BY <1>0
    <3>2. Rank(Heads(r), i) \in 1..k /\ audit[i] = Line(r, trail[r][Rank(Heads(r), i)])
      BY <3>1 DEF Tells
    <3>3. Rank(Heads(r), i) \in 1..len
      BY <1>1, <3>1, <3>2
    <3>4. Rank(Heads(r), i)' = Rank(Heads(r), i) /\ audit'[i] = audit[i] /\ trail' = trail
      BY <1>4, <1>6
    <3>5. QED
      BY <3>2, <3>3, <3>4
  <2>2. Rank(Heads(r), next)' \in 1..len /\ audit'[next] = Line(r, trail'[r][Rank(Heads(r), next)'])
    BY <1>0, <1>1, <1>2, <1>7, <1>8
  <2>3. \A i \in Told(r)' : Rank(Heads(r), i)' \in 1..len /\ audit'[i] = Line(r, trail'[r][Rank(Heads(r), i)'])
    BY <1>4, <2>1, <2>2
  <2>4. Len(trail'[r]) = len
    BY <1>0
  <2>5. QED
    BY <1>8, <2>3, <2>4 DEF Tells
\* The last line told names the last event told.
<1>9. ASSUME NEW k \in Nat, Tells(r, k), k >= 1
      PROVE  \E l \in Told(r) : (\A j \in Told(r) : j <= l) /\ audit[l] = Line(r, trail[r][k])
  <2>1. Heads(r) # {}
    <3> SUFFICES ASSUME Heads(r) = {} PROVE FALSE
      OBVIOUS
    <3>1. Cardinality(Heads(r)) = 0
      BY FS_EmptySet, Zenon
    <3>2. QED
      BY <1>9, <3>1 DEF Tells
  <2>2. PICK l \in Told(r) : \A j \in Told(r) : j <= l
    BY <1>3, <2>1 DEF HistoryOf
  <2>3. {j \in Heads(r) : j <= l} = Heads(r)
    BY <1>3, <2>2
  <2>4. Rank(Heads(r), l) = k
    BY <1>9, <2>3 DEF Rank, Tells
  <2>5. QED
    BY <1>9, <2>2, <2>4 DEF Tells
<1>10. CASE Tells(r, len)
  <2>1. PICK l \in Told(r) : (\A j \in Told(r) : j <= l) /\ audit[l] = line
    BY <1>0, <1>1, <1>9, <1>10
  <2>2. next \notin Heads(r)'
    <3>1. l \in Told(r)' /\ l < next /\ audit'[l] = audit'[next]
      BY <1>2, <1>4, <2>1
    <3>2. ~ \E m \in Told(r)' : l < m /\ m < next
      BY <1>0, <1>4, <2>1
    <3>3. QED
      BY <3>1, <3>2 DEF Heads
  <2>3. Heads(r)' = Heads(r)
    BY <1>5, <2>2
  <2>4. Cardinality(Heads(r)') = len
    BY <1>10, <2>3 DEF Tells
  <2>5. QED
    BY <1>0, <1>4, <1>8, <2>4
<1>11. CASE Tells(r, len - 1)
  <2>1. next \in Heads(r)'
    <3> SUFFICES ASSUME NEW j \in Told(r)', j < next,
                        ~ \E m \in Told(r)' : j < m /\ m < next
                 PROVE  audit'[j] # audit'[next]
      BY <1>4 DEF Heads
    <3>1. j \in Told(r) /\ audit'[j] = audit[j] /\ j \in Nat
      BY <1>0, <1>4
    <3>2. \A m \in Told(r) : m <= j
      <4>1. ASSUME NEW m \in Told(r) PROVE ~(j < m)
        BY <1>4
      <4>2. QED
        BY <1>4, <3>1, <4>1
    <3>3. len - 1 \in Nat /\ len - 1 >= 1
      BY <1>0, <1>1, <1>11, <3>1 DEF Tells
    <3>4. PICK l \in Told(r) :
            (\A i \in Told(r) : i <= l) /\ audit[l] = Line(r, trail[r][len - 1])
      BY <1>9, <1>11, <3>3
    <3>5. l = j
      <4>1. l <= j /\ j <= l /\ l \in Nat /\ j \in Nat
        BY <1>4, <3>1, <3>2, <3>4
      <4>2. QED
        BY <4>1
    <3>6. trail[r][len] # trail[r][len - 1] /\ trail[r][len] \in Events /\ trail[r][len - 1] \in Events
      <4>1. len \in DOMAIN trail[r] /\ len - 1 \in DOMAIN trail[r] /\ len > 1
        BY <1>1, <3>3
      <4>2. trail[r][len] # trail[r][len - 1]
        BY <4>1 DEF HistoryOf
      <4>3. QED
        BY <4>1, <4>2
    <3>7. Line(r, trail[r][len]) # Line(r, trail[r][len - 1])
      BY <3>6, LinesDiffer
    <3>8. QED
      BY <1>0, <1>2, <3>1, <3>4, <3>5, <3>7
  <2>2. next \notin Heads(r)
    BY <1>3, <1>4
  <2>3. Heads(r)' = Heads(r) \cup {next}
    BY <1>5, <2>1, <2>2
  <2>4. Cardinality(Heads(r) \cup {next}) = Cardinality(Heads(r)) + 1
    <3>1. Cardinality(Heads(r) \cup {next}) =
            IF next \in Heads(r) THEN Cardinality(Heads(r)) ELSE Cardinality(Heads(r)) + 1
      BY <1>3, FS_AddElement, Zenon
    <3>2. QED
      BY <2>2, <3>1
  <2>5. Cardinality(Heads(r)') = len
    BY <1>0, <1>3, <1>11, <2>3, <2>4 DEF Tells
  <2>6. QED
    BY <1>0, <1>4, <1>8, <2>5
<1>12. QED
  BY <1>0, <1>10, <1>11

\* A longer file has no fewer announcements.
LEMMA MoreAnnounced ==
  ASSUME audit \in Seq(Lines), audit' \in Seq(Lines), NEW r \in Requests,
         UNCHANGED audit \/ \E line \in Lines : audit' = Append(audit, line)
  PROVE  /\ Announced(r) \subseteq Announced(r)'
         /\ Cardinality(Announced(r)) <= Cardinality(Announced(r)')
         /\ Cardinality(Announced(r)') \in Nat
<1>1. Announced(r) \subseteq Announced(r)'
  <2>1. \A i \in DOMAIN audit : i \in DOMAIN audit' /\ audit'[i] = audit[i]
    OBVIOUS
  <2>2. QED
    BY <2>1 DEF Announced
<1>2. IsFiniteSet(Announced(r)')
  <2>1. Announced(r)' \subseteq 1..Len(audit') /\ Len(audit') \in Nat
    BY DEF Announced
  <2>2. IsFiniteSet(1..Len(audit'))
    BY <2>1, FS_Interval
  <2>3. QED
    BY <2>1, <2>2, FS_Subset
<1>3. QED
  BY <1>1, <1>2, FS_Subset, FS_CardinalityType

LEMMA InitAudit == Init => AuditInv
<1> SUFFICES ASSUME Init PROVE AuditInv
  OBVIOUS
<1>0. PICK legacy \in SUBSET LegacyRequests :
        /\ record = [r \in Requests |->
                       IF r \in legacy
                         THEN [Unseen EXCEPT !.state = "unknown", !.marker = LegacyBit]
                         ELSE Unseen]
        /\ wire = [r \in Requests |-> IF r \in legacy THEN <<"sent">> ELSE <<>>]
  BY DEF Init
<1>1. audit = <<>> /\ trail = [r \in Requests |-> <<>>] /\ proc = [p \in Procs |-> Idle]
  BY DEF Init
<1>2. ASSUME NEW r \in Requests PROVE Told(r) = {} /\ Heads(r) = {} /\ Announced(r) = {}
  BY <1>1 DEF Told, Heads, Announced
<1>3. ASSUME NEW r \in Requests PROVE HistoryOf(r)
  <2>1. trail[r] = <<>> /\ DOMAIN trail[r] = {}
    BY <1>1
  <2>2. CASE r \in legacy
    <3>1. record[r].marker = LegacyBit /\ record[r].state = "unknown"
      BY <1>0, <2>2 DEF Unseen
    <3>2. QED
      BY <1>2, <2>1, <3>1 DEF HistoryOf
  <2>3. CASE r \notin legacy
    <3>1. record[r].marker = NoEvent /\ NoEvent # LegacyBit
      BY <1>0, <2>3 DEF Unseen, NoEvent, LegacyBit, Event
    <3>2. QED
      BY <1>2, <2>1, <3>1 DEF HistoryOf
  <2>4. QED
    BY <2>2, <2>3
<1>4. ASSUME NEW p \in Procs PROVE WritingOf(p) /\ AnnouncedOf(p)
  BY <1>1 DEF WritingOf, AnnouncedOf, At, Idle
<1>5. AuditKeepsUp
  <2> SUFFICES ASSUME NEW r \in Requests PROVE Tells(r, Len(trail[r]))
    BY DEF AuditKeepsUp
  <2>1. Len(trail[r]) = 0
    BY <1>1
  <2>2. QED
    BY <1>2, <2>1, FS_EmptySet DEF Tells
<1>6. EverySendAudited
  <2> SUFFICES ASSUME NEW r \in Requests \ LegacyRequests
               PROVE  Len(wire[r]) <= Cardinality(Announced(r))
    BY DEF EverySendAudited
  <2>1. wire[r] = <<>> /\ Len(wire[r]) = 0
    BY <1>0
  <2>2. QED
    BY <1>2, <2>1, FS_EmptySet
<1>7. QED
  BY <1>3, <1>4, <1>5, <1>6 DEF AuditInv

\* A transition's event joins the history of its request, and the file still tells what it told.
LEMMA AuditPublishing ==
  ASSUME IInv, AuditInv, Publishing \/ Migrating
  PROVE  AuditInv'
<1>1. PICK p \in Procs, t \in Requests, s \in States, e \in Events :
        /\ record'[t].state = s /\ record'[t].marker = e /\ Fits(s, e)
        /\ \A q \in Requests \ {t} : record'[q] = record[q]
        /\ trail' = [trail EXCEPT ![t] = Append(trail[t], e)]
        /\ \/ trail[t] = <<>>
           \/ s # record[t].state
        /\ Quiet(t) \/ record[t].marker = LegacyBit
        /\ \/ /\ proc'[p].pc = "append" /\ proc'[p].at = t
              /\ proc'[p].then = "send" => e = Event("approve", "sending")
           \/ At(p, "sweep") /\ proc'[p] = proc[p]
        /\ \A q \in Procs \ {p} : proc'[q] = proc[q] /\ proc[q].pc \notin Critical
        /\ UNCHANGED <<audit, wire>>
  <2>1. CASE Publishing
    <3>1. PICK p \in Procs, t \in Requests, s \in States, e \in Events, n \in Issues \cup {NoIssue},
               resume \in {"idle", "sweep", "send"} : Publishes(p, t, s, e, n, resume)
      BY <2>1 DEF Publishing
    <3>2. s # record[t].state
      BY <3>1 DEF Publishes, Reason
    <3>3. Fits(s, e) /\ (resume = "send" => e = Event("approve", "sending"))
      BY <3>1 DEF Publishes
    <3>4. QED
      BY <3>1, <3>2, <3>3, PublishesFrame
  <2>2. CASE Migrating
    <3>1. PICK p \in Procs, t \in Requests : SweepMigrate(p, t)
      BY <2>2 DEF Migrating
    <3>2. trail[t] = <<>> /\ record[t].state = "unknown"
      BY <3>1, MigrateFrame DEF AuditInv, HistoryOf
    <3>3. Fits("unknown", Event("recover", "unknown")) /\ "unknown" \in States
          /\ Event("recover", "unknown") \in Events
      BY EventsFit, EventsTyped
    <3>4. record'[t].state = "unknown"
      BY <3>1, <3>2, MigrateFrame
    <3>5. QED
      BY <3>1, <3>2, <3>3, <3>4, MigrateFrame
  <2>3. QED
    BY <2>1, <2>2
<1>2. /\ audit \in Seq(Lines) /\ trail \in [Requests -> Seq(Events)]
      /\ \A r \in Requests : trail[r] \in Seq(Events) /\ Len(trail[r]) \in Nat
  BY DEF IInv, TypeOK
<1>3. /\ trail'[t] = Append(trail[t], e) /\ Len(trail'[t]) = Len(trail[t]) + 1
      /\ DOMAIN trail'[t] = 1..(Len(trail[t]) + 1) /\ DOMAIN trail[t] = 1..Len(trail[t])
      /\ trail'[t][Len(trail[t]) + 1] = e
      /\ \A i \in 1..Len(trail[t]) : trail'[t][i] = trail[t][i]
      /\ \A r \in Requests \ {t} : trail'[r] = trail[r]
  BY <1>1, <1>2
<1>4. ASSUME NEW r \in Requests
      PROVE  /\ Told(r)' = Told(r) /\ Heads(r)' = Heads(r)
             /\ \A i \in Told(r) : audit'[i] = audit[i] /\ Rank(Heads(r), i)' = Rank(Heads(r), i)
  BY <1>1, <1>2, ForeignLine
<1>5. ASSUME NEW r \in Requests PROVE HistoryOf(r)'
  <2>1. HistoryOf(r)
    BY DEF AuditInv
  <2>2. CASE r # t
    BY <1>1, <1>3, <1>4, <2>1, <2>2 DEF HistoryOf
  <2>3. CASE r = t
    <3>1. /\ Outcome(e) = s /\ e \notin {NoEvent, LegacyBit}
          /\ ~IsNote(Line(r, e))
      BY <1>1 DEF Fits
    <3>2. trail[t] # <<>> => trail[t][Len(trail[t])] # e
      BY <1>1, <2>1, <2>3, <3>1 DEF HistoryOf
    <3>3. ASSUME NEW i \in 1..(Len(trail[t]) + 1)
          PROVE  /\ trail'[t][i] \notin {NoEvent, LegacyBit} /\ ~IsNote(Line(r, trail'[t][i]))
                 /\ i > 1 => trail'[t][i] # trail'[t][i - 1]
      <4>1. CASE i = Len(trail[t]) + 1
        <5>1. ASSUME i > 1
              PROVE  trail'[t][i - 1] = trail[t][Len(trail[t])] /\ trail[t] # <<>>
          <6>1. i - 1 = Len(trail[t]) /\ Len(trail[t]) \in 1..Len(trail[t])
            BY <1>2, <4>1, <5>1
          <6>2. QED
            BY <1>2, <1>3, <6>1
        <5>2. QED
          BY <1>3, <3>1, <3>2, <4>1, <5>1
      <4>2. CASE i # Len(trail[t]) + 1
        <5>1. i \in 1..Len(trail[t]) /\ (i > 1 => i - 1 \in 1..Len(trail[t]))
          BY <1>2, <4>2
        <5>2. QED
          BY <1>3, <2>1, <2>3, <5>1 DEF HistoryOf
      <4>3. QED
        BY <4>1, <4>2
    <3>4. Told(r)' # {} => \E i \in Told(r)' : \A j \in Told(r)' : j <= i
      BY <1>4, <2>1 DEF HistoryOf
    <3>5. trail'[t][Len(trail'[t])] = e /\ trail'[t] # <<>>
      <4>1. trail'[t][Len(trail'[t])] = e
        BY <1>3
      <4>2. trail[t] \in Seq(Events) /\ trail'[t] = Append(trail[t], e)
        BY <1>2, <1>3
      <4>3. QED
        BY <4>1, <4>2
    <3>6. /\ record'[r].state = Outcome(trail'[r][Len(trail'[r])])
          /\ record'[r].marker = trail'[r][Len(trail'[r])] /\ record'[r].marker # LegacyBit
          /\ trail'[r] # <<>>
      BY <1>1, <2>3, <3>1, <3>5
    <3>7. QED
      BY <1>3, <2>3, <3>3, <3>4, <3>6 DEF HistoryOf
  <2>4. QED
    BY <2>2, <2>3
<1>6. ASSUME NEW q \in Procs PROVE WritingOf(q)' /\ AnnouncedOf(q)'
  <2>1. CASE q = p
    BY <1>1, <2>1 DEF WritingOf, AnnouncedOf, At, Fits
  <2>2. CASE q # p
    BY <1>1, <2>2 DEF WritingOf, AnnouncedOf, At, Critical
  <2>3. QED
    BY <2>1, <2>2
<1>7. AuditKeepsUp'
  <2> SUFFICES ASSUME NEW r \in Requests
               PROVE  Tells(r, Len(trail[r]))' \/ (~Quiet(r)' /\ Tells(r, Len(trail[r]) - 1)')
    BY DEF AuditKeepsUp
  <2>1. CASE r = t
    <3>1. Tells(t, Len(trail[t]))
      <4>1. CASE Quiet(t)
        BY <4>1 DEF AuditInv, AuditKeepsUp
      <4>2. CASE record[t].marker = LegacyBit
        <5>1. Len(trail[t]) = 0
          BY <4>2 DEF AuditInv, HistoryOf
        <5>2. \A k \in Int : Tells(t, k) => k >= 0
          BY <1>2, ToldFinite DEF Tells
        <5>3. QED
          BY <5>1, <5>2 DEF AuditInv, AuditKeepsUp
      <4>3. QED
        BY <1>1, <4>1, <4>2
    <3>2. ~Quiet(t)'
      BY <1>1 DEF Quiet, Fits
    <3>3. /\ Cardinality(Heads(t)') = Len(trail[t])
          /\ \A i \in Told(t)' : /\ Rank(Heads(t), i)' \in 1..Len(trail[t])
                                 /\ audit'[i] = Line(t, trail'[t][Rank(Heads(t), i)'])
      BY <1>3, <1>4, <3>1, StillTells
    <3>4. Len(trail'[t]) - 1 = Len(trail[t])
      BY <1>2, <1>3
    <3>5. Tells(t, Len(trail[t]) - 1)'
      BY <3>3, <3>4 DEF Tells
    <3>6. QED
      BY <2>1, <3>2, <3>5
  <2>2. CASE r # t
    BY <1>1, <1>3, <1>4, <2>2 DEF AuditInv, AuditKeepsUp, Tells, Quiet
  <2>3. QED
    BY <2>1, <2>2
<1>8. EverySendAudited'
  BY <1>1 DEF AuditInv, EverySendAudited, Announced
<1>9. QED
  BY <1>5, <1>6, <1>7, <1>8 DEF AuditInv

\* A step that leaves records alone writes a note at most.
LEMMA AuditAside ==
  ASSUME IInv, IInv', AuditInv, Aside
  PROVE  AuditInv'
<1>1. /\ audit \in Seq(Lines) /\ audit' \in Seq(Lines)
      /\ UNCHANGED <<record, wire, trail, reopened>>
      /\ wire \in [Requests -> Seq(Fates)]
  BY DEF IInv, TypeOK, Aside
<1>2. \/ UNCHANGED audit
      \/ \E line \in Lines : audit' = Append(audit, line) /\ IsNote(line)
  BY DEF Aside, Spoken, Line, Lines, Events
<1>3. ASSUME NEW r \in Requests
      PROVE  /\ Told(r)' = Told(r) /\ Heads(r)' = Heads(r)
             /\ \A i \in Told(r) : audit'[i] = audit[i] /\ Rank(Heads(r), i)' = Rank(Heads(r), i)
             /\ Cardinality(Announced(r)) <= Cardinality(Announced(r)')
             /\ Cardinality(Announced(r)') \in Nat
  BY <1>1, <1>2, ForeignLine, MoreAnnounced
<1>4. ASSUME NEW r \in Requests PROVE HistoryOf(r)'
  BY <1>1, <1>3 DEF AuditInv, HistoryOf
<1>5. ASSUME NEW r \in Requests, NEW k, Tells(r, k) PROVE Tells(r, k)'
  BY <1>1, <1>3, <1>5 DEF Tells
<1>6. ASSUME NEW r \in Requests, Tells(r, Len(trail[r])) PROVE Tells(r, Len(trail[r]))'
  BY <1>1, <1>3, <1>6 DEF Tells
<1>7. ASSUME NEW p \in Procs PROVE WritingOf(p)' /\ AnnouncedOf(p)'
  <2>1. CASE proc'[p].pc \notin {"append", "clear", "send"}
    BY <2>1 DEF WritingOf, AnnouncedOf, At
  <2>2. CASE /\ proc'[p].pc = "append" /\ proc'[p].then = "sweep"
             /\ record[proc'[p].at].marker \notin {NoEvent, LegacyBit}
    BY <1>1, <2>2 DEF WritingOf, AnnouncedOf, At
  <2>3. CASE proc'[p] = proc[p]
    <3>1. WritingOf(p) /\ AnnouncedOf(p)
      BY DEF AuditInv
    <3>2. At(p, "clear") => proc[p].at \in Requests
      BY DEF At, IInv, Focus, FocusOf
    <3>3. ASSUME At(p, "clear") PROVE Tells(proc[p].at, Len(trail[proc[p].at]))'
      <4>1. proc[p].at \in Requests /\ Tells(proc[p].at, Len(trail[proc[p].at]))
        BY <3>1, <3>2, <3>3 DEF WritingOf
      <4>2. PICK r \in Requests : r = proc[p].at
        BY <4>1
      <4>3. Tells(r, Len(trail[r]))'
        BY <1>6, <4>1, <4>2
      <4>4. QED
        BY <2>3, <4>2, <4>3
    <3>4. WritingOf(p)'
      BY <1>1, <2>3, <3>1, <3>3 DEF WritingOf, At
    <3>5. AnnouncedOf(p)'
      <4> DEFINE sending == At(p, "send") \/ (At(p, "clear") /\ proc[p].then = "send")
      <4>1. sending => proc[p].target \in Requests
        <5>1. At(p, "clear") /\ proc[p].then = "send" => proc[p].at = proc[p].target /\ proc[p].at \in Requests
          BY DEF At, IInv, Focus, FocusOf
        <5>2. At(p, "send") => proc[p].target \in Requests
          BY DEF At, IInv, Focus, FocusOf
        <5>3. QED
          BY <5>1, <5>2
      <4>2. ASSUME sending, proc[p].target \notin LegacyRequests
            PROVE  Len(wire'[proc'[p].target]) < Cardinality(Announced(proc[p].target)')
        <5>1. PICK r \in Requests : r = proc[p].target
          BY <4>1, <4>2
        <5>2. Len(wire[r]) < Cardinality(Announced(r)) /\ Len(wire[r]) \in Nat
          BY <1>1, <3>1, <4>2, <5>1 DEF AnnouncedOf
        <5>3. Len(wire'[r]) < Cardinality(Announced(r)')
          BY <1>1, <1>3, <5>2, ToldFinite
        <5>4. QED
          BY <2>3, <5>1, <5>3 DEF Announced
      <4>3. QED
        BY <2>3, <4>2 DEF AnnouncedOf, At, Announced
    <3>6. QED
      BY <3>4, <3>5
  <2>4. QED
    BY <2>1, <2>2, <2>3 DEF Aside
<1>8. AuditKeepsUp'
  BY <1>1, <1>3 DEF AuditInv, AuditKeepsUp, Tells, Quiet
<1>9. EverySendAudited'
  <2> SUFFICES ASSUME NEW r \in Requests \ LegacyRequests
               PROVE  Len(wire'[r]) <= Cardinality(Announced(r)')
    BY DEF EverySendAudited
  <2>1. Len(wire[r]) <= Cardinality(Announced(r)) /\ Len(wire[r]) \in Nat
    BY <1>1 DEF AuditInv, EverySendAudited
  <2>2. QED
    BY <1>1, <1>3, <2>1, ToldFinite
<1>10. QED
  BY <1>4, <1>7, <1>8, <1>9 DEF AuditInv

\* A process appends the event it published, or one that a dead process left.
LEMMA AuditAppending ==
  ASSUME IInv, IInv', AuditInv, Appending
  PROVE  AuditInv'
<1>1. PICK p \in Procs : AppendAudit(p)
  BY DEF Appending
<1>2. PICK t \in Requests, line \in Lines :
        /\ t = proc[p].at /\ line = Line(t, record[t].marker) /\ At(p, "append")
        /\ audit' = Append(audit, line)
        /\ proc'[p].pc = "clear" /\ proc'[p].at = t /\ proc'[p].then = proc[p].then
        /\ proc'[p].target = proc[p].target
        /\ \A q \in Procs \ {p} : proc'[q] = proc[q] /\ proc[q].pc \notin Critical
        /\ UNCHANGED <<record, wire, trail, reopened>>
  BY <1>1, AppendFrame
<1>3. /\ audit \in Seq(Lines) /\ audit' \in Seq(Lines) /\ trail \in [Requests -> Seq(Events)]
      /\ wire \in [Requests -> Seq(Fates)]
  BY DEF IInv, TypeOK
<1>4. /\ trail[t] # <<>> /\ record[t].marker = trail[t][Len(trail[t])]
      /\ trail[t] \in Seq(Events) /\ HistoryOf(t)
  <2>1. record[t].marker \notin {NoEvent, LegacyBit}
    BY <1>2 DEF AuditInv, WritingOf
  <2>2. QED
    BY <1>3, <2>1 DEF AuditInv, HistoryOf
<1>5. /\ Tells(t, Len(trail[t]))'
      /\ \A j \in Told(t)' : j <= Len(audit) + 1
      /\ Len(audit) + 1 \in Told(t)'
  <2>1. Tells(t, Len(trail[t])) \/ Tells(t, Len(trail[t]) - 1)
    BY DEF AuditInv, AuditKeepsUp
  <2>2. line = Line(t, trail[t][Len(trail[t])])
    BY <1>2, <1>4
  <2>3. QED
    BY <1>2, <1>3, <1>4, <2>1, <2>2, AppendTells
<1>6. ASSUME NEW r \in Requests \ {t}
      PROVE  /\ Told(r)' = Told(r) /\ Heads(r)' = Heads(r)
             /\ \A i \in Told(r) : audit'[i] = audit[i] /\ Rank(Heads(r), i)' = Rank(Heads(r), i)
  <2>1. line.request # r
    BY <1>2, <1>6 DEF Line
  <2>2. QED
    BY <1>2, <1>3, <2>1, ForeignLine
<1>7. ASSUME NEW r \in Requests
      PROVE  /\ Announced(r) \subseteq Announced(r)'
             /\ Cardinality(Announced(r)) <= Cardinality(Announced(r)')
             /\ Cardinality(Announced(r)') \in Nat /\ Cardinality(Announced(r)) \in Nat
  BY <1>2, <1>3, MoreAnnounced, ToldFinite
<1>8. ASSUME NEW r \in Requests PROVE HistoryOf(r)'
  <2>1. HistoryOf(r)
    BY DEF AuditInv
  <2>2. Told(r)' # {} => \E i \in Told(r)' : \A j \in Told(r)' : j <= i
    BY <1>5, <1>6, <2>1 DEF HistoryOf
  <2>3. QED
    BY <1>2, <2>1, <2>2 DEF HistoryOf
<1>9. ASSUME NEW q \in Procs \ {p} PROVE WritingOf(q)' /\ AnnouncedOf(q)'
  BY <1>2 DEF WritingOf, AnnouncedOf, At, Critical
<1>10. WritingOf(p)'
  <2>1. proc'[p].at = t /\ ~At(p, "append")'
    BY <1>2 DEF At
  <2>2. Tells(t, Len(trail[t]))'
    BY <1>5
  <2>3. QED
    BY <2>1, <2>2 DEF WritingOf
<1>11. AnnouncedOf(p)'
  <2> SUFFICES ASSUME proc[p].then = "send", proc[p].target \notin LegacyRequests
               PROVE  Len(wire[proc[p].target]) < Cardinality(Announced(proc[p].target)')
    <3>1. At(p, "send")' \/ (At(p, "clear")' /\ proc'[p].then = "send") => proc[p].then = "send"
      BY <1>2 DEF At
    <3>2. wire'[proc'[p].target] = wire[proc[p].target] /\ proc'[p].target = proc[p].target
      BY <1>2
    <3>3. QED
      BY <3>1, <3>2 DEF AnnouncedOf, Announced
  <2>1. proc[p].target = t
    BY <1>2 DEF At, IInv, Focus, FocusOf
  <2>2. record[t].marker = Event("approve", "sending")
    BY <1>2 DEF AuditInv, WritingOf
  <2>3. Len(wire[t]) <= Cardinality(Announced(t)) /\ Len(wire[t]) \in Nat
    BY <1>3, <2>1 DEF AuditInv, EverySendAudited
  <2>4. Len(audit) + 1 \in Announced(t)' /\ Len(audit) + 1 \notin Announced(t)
    BY <1>2, <1>3, <2>2 DEF Announced
  <2>5. IsFiniteSet(Announced(t)) /\ IsFiniteSet(Announced(t)')
    <3>1. /\ Announced(t) \subseteq 1..Len(audit) /\ Len(audit) \in Nat
          /\ Announced(t)' \subseteq 1..Len(audit') /\ Len(audit') \in Nat
      BY <1>3 DEF Announced
    <3>2. IsFiniteSet(1..Len(audit)) /\ IsFiniteSet(1..Len(audit'))
      BY <3>1, FS_Interval
    <3>3. QED
      BY <3>1, <3>2, FS_Subset
  <2>6. Cardinality(Announced(t)) # Cardinality(Announced(t)')
    <3>1. Cardinality(Announced(t)') = Cardinality(Announced(t)) => Announced(t)' = Announced(t)
      BY <1>7, <2>5, FS_Subset
    <3>2. QED
      BY <2>4, <3>1
  <2>7. Len(wire[t]) < Cardinality(Announced(t)')
    BY <1>7, <2>3, <2>6
  <2>8. QED
    BY <1>2, <2>1, <2>7 DEF Announced
<1>12. AuditKeepsUp'
  <2> SUFFICES ASSUME NEW r \in Requests
               PROVE  Tells(r, Len(trail[r]))' \/ (~Quiet(r)' /\ Tells(r, Len(trail[r]) - 1)')
    BY DEF AuditKeepsUp
  <2>1. CASE r = t
    BY <1>5, <2>1
  <2>2. CASE r # t
    <3>1. /\ Told(r)' = Told(r) /\ Heads(r)' = Heads(r)
          /\ \A i \in Told(r) : audit'[i] = audit[i] /\ Rank(Heads(r), i)' = Rank(Heads(r), i)
      BY <1>6, <2>2
    <3>2. Tells(r, Len(trail[r])) \/ (~Quiet(r) /\ Tells(r, Len(trail[r]) - 1))
      BY DEF AuditInv, AuditKeepsUp
    <3>3. Quiet(r)' <=> Quiet(r)
      BY <1>2 DEF Quiet
    <3>4. ASSUME Tells(r, Len(trail[r])) PROVE Tells(r, Len(trail[r]))'
      BY <1>2, <3>1, <3>4 DEF Tells
    <3>5. ASSUME Tells(r, Len(trail[r]) - 1) PROVE Tells(r, Len(trail[r]) - 1)'
      BY <1>2, <3>1, <3>5 DEF Tells
    <3>6. QED
      BY <3>2, <3>3, <3>4, <3>5
  <2>3. QED
    BY <2>1, <2>2
<1>13. EverySendAudited'
  <2> SUFFICES ASSUME NEW r \in Requests \ LegacyRequests
               PROVE  Len(wire'[r]) <= Cardinality(Announced(r)')
    BY DEF EverySendAudited
  <2>1. Len(wire[r]) <= Cardinality(Announced(r)) /\ Len(wire[r]) \in Nat
    BY <1>3 DEF AuditInv, EverySendAudited
  <2>2. QED
    BY <1>2, <1>7, <2>1
<1>14. QED
  BY <1>8, <1>9, <1>10, <1>11, <1>12, <1>13 DEF AuditInv

\* A marker is cleared when its line is in the file; a POST is made when it is announced;
\* what GitHub does with it concerns nobody here.
LEMMA AuditRest ==
  ASSUME IInv, AuditInv, Clearing \/ Posting \/ GitHub
  PROVE  AuditInv'
<1>1. UNCHANGED <<audit, trail>>
  BY ClearFrame, PostFrame, SettleFrame DEF Clearing, Posting
<1>2. ASSUME NEW r \in Requests
      PROVE  /\ Told(r)' = Told(r) /\ Heads(r)' = Heads(r) /\ Announced(r)' = Announced(r)
             /\ \A k : Tells(r, k)' <=> Tells(r, k)
  BY <1>1 DEF Told, Heads, Announced, Tells, Rank
<1>3. audit \in Seq(Lines) /\ wire \in [Requests -> Seq(Fates)] /\ record \in [Requests -> Record]
  BY DEF IInv, TypeOK
<1>4. CASE Clearing
  <2>1. PICK p \in Procs : ClearMarker(p)
    BY <1>4 DEF Clearing
  <2>2. PICK t \in Requests :
          /\ t = proc[p].at /\ At(p, "clear")
          /\ \A q \in Requests : record'[q].state = record[q].state
          /\ record'[t].marker = NoEvent
          /\ \A q \in Requests \ {t} : record'[q] = record[q]
          /\ \/ proc'[p].pc = "idle"
             \/ /\ proc'[p].pc = proc[p].then /\ proc'[p].pc \in {"sweep", "send"}
                /\ proc'[p].target = proc[p].target
          /\ \A q \in Procs \ {p} : proc'[q] = proc[q] /\ proc[q].pc \notin Critical
          /\ UNCHANGED wire
    BY <2>1, ClearFrame
  <2>3. NoEvent # LegacyBit
    BY DEF NoEvent, LegacyBit, Event
  <2>4. \A r \in Requests : HistoryOf(r)'
    BY <1>1, <1>2, <2>2, <2>3 DEF AuditInv, HistoryOf
  <2>5. Tells(t, Len(trail[t]))'
    BY <1>2, <1>1, <2>2 DEF AuditInv, WritingOf
  <2>6. AuditKeepsUp'
    BY <1>1, <1>2, <2>2, <2>5 DEF AuditInv, AuditKeepsUp, Quiet
  <2>7. EverySendAudited'
    BY <1>2, <2>2 DEF AuditInv, EverySendAudited
  <2>8. ASSUME NEW q \in Procs PROVE WritingOf(q)'
    BY <2>2 DEF WritingOf, At, Critical
  <2>9. ASSUME NEW q \in Procs PROVE AnnouncedOf(q)'
    <3>1. CASE q # p
      BY <2>2, <3>1 DEF AnnouncedOf, At, Critical
    <3>2. CASE q = p
      BY <1>1, <2>2, <3>2 DEF AuditInv, AnnouncedOf, At, Announced
    <3>3. QED
      BY <3>1, <3>2
  <2>10. QED
    BY <2>4, <2>6, <2>7, <2>8, <2>9 DEF AuditInv
<1>5. CASE Posting
  <2>1. PICK p \in Procs : PostBody(p)
    BY <1>5 DEF Posting
  <2>2. PICK t \in Requests :
          /\ t = proc[p].target /\ At(p, "send")
          /\ wire' = [wire EXCEPT ![t] = Append(wire[t], "sent")]
          /\ proc'[p].pc = "await"
          /\ \A q \in Procs \ {p} : proc'[q] = proc[q] /\ proc[q].pc \notin Critical
          /\ UNCHANGED record
    BY <2>1, PostFrame
  <2>3. /\ \A r \in Requests : HistoryOf(r)'
        /\ AuditKeepsUp'
    <3>1. \A r \in Requests : HistoryOf(r)'
      BY <1>1, <1>2, <2>2 DEF AuditInv, HistoryOf
    <3>2. AuditKeepsUp'
      BY <1>1, <1>2, <2>2 DEF AuditInv, AuditKeepsUp, Quiet
    <3>3. QED
      BY <3>1, <3>2
  <2>4. ASSUME NEW r \in Requests \ LegacyRequests PROVE Len(wire'[r]) <= Cardinality(Announced(r)')
    <3>1. /\ Len(wire[r]) <= Cardinality(Announced(r)) /\ Len(wire[r]) \in Nat
          /\ Cardinality(Announced(r)) \in Nat
      BY <1>3, ToldFinite DEF AuditInv, EverySendAudited
    <3>2. CASE r = t
      <4>1. Len(wire[r]) < Cardinality(Announced(r))
        BY <2>2, <3>2 DEF AuditInv, AnnouncedOf
      <4>2. Len(wire'[r]) = Len(wire[r]) + 1
        BY <1>3, <2>2, <3>2
      <4>3. QED
        BY <1>2, <3>1, <4>1, <4>2
    <3>3. CASE r # t
      BY <1>2, <1>3, <2>2, <3>1, <3>3
    <3>4. QED
      BY <3>2, <3>3
  <2>5. \A q \in Procs : WritingOf(q)' /\ AnnouncedOf(q)'
    BY <2>2 DEF WritingOf, AnnouncedOf, At, Critical
  <2>6. QED
    BY <2>3, <2>4, <2>5 DEF AuditInv, EverySendAudited
<1>6. CASE GitHub
  <2>1. (\A r \in Requests : Len(wire'[r]) = Len(wire[r])) /\ UNCHANGED <<record, proc>>
    BY <1>6, SettleFrame
  <2>2. (\A r \in Requests : HistoryOf(r)') /\ AuditKeepsUp'
    BY <1>1, <1>2, <2>1 DEF AuditInv, HistoryOf, AuditKeepsUp, Quiet
  <2>3. EverySendAudited'
    BY <1>2, <2>1 DEF AuditInv, EverySendAudited
  <2>4. ASSUME NEW q \in Procs PROVE WritingOf(q)'
    <3>1. At(q, "clear") => proc[q].at \in Requests
      BY DEF At, IInv, Focus, FocusOf
    <3>2. WritingOf(q)
      BY DEF AuditInv
    <3>3. ASSUME At(q, "clear") PROVE Tells(proc[q].at, Len(trail[proc[q].at]))'
      <4>1. PICK r \in Requests : r = proc[q].at
        BY <3>1, <3>3
      <4>2. Tells(r, Len(trail[r]))
        BY <3>2, <3>3, <4>1 DEF WritingOf
      <4>3. Tells(r, Len(trail[r]))'
        BY <1>1, <4>2 DEF Tells, Told, Heads, Rank
      <4>4. QED
        BY <2>1, <4>1, <4>3
    <3>4. QED
      BY <1>1, <2>1, <3>2, <3>3 DEF WritingOf, At
  <2>5. ASSUME NEW q \in Procs PROVE AnnouncedOf(q)'
    <3>1. At(q, "send") \/ (At(q, "clear") /\ proc[q].then = "send") => proc[q].target \in Requests
      BY DEF At, IInv, Focus, FocusOf
    <3>2. AnnouncedOf(q)
      BY DEF AuditInv
    <3>3. QED
      BY <1>1, <2>1, <3>1, <3>2 DEF AnnouncedOf, At, Announced
  <2>6. QED
    BY <2>2, <2>3, <2>4, <2>5 DEF AuditInv
<1>7. QED
  BY <1>4, <1>5, <1>6

-----------------------------------------------------------------------------
(* The whole invariant of the store                                        *)

StoreInv == IInv /\ CapacityRespected /\ CreatedIsReal /\ LostInv /\ AuditInv

LEMMA InitStore == Init => StoreInv
<1> SUFFICES ASSUME Init PROVE StoreInv
  OBVIOUS
<1>1. IInv /\ AuditInv
  BY InitIInv, InitAudit
<1>2. PICK legacy \in SUBSET LegacyRequests :
        /\ record = [r \in Requests |->
                       IF r \in legacy
                         THEN [Unseen EXCEPT !.state = "unknown", !.marker = LegacyBit]
                         ELSE Unseen]
        /\ wire = [r \in Requests |-> IF r \in legacy THEN <<"sent">> ELSE <<>>]
  BY DEF Init
<1>3. \A r \in Requests :
        /\ record[r].state = IF r \in legacy THEN "unknown" ELSE "absent"
        /\ wire[r] = IF r \in legacy THEN <<"sent">> ELSE <<>>
  BY <1>2 DEF Unseen
<1>4. CapacityRespected
  <2>1. Unfinished \subseteq LegacyRequests
    BY <1>3 DEF Unfinished, ContentStates
  <2>2. IsFiniteSet(LegacyRequests)
    BY RequestsAssumption, FS_Subset
  <2>3. Cardinality(Unfinished) <= Cardinality(LegacyRequests)
        /\ Cardinality(Unfinished) \in Nat /\ Cardinality(LegacyRequests) \in Nat
    BY <2>1, <2>2, FS_Subset, FS_CardinalityType
  <2>4. QED
    BY <2>3, BoundsAssumption DEF CapacityRespected
<1>5. CreatedIsReal
  BY <1>3 DEF CreatedIsReal
<1>6. LostInv
  <2>1. ASSUME NEW r \in Requests
        PROVE  /\ \A n \in DOMAIN wire[r] : n < Len(wire[r]) => wire[r][n] = "lost"
               /\ record[r].state \in {"absent", "pending", "rejected", "expired"} => AllLost(r)
    <3>1. CASE r \in legacy
      <4>1. record[r].state = "unknown" /\ DOMAIN wire[r] = 1..1 /\ Len(wire[r]) = 1
        BY <1>3, <3>1
      <4>2. QED
        BY <4>1
    <3>2. CASE r \notin legacy
      BY <1>3, <3>2 DEF AllLost
    <3>3. QED
      BY <3>1, <3>2
  <2>2. \A p \in Procs : ~Unsent(p)
    BY DEF Init, Unsent, At, Idle
  <2>3. QED
    BY <2>1, <2>2 DEF LostInv
<1>7. QED
  BY <1>1, <1>4, <1>5, <1>6 DEF StoreInv

LEMMA NextStore == StoreInv /\ [Next]_vars => StoreInv'
<1> SUFFICES ASSUME StoreInv, [Next]_vars PROVE StoreInv'
  OBVIOUS
<1>1. IInv /\ IInv'
  BY NextIInv DEF StoreInv
<1>2. CASE Next
  <2>1. Kinds
    BY <1>1, <1>2, StepKinds
  <2>2. AuditInv'
    BY <1>1, <2>1, AuditPublishing, AuditAside, AuditAppending, AuditRest DEF Kinds, StoreInv
  <2>3. QED
    BY <1>1, <2>1, <2>2, CapacityStep, CreatedStep, LostStep DEF StoreInv
<1>3. CASE UNCHANGED vars
  <2>1. UNCHANGED <<record, wire, audit, trail, proc>>
    BY <1>3 DEF vars
  <2>2. CapacityRespected' /\ CreatedIsReal'
    BY <2>1 DEF StoreInv, CapacityRespected, CreatedIsReal, Unfinished, Landed,
       Resolved
  <2>3. LostInv'
    BY <2>1 DEF StoreInv, LostInv, AllLost, Unsent, At
  <2>4. Aside
    BY <1>3, <2>1 DEF Aside, Spoken, vars
  <2>5. AuditInv'
    BY <1>1, <2>4, AuditAside DEF StoreInv
  <2>6. QED
    BY <1>1, <2>2, <2>3, <2>5 DEF StoreInv
<1>4. QED
  BY <1>2, <1>3

\* Everything the store promises beyond its types and its lock holds together in every
\* reachable state.
THEOREM StoreInvariant == Spec => []StoreInv
  BY InitStore, NextStore, PTL DEF Spec

\* However intake, resolutions and inherited records mix, the store never holds more
\* unfinished requests than _MAX_UNFINISHED.
THEOREM CapacityIsRespected == Spec => []CapacityRespected
<1>1. StoreInv => CapacityRespected
  BY DEF StoreInv
<1>2. QED
  BY <1>1, StoreInvariant, PTL

\* A record that says created names an Issue that exists and has its content: that of the
\* request's own last POST (FamilyIssueCreator.create), or one that an operator named and
\* verify_existing found.
THEOREM CreatedAreReal == Spec => []CreatedIsReal
<1>1. StoreInv => CreatedIsReal
  BY DEF StoreInv
<1>2. QED
  BY <1>1, StoreInvariant, PTL

\* As long as operators wait for every POST to be settled before they answer not-created,
\* a request makes at most one Issue.
THEOREM IssuesAreUnique == Spec => []AtMostOneIssue
<1>1. StoreInv => AtMostOneIssue
  <2> SUFFICES ASSUME StoreInv, CarefulOperator, NEW r \in Requests,
                      NEW m \in Landed(r), NEW n \in Landed(r)
               PROVE  m = n
    BY DEF AtMostOneIssue
  <2>1. wire[r] \in Seq(Fates)
    BY DEF StoreInv, IInv, TypeOK
  <2>2. /\ DOMAIN wire[r] = 1..Len(wire[r]) /\ Len(wire[r]) \in Nat
        /\ m \in DOMAIN wire[r] /\ n \in DOMAIN wire[r]
        /\ wire[r][m] = "landed" /\ wire[r][n] = "landed"
    BY <2>1 DEF Landed
  <2>3. \A k \in DOMAIN wire[r] : k < Len(wire[r]) => wire[r][k] = "lost"
    BY DEF StoreInv, LostInv
  <2>4. QED
    BY <2>2, <2>3
<1>2. QED
  BY <1>1, StoreInvariant, PTL

\* The audit file tells every request's history, complete and in order, up to the event its
\* record still carries, through any crash and any number of sweeps.
THEOREM AuditIsComplete == Spec => []AuditKeepsUp
<1>1. StoreInv => AuditKeepsUp
  BY DEF StoreInv, AuditInv
<1>2. QED
  BY <1>1, StoreInvariant, PTL

\* No body goes to GitHub before the audit file has announced it.
THEOREM SendsAreAnnounced == Spec => []EverySendAudited
<1>1. StoreInv => EverySendAudited
  BY DEF StoreInv, AuditInv
<1>2. QED
  BY <1>1, StoreInvariant, PTL

-----------------------------------------------------------------------------
(* The store implements the abstract life of a request                     *)

LEMMA InitLife == Init => Life!Init
<1> SUFFICES ASSUME Init PROVE Life!Init
  OBVIOUS
<1>1. PICK legacy \in SUBSET LegacyRequests :
        /\ record = [r \in Requests |->
                       IF r \in legacy
                         THEN [Unseen EXCEPT !.state = "unknown", !.marker = LegacyBit]
                         ELSE Unseen]
        /\ wire = [r \in Requests |-> IF r \in legacy THEN <<"sent">> ELSE <<>>]
  BY DEF Init
<1>2. ASSUME NEW r \in Requests
      PROVE  /\ record[r].state = IF r \in legacy THEN "unknown" ELSE "absent"
             /\ Len(wire[r]) = IF r \in legacy THEN 1 ELSE 0
  <2>1. CASE r \in legacy
    BY <1>1, <2>1 DEF Unseen
  <2>2. CASE r \notin legacy
    BY <1>1, <2>2 DEF Unseen
  <2>3. QED
    BY <2>1, <2>2
<1>3. QED
  BY <1>2 DEF Init, Life!Init

\* A publication is the move of the abstract life that its reason stands for.
LEMMA LifePublishing ==
  ASSUME IInv, Publishing
  PROVE  Life!Next
<1>1. PICK p \in Procs, t \in Requests, s \in States, e \in Events, n \in Issues \cup {NoIssue},
           resume \in {"idle", "sweep", "send"} : Publishes(p, t, s, e, n, resume)
  BY DEF Publishing
<1>2. /\ record'[t].state = s /\ \A q \in Requests \ {t} : record'[q] = record[q]
      /\ UNCHANGED wire
  BY <1>1, PublishesFrame
<1> DEFINE status == [r \in Requests |-> record[r].state]
           sends == [r \in Requests |-> Len(wire[r])]
<1>3. status' = [status EXCEPT ![t] = s]
  BY <1>2
<1>4. sends' = sends /\ status[t] = record[t].state /\ sends[t] = Len(wire[t])
  BY <1>2
<1>5. Len(wire[t]) \in Nat /\ (wire[t] # <<>> => Len(wire[t]) > 0)
  BY DEF IInv, TypeOK
<1>6. ASSUME record[t].state = "sending", s = "pending" PROVE Len(wire[t]) <= reopened[t]
  BY <1>1, <1>6 DEF Publishes, Reason, IInv, Phases, PhaseOf, Unsent
<1> HIDE DEF status, sends
<1>7. CASE record[t].state = "absent" /\ s = "pending" /\ UNCHANGED reopened
  BY <1>3, <1>4, <1>7 DEF Life!Next, Life!Submit, Life!Move, status, sends
<1>8. CASE record[t].state = "pending" /\ s \in {"rejected", "expired"} /\ UNCHANGED reopened
  BY <1>3, <1>4, <1>8 DEF Life!Next, Life!Dismiss, Life!Move, status, sends
<1>9. CASE record[t].state = "pending" /\ s = "sending" /\ UNCHANGED reopened
  BY <1>3, <1>4, <1>9 DEF Life!Next, Life!Claim, Life!Move, status, sends
<1>10. CASE record[t].state = "sending" /\ s = "pending" /\ UNCHANGED reopened
  BY <1>3, <1>4, <1>6, <1>10 DEF Life!Next, Life!GiveBack, Life!Unsent, Life!Move, status, sends
<1>11. CASE record[t].state = "sending" /\ s = "unknown" /\ UNCHANGED reopened
  BY <1>3, <1>4, <1>11 DEF Life!Next, Life!Doubt, Life!Move, status, sends
<1>12. CASE record[t].state = "sending" /\ s = "created" /\ wire[t] # <<>> /\ UNCHANGED reopened
  BY <1>3, <1>4, <1>5, <1>12 DEF Life!Next, Life!Succeed, Life!Move, status, sends
<1>13. CASE record[t].state = "unknown" /\ s = "created" /\ UNCHANGED reopened
  BY <1>3, <1>4, <1>13 DEF Life!Next, Life!ResolveCreated, Life!Move, status, sends
<1>14. CASE /\ record[t].state = "unknown" /\ s = "pending"
            /\ reopened' = [reopened EXCEPT ![t] = reopened[t] + 1]
  BY <1>3, <1>4, <1>14 DEF Life!Next, Life!ResolveNotCreated, Life!Move, status, sends
<1>15. QED
  BY <1>1, <1>7, <1>8, <1>9, <1>10, <1>11, <1>12, <1>13, <1>14 DEF Publishes, Reason

\* Every step of the store is a move of the abstract life or changes nothing it shows.
LEMMA LifeStep ==
  ASSUME IInv, [Next]_vars
  PROVE  [Life!Next]_Life!vars
<1>1. ASSUME UNCHANGED reopened,
             \A r \in Requests : record'[r].state = record[r].state /\ Len(wire'[r]) = Len(wire[r])
      PROVE  UNCHANGED Life!vars
  BY <1>1 DEF Life!vars
<1>2. CASE UNCHANGED vars
  BY <1>1, <1>2 DEF vars
<1>3. CASE Publishing
  BY <1>3, LifePublishing
<1>4. CASE Posting
  <2>1. PICK p \in Procs : PostBody(p)
    BY <1>4 DEF Posting
  <2>2. PICK t \in Requests :
          /\ record[t].state = "sending" /\ Len(wire[t]) <= reopened[t]
          /\ wire' = [wire EXCEPT ![t] = Append(wire[t], "sent")]
          /\ UNCHANGED <<record, reopened>>
    BY <2>1, PostFrame
  <2>3. /\ Len(wire'[t]) = Len(wire[t]) + 1
        /\ \A r \in Requests \ {t} : wire'[r] = wire[r]
    BY <2>2 DEF IInv, TypeOK
  <2> DEFINE status == [r \in Requests |-> record[r].state]
             sends == [r \in Requests |-> Len(wire[r])]
  <2>4. status' = status /\ status[t] = "sending"
    BY <2>2
  <2>5. sends' = [sends EXCEPT ![t] = sends[t] + 1] /\ sends[t] <= reopened[t]
    <3>1. sends[t] = Len(wire[t])
      OBVIOUS
    <3>2. sends' = [r \in Requests |-> IF r = t THEN Len(wire[t]) + 1 ELSE Len(wire[r])]
      BY <2>3
    <3>3. QED
      BY <2>2, <3>1, <3>2
  <2> HIDE DEF status, sends
  <2>6. Life!Send(t)
    BY <2>2, <2>4, <2>5 DEF Life!Send, Life!Unsent, status, sends
  <2>7. QED
    BY <2>6 DEF Life!Next
<1>5. CASE Aside \/ Migrating \/ Appending \/ Clearing \/ GitHub
  <2>1. UNCHANGED reopened
    BY <1>5, MigrateFrame, AppendFrame, ClearFrame, SettleFrame
    DEF Aside, Migrating, Appending, Clearing
  <2>2. \A r \in Requests : record'[r].state = record[r].state /\ Len(wire'[r]) = Len(wire[r])
    BY <1>5, MigrateFrame, AppendFrame, ClearFrame, SettleFrame
    DEF Aside, Migrating, Appending, Clearing
  <2>3. QED
    BY <1>1, <2>1, <2>2
<1>6. QED
  BY <1>2, <1>3, <1>4, <1>5, StepKinds DEF Kinds

\* The store with its locks, markers, crashes and processes implements the life of a request
\* as an operator may think of it (FamilyApproval).
THEOREM StoreImplementsApproval == Spec => ImplementsApproval
<1>1. Init => Life!Init
  BY InitLife
<1>2. IInv /\ [Next]_vars => [Life!Next]_Life!vars
  BY LifeStep
<1>3. QED
  BY <1>1, <1>2, InvariantHolds, PTL DEF Spec, ImplementsApproval, Life!Spec

=============================================================================
