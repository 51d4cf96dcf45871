--------------------------- MODULE HandoverWriter ---------------------------
(***************************************************************************)
(* create_atomic_handover (handover_writer.py) with its callers: requests  *)
(* of the handover broker (handover_broker_transport.py), which publish    *)
(* under the session's lifecycle lock, and host commands, which publish    *)
(* into the same project directory without one.  A document is written to  *)
(* a temporary name, synced, and hard-linked to its final name, which may  *)
(* be taken; every failure rolls back.  The machine may crash at any time. *)
(***************************************************************************)
EXTENDS Integers, FiniteSets

CONSTANTS
  Writers,     \* one call of create_atomic_handover each
  Guarded,     \* the calls of the broker
  Names,       \* final names the calls may draw
  MaxAttempts, \* range(8)
  Nobody,      \* a name without an entry
  Earlier      \* a document from before

ASSUME GuardedAssumption == Guarded \subseteq Writers
ASSUME EntryAssumption == Nobody \notin Writers /\ Earlier \notin Writers /\ Nobody # Earlier
ASSUME AttemptsAssumption == MaxAttempts \in Nat

VARIABLES
  pc,          \* [Writers -> Labels]
  tries,       \* [Writers -> 0..MaxAttempts]
  name,        \* [Writers -> Names], the final name of the current attempt
  published,   \* [Writers -> BOOLEAN]
  broken,      \* [Writers -> BOOLEAN], the rollback failed
  temps,       \* writers whose temporary name exists
  synced,      \* writers whose document is on disk
  entries,     \* [Names -> Entry], the directory
  maybe,       \* [Names -> SUBSET Entry], what a crash may leave of it
  revoked,     \* the session's _closed
  crashed

files == <<temps, synced, entries, maybe>>
calls == <<pc, tries, name, published, broken>>
vars == <<calls, files, revoked, crashed>>

Entry == Writers \cup {Nobody, Earlier}
Labels == {"attempt", "write", "publish", "linked", "unlinked", "retry", "rollback",
           "sweep", "ok", "error"}

Init ==
  /\ pc = [w \in Writers |-> "attempt"]
  /\ tries = [w \in Writers |-> 0]
  /\ name \in [Writers -> Names]
  /\ published = [w \in Writers |-> FALSE]
  /\ broken = [w \in Writers |-> FALSE]
  /\ temps = {} /\ synced = {}
  /\ entries \in [Names -> {Nobody, Earlier}]
  /\ maybe = [n \in Names |-> {entries[n]}]
  /\ revoked = FALSE /\ crashed = FALSE

At(w, label) == ~crashed /\ pc[w] = label
Move(w, label) == pc' = [pc EXCEPT ![w] = label]

\* A change of the directory that a crash may or may not undo.
SetEntry(n, e) ==
  /\ entries' = [entries EXCEPT ![n] = e]
  /\ maybe' = [maybe EXCEPT ![n] = @ \cup {e}]

\* A fresh temporary name, a final name drawn anew; opening the file may fail.
BeginAttempt(w) ==
  /\ At(w, "attempt") /\ tries[w] < MaxAttempts
  /\ tries' = [tries EXCEPT ![w] = @ + 1]
  /\ \E n \in Names : name' = [name EXCEPT ![w] = n]
  /\ \/ Move(w, "write") /\ temps' = temps \cup {w}
     \/ Move(w, "error") /\ UNCHANGED temps
  /\ UNCHANGED <<published, broken, synced, entries, maybe, revoked, crashed>>

\* "could not allocate unique handover path"
GiveUp(w) ==
  /\ At(w, "attempt") /\ tries[w] = MaxAttempts
  /\ Move(w, "error")
  /\ UNCHANGED <<tries, name, published, broken, files, revoked, crashed>>

\* Mutant: the document is written and not synced.
WriteDocument_Unsynced(w) ==
  /\ At(w, "write")
  /\ Move(w, "publish")
  /\ UNCHANGED <<tries, name, published, broken, files, revoked, crashed>>

\* Mode, content, fsync of the file and a look at the project directory.
WriteDocument(w) ==
  /\ At(w, "write")
  /\ \/ Move(w, "publish") /\ synced' = synced \cup {w}
     \/ Move(w, "rollback") /\ UNCHANGED synced
  /\ UNCHANGED <<tries, name, published, broken, temps, entries, maybe, revoked, crashed>>

\* Mutant: a broker that is closing still publishes.
Refused_Never(w) == FALSE

\* The guard raises for a closed session.
Refused(w) == w \in Guarded /\ revoked

\* One step: the guard holds the lifecycle lock, and the link itself is atomic.
Publish(w) ==
  /\ At(w, "publish") /\ ~Refused(w) /\ entries[name[w]] = Nobody
  /\ Move(w, "linked") /\ published' = [published EXCEPT ![w] = TRUE]
  /\ SetEntry(name[w], w)
  /\ UNCHANGED <<tries, name, broken, temps, synced, revoked, crashed>>

\* FileExistsError: the attempt is cleaned up and the loop continues.
NameIsTaken(w) ==
  /\ At(w, "publish") /\ ~Refused(w) /\ entries[name[w]] # Nobody
  /\ Move(w, "retry")
  /\ UNCHANGED <<tries, name, published, broken, files, revoked, crashed>>

\* The guard raises because the session is closed, or the identity check or link fails.
PublishFails(w) ==
  /\ At(w, "publish")
  /\ Move(w, "rollback")
  /\ UNCHANGED <<tries, name, published, broken, files, revoked, crashed>>

Retry(w) ==
  /\ At(w, "retry")
  /\ \/ Move(w, "attempt") /\ temps' = temps \ {w} /\ UNCHANGED broken
     \/ Move(w, "error") /\ broken' = [broken EXCEPT ![w] = TRUE] /\ UNCHANGED temps
  /\ UNCHANGED <<tries, name, published, synced, entries, maybe, revoked, crashed>>

UnlinkTemporary(w) ==
  /\ At(w, "linked")
  /\ \/ Move(w, "unlinked") /\ temps' = temps \ {w}
     \/ Move(w, "rollback") /\ UNCHANGED temps
  /\ UNCHANGED <<tries, name, published, broken, synced, entries, maybe, revoked, crashed>>

\* fsync of the directory settles everybody's changes; the checks after it may still fail.
SyncDirectory(w) ==
  /\ At(w, "unlinked")
  /\ Move(w, "ok") \/ Move(w, "rollback")
  /\ maybe' = [n \in Names |-> {entries[n]}]
  /\ UNCHANGED <<tries, name, published, broken, temps, synced, entries, revoked, crashed>>

\* Mutant: the rollback takes back the temporary file only.
RollBackFinal_Kept(w) ==
  /\ At(w, "rollback")
  /\ Move(w, "sweep")
  /\ UNCHANGED <<tries, name, published, broken, files, revoked, crashed>>

\* The final name, if this attempt published it.
RollBackFinal(w) ==
  /\ At(w, "rollback")
  /\ Move(w, "sweep")
  /\ \/ ~published[w] /\ UNCHANGED <<broken, entries, maybe>>
     \/ published[w] /\ SetEntry(name[w], Nobody) /\ UNCHANGED broken
     \/ published[w] /\ broken' = [broken EXCEPT ![w] = TRUE] /\ UNCHANGED <<entries, maybe>>
  /\ UNCHANGED <<tries, name, published, temps, synced, revoked, crashed>>

\* The temporary name, if it is still there.
SweepTemporary(w) ==
  /\ At(w, "sweep")
  /\ Move(w, "error")
  /\ \/ temps' = temps \ {w} /\ UNCHANGED broken
     \/ w \in temps /\ broken' = [broken EXCEPT ![w] = TRUE] /\ UNCHANGED temps
  /\ UNCHANGED <<tries, name, published, synced, entries, maybe, revoked, crashed>>

\* deactivate() takes the lifecycle lock.
Deactivate ==
  /\ ~crashed /\ ~revoked
  /\ revoked' = TRUE
  /\ UNCHANGED <<calls, files, crashed>>

\* The directory keeps, name by name, one of the entries since it was last synced.
Crash ==
  /\ ~crashed
  /\ crashed' = TRUE
  /\ \E left \in [Names -> Entry] :
       /\ \A n \in Names : left[n] \in maybe[n]
       /\ entries' = left
       /\ maybe' = [n \in Names |-> {left[n]}]
  /\ UNCHANGED <<calls, temps, synced, revoked>>

Step(w) ==
  \/ BeginAttempt(w) \/ GiveUp(w) \/ WriteDocument(w)
  \/ Publish(w) \/ NameIsTaken(w) \/ PublishFails(w) \/ Retry(w)
  \/ UnlinkTemporary(w) \/ SyncDirectory(w)
  \/ RollBackFinal(w) \/ SweepTemporary(w)

Next == Deactivate \/ Crash \/ \E w \in Writers : Step(w)

Spec == Init /\ [][Next]_vars

-----------------------------------------------------------------------------
(* Properties                                                              *)

\* The shape of the calls, the directory and what a crash may leave of it.
TypeOK ==
  /\ pc \in [Writers -> Labels]
  /\ tries \in [Writers -> 0..MaxAttempts]
  /\ name \in [Writers -> Names]
  /\ published \in [Writers -> BOOLEAN] /\ broken \in [Writers -> BOOLEAN]
  /\ temps \subseteq Writers /\ synced \subseteq Writers
  /\ entries \in [Names -> Entry]
  /\ maybe \in [Names -> SUBSET Entry]
  /\ \A n \in Names : entries[n] \in maybe[n]
  /\ revoked \in BOOLEAN /\ crashed \in BOOLEAN

\* Whoever reads the directory, before or after a crash, finds no partial document
\* under a final name (2026-08-27-phase1-claude-handover-writer-design.md:91).
NoPartialDocument == \A n \in Names : entries[n] \in Writers => entries[n] \in synced

\* A document whose path was returned survives a crash.
AnswerIsDurable == \A w \in Writers : pc[w] = "ok" => entries[name[w]] = w

\* A call that failed left neither a document nor a temporary file behind, unless it
\* said that its rollback failed.
FailureLeavesNothing ==
  \A w \in Writers :
    (pc[w] = "error" /\ ~broken[w] /\ ~crashed)
      => w \notin temps /\ \A n \in Names : entries[n] # w

\* Nobody replaces a document: an entry disappears only by the rollback of its writer.
NoReplacement ==
  [][\A n \in Names :
       (entries[n] # Nobody /\ entries'[n] # entries[n] /\ ~crashed')
         => entries'[n] = Nobody /\ entries[n] \in Writers /\ pc[entries[n]] = "rollback"]_vars

\* Once deactivate() has returned, no request of the broker appears in the directory.
RevokedPublishesNothing ==
  [][revoked /\ ~crashed' =>
       \A n \in Names : entries'[n] # entries[n] => entries'[n] \notin Guarded]_vars

\* What a reader finds: a document that is not on disk is not whole.
Visible == [n \in Names |-> IF entries[n] \in Writers \ synced THEN "partial" ELSE entries[n]]
Offers == {o \in Writers \X Names : published[o[1]] /\ name[o[1]] = o[2]}
Answers == {w \in Writers : pc[w] = "ok"}

Shelf == INSTANCE DocumentShelf WITH
  shelf <- Visible, offered <- Offers, answered <- Answers, shut <- revoked

\* The calls, their retries and rollbacks and the crash make a shelf of whole documents, on which
\* what was answered for stays: the promise create_atomic_handover makes its callers.
ImplementsShelf == Shelf!Spec

=============================================================================
