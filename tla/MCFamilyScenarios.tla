-------------------------- MODULE MCFamilyScenarios --------------------------
(* All commands on two requests at once are too many for one run: every     *)
(* behaviour of FamilyPending is followed as long as each of its states      *)
(* belongs to one of three scenarios.                                        *)
EXTENDS MCFamilyPending

Busy == {p \in Procs : proc[p].pc # "idle"}
OnlyRunning(commands) == \A p \in Busy : proc[p].cmd \in commands

OneRequestSent ==
  /\ OnlyRunning({"start", "intake", "approve", "resolve-not-created"})
  /\ record[r2].state = "absent" /\ r2 \notin overdue /\ ~debris

FullStore ==
  /\ OnlyRunning({"intake", "preview", "reject"})
  /\ Len(audit) < MaxAudit - 2 /\ \A r \in Requests : wire[r] = <<>>

\* The second request was left in unknown by an older version.
LegacyResolved ==
  /\ OnlyRunning({"intake", "approve", "resolve-created"})
  /\ Cardinality(Busy) <= 1 /\ wire[r2] # <<>> /\ overdue = {} /\ ~debris

Within == OneRequestSent \/ FullStore \/ LegacyResolved

=============================================================================
