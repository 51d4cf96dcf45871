--------------------------- MODULE FamilyApproval ----------------------------
(***************************************************************************)
(* What the family Issue store promises to an operator, without locks,     *)
(* markers, crashes or processes: the life of each request, and how often  *)
(* its body may be put on the wire.  FamilyPending implements it.          *)
(***************************************************************************)
EXTENDS Integers

CONSTANT Requests

VARIABLES
  status,    \* where the request stands
  sends,     \* how often its body was put on the wire
  reopened   \* how often an operator declared an ambiguous send not created

vars == <<status, sends, reopened>>

\* A request inherited in unknown may have been sent by the version that left it.
Init ==
  /\ status \in [Requests -> {"absent", "unknown"}]
  /\ sends = [r \in Requests |-> IF status[r] = "unknown" THEN 1 ELSE 0]
  /\ reopened = [r \in Requests |-> 0]

Move(r, from, to) ==
  status[r] = from /\ status' = [status EXCEPT ![r] = to]

\* Fewer sends than the operator's decisions account for.
Unsent(r) == sends[r] <= reopened[r]

Submit(r) == Move(r, "absent", "pending") /\ UNCHANGED <<sends, reopened>>

Dismiss(r) ==
  /\ Move(r, "pending", "rejected") \/ Move(r, "pending", "expired")
  /\ UNCHANGED <<sends, reopened>>

Claim(r) == Move(r, "pending", "sending") /\ UNCHANGED <<sends, reopened>>

\* Only a claimed request is sent, and only within its budget.
Send(r) ==
  /\ status[r] = "sending" /\ Unsent(r)
  /\ sends' = [sends EXCEPT ![r] = @ + 1]
  /\ UNCHANGED <<status, reopened>>

\* A claim is given back only while the budget is not used up.
GiveBack(r) ==
  Unsent(r) /\ Move(r, "sending", "pending") /\ UNCHANGED <<sends, reopened>>

Succeed(r) ==
  sends[r] > 0 /\ Move(r, "sending", "created") /\ UNCHANGED <<sends, reopened>>

Doubt(r) == Move(r, "sending", "unknown") /\ UNCHANGED <<sends, reopened>>

ResolveCreated(r) == Move(r, "unknown", "created") /\ UNCHANGED <<sends, reopened>>

ResolveNotCreated(r) ==
  /\ Move(r, "unknown", "pending")
  /\ reopened' = [reopened EXCEPT ![r] = @ + 1]
  /\ UNCHANGED sends

Next ==
  \E r \in Requests :
    \/ Submit(r) \/ Dismiss(r) \/ Claim(r) \/ Send(r) \/ GiveBack(r) \/ Succeed(r)
    \/ Doubt(r) \/ ResolveCreated(r) \/ ResolveNotCreated(r)

Spec == Init /\ [][Next]_vars

=============================================================================
