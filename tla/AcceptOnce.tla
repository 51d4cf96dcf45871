----------------------------- MODULE AcceptOnce -----------------------------
(***************************************************************************)
(* What the egress session promises of request numbers: each is authorized *)
(* at most once, in whatever order the numbers arrive, and nothing is once *)
(* the session is closed.                                                  *)
(***************************************************************************)
EXTENDS Naturals

CONSTANT Numbers

VARIABLES
  consumed,  \* the numbers that were authorized
  grants,    \* how many requests were authorized
  closed

Init == consumed = {} /\ grants = 0 /\ closed = FALSE

Consume(n) ==
  /\ ~closed /\ n \notin consumed
  /\ consumed' = consumed \cup {n}
  /\ grants' = grants + 1
  /\ UNCHANGED closed

Close == ~closed /\ closed' = TRUE /\ UNCHANGED <<consumed, grants>>

Next == Close \/ \E n \in Numbers : Consume(n)

Spec == Init /\ [][Next]_<<consumed, grants, closed>>

=============================================================================
