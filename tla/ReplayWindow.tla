---------------------------- MODULE ReplayWindow ----------------------------
(***************************************************************************)
(* The replay window of the egress session (egress_broker.py, authorize)   *)
(* and the adapter in the container that numbers the requests              *)
(* (egress_adapter.py, EgressSequence).  Every client of the adapter has a *)
(* thread of its own: it draws the next number under a lock and sends it   *)
(* later, so the numbers reach the gateway in any order, some of them      *)
(* never.  The gateway reads each request in a worker of its own and       *)
(* authorizes them one at a time under the session's lifecycle lock.       *)
(*                                                                         *)
(* The bit mask _seen_sequences is the set of ages whose bit is set: age a *)
(* stands for the number highest - a.                                      *)
(***************************************************************************)
EXTENDS Integers, FiniteSets

CONSTANTS
  Window,             \* _SEQUENCE_WINDOW
  MaxSequence         \* MAX_SEQUENCE

ASSUME WindowAssumption == Window \in Nat \ {0}
ASSUME SequenceAssumption == MaxSequence \in Nat \ {0}

VARIABLES
  next,       \* EgressSequence._value, the last number drawn
  sent,       \* numbers whose request is on its way or has arrived
  highest,    \* _highest_sequence
  seen,       \* _seen_sequences, as a set of ages
  closed,     \* _closed
  consumed,   \* history: numbers a request was authorized or denied by policy under
  grants      \* history: how many requests were

vars == <<next, sent, highest, seen, closed, consumed, grants>>

Numbers == 1..MaxSequence
Ages == 0..(Window - 1)

Init ==
  /\ next = 0 /\ sent = {}
  /\ highest = 0 /\ seen = {} /\ closed = FALSE
  /\ consumed = {} /\ grants = 0

-----------------------------------------------------------------------------
\* A thread of the adapter draws its number; the counter refuses to go past MaxSequence.
Draw ==
  /\ next < MaxSequence
  /\ next' = next + 1
  /\ UNCHANGED <<sent, highest, seen, closed, consumed, grants>>

\* It sends the number after the lock is released, at its own pace.
Send(n) ==
  /\ n \in 1..next
  /\ sent' = sent \cup {n}
  /\ UNCHANGED <<next, highest, seen, closed, consumed, grants>>

Fresh(n) ==
  \/ n > highest
  \/ highest - n < Window /\ highest - n \notin seen

\* Mutant: the ages of the window are not moved along with the highest number.
Advance_Unshifted(n) ==
  LET advance == n - highest IN
  /\ highest' = n
  /\ seen' = IF advance >= Window THEN {0} ELSE seen \cup {0}

\* A number above the highest shifts the window; the mask drops what falls out of it.
Advance(n) ==
  LET advance == n - highest IN
  /\ highest' = n
  /\ seen' = IF advance >= Window THEN {0}
             ELSE ({a + advance : a \in seen} \cup {0}) \cap Ages

MarkSeen(n) ==
  IF n > highest THEN Advance(n)
  ELSE seen' = seen \cup {highest - n} /\ UNCHANGED highest

\* authorize, for a request with the run's capability and project: whether the policy then
\* allows its domain or not, the number is used up.
Authorize(n) ==
  /\ n \in sent /\ ~closed /\ Fresh(n)
  /\ MarkSeen(n)
  /\ consumed' = consumed \cup {n} /\ grants' = grants + 1
  /\ UNCHANGED <<next, sent, closed>>

\* A number that was used, is older than the window, or comes without the capability, and any
\* number once the session is closed: nothing changes.
Refuse(n) ==
  /\ n \in sent
  /\ closed \/ ~Fresh(n)
  /\ UNCHANGED vars

Deactivate ==
  /\ ~closed
  /\ closed' = TRUE
  /\ UNCHANGED <<next, sent, highest, seen, consumed, grants>>

Next ==
  \/ Draw \/ Deactivate
  \/ \E n \in Numbers : Send(n) \/ Authorize(n) \/ Refuse(n)

Spec == Init /\ [][Next]_vars

-----------------------------------------------------------------------------
(* Properties                                                              *)

\* The shape of the window and of the numbers drawn and sent.
TypeOK ==
  /\ next \in 0..MaxSequence /\ sent \subseteq 1..next
  /\ highest \in 0..MaxSequence /\ seen \subseteq Ages
  /\ closed \in BOOLEAN
  /\ consumed \subseteq sent

\* The window remembers exactly the numbers that were consumed: after any jump, the bit of an
\* age is set if and only if the number of that age was consumed.
WindowExact ==
  /\ \A a \in Ages : a \in seen <=> highest - a \in consumed
  /\ \A n \in consumed : n <= highest

\* No number is consumed twice, whatever the window has forgotten: what would be authorized was
\* never authorized before.
NeverTwice == \A n \in consumed : ~Fresh(n)

\* A number that comes late is not lost: unless Window or more numbers have gone past it, a
\* number nobody consumed can still be consumed, whatever was consumed or denied before it.
LateIsFresh == \A n \in 1..next : n \notin consumed /\ highest - n < Window => Fresh(n)

Once == INSTANCE AcceptOnce

\* The window with its ages implements a session that remembers every number it has
\* ever authorized (authorize in egress_broker.py).
ImplementsAcceptOnce == Once!Spec

=============================================================================
