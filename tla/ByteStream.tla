----------------------------- MODULE ByteStream -----------------------------
(***************************************************************************)
(* What a tunnel promises its two ends, with no relay in between: a stream *)
(* of bytes each way, each closed by itself, whose end comes behind the    *)
(* last byte.  When it breaks, an end may come early, but no byte that was *)
(* not sent.  Of what the target sends first, some may be swallowed, once, *)
(* before the agent has received anything.                                 *)
(***************************************************************************)
EXTENDS Integers

VARIABLES
  sent, got,  \* [Directions -> Nat]
  closed,     \* the directions whose sender sends no more
  gone,       \* the directions whose receiver has closed its socket altogether
  eof,        \* the directions whose receiver has seen the end
  broken,     \* a relay has failed
  swallowed   \* bytes of "down" that came with the answer

vars == <<sent, got, closed, gone, eof, broken, swallowed>>

Directions == {"up", "down"}

Swallowed(d) == IF d = "down" THEN swallowed ELSE 0

Init ==
  /\ sent = [d \in Directions |-> 0] /\ got = [d \in Directions |-> 0]
  /\ closed = {} /\ gone = {} /\ eof = {}
  /\ broken = FALSE /\ swallowed = 0

Put(d) ==
  /\ d \notin closed
  /\ sent' = [sent EXCEPT ![d] = @ + 1]
  /\ UNCHANGED <<got, closed, gone, eof, broken, swallowed>>

Close(d) ==
  /\ closed' = closed \cup {d}
  /\ UNCHANGED <<sent, got, gone, eof, broken, swallowed>>

Quit(d) ==
  /\ d \notin gone
  /\ gone' = gone \cup {d} /\ closed' = closed \cup (Directions \ {d})
  /\ UNCHANGED <<sent, got, eof, broken, swallowed>>

\* Nothing arrives that was not sent, whatever has failed.
Get(d) ==
  /\ d \notin gone /\ got[d] + Swallowed(d) < sent[d]
  /\ got' = [got EXCEPT ![d] = @ + 1]
  /\ UNCHANGED <<sent, closed, gone, eof, broken, swallowed>>

\* The end is the end of the stream, unless the tunnel is broken.
End(d) ==
  /\ d \notin gone /\ d \notin eof
  /\ broken \/ (d \in closed /\ got[d] + Swallowed(d) = sent[d])
  /\ eof' = eof \cup {d}
  /\ UNCHANGED <<sent, got, closed, gone, broken, swallowed>>

Swallow ==
  /\ swallowed = 0 /\ got["down"] = 0
  /\ swallowed' \in 1..sent["down"]
  /\ UNCHANGED <<sent, got, closed, gone, eof, broken>>

Break ==
  /\ broken' = TRUE
  /\ UNCHANGED <<sent, got, closed, gone, eof, swallowed>>

Next ==
  \/ Swallow \/ Break
  \/ \E d \in Directions : Put(d) \/ Close(d) \/ Quit(d) \/ Get(d) \/ End(d)

Spec == Init /\ [][Next]_vars

=============================================================================
