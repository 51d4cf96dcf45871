-------------------------- MODULE MCEgressTunnels --------------------------
(* EgressTunnels with its clients as model values; they are interchangeable. *)
EXTENDS EgressTunnels, TLC

ClientSymmetry == Permutations(Clients)

Came == {c \in Clients : worker[c] # "none"}

\* Bounds: while the gateway stops, only two clients came; before that three, and a fourth
\* once two tunnels were opened and nothing has gone wrong yet.
Queue ==
  /\ Cardinality(Came) > 2 => stops = 0
  /\ Cardinality(Came) > 3 =>
       /\ ~failed /\ Cardinality(told) >= 2
       /\ \A c \in Clients : worker[c] = "gone" => outcome[c] = "ok" /\ answer[c] = "ok"

=============================================================================
