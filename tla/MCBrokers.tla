------------------------------ MODULE MCBrokers ------------------------------
(***************************************************************************)
(* Two parts of a broker that do not touch each other's state: the kernel  *)
(* that starts, serves and stops, and the relay of the bytes of a tunnel   *)
(* that is open.  One run checks both, and in each of its behaviours one   *)
(* of them moves.                                                          *)
(***************************************************************************)
EXTENDS BrokerRuntime, RelayTunnel

VARIABLE moving  \* the part that moves

brokerVars == <<moving, vars, relayVars>>

\* The broker with tunnels is the egress gateway, which has a thread for each client.
BrokersInit ==
  /\ moving \in {"kernel", "relay"} /\ Init /\ RelayInit
  /\ moving = "relay" => threaded /\ deactivateAfterJoin

KernelMoves(step) == moving = "kernel" /\ step /\ UNCHANGED <<moving, relayVars>>
RelayMoves(step) == moving = "relay" /\ step /\ UNCHANGED <<moving, vars>>

BrokersNext == KernelMoves(Next) \/ RelayMoves(RelayNext)

\* The fairness of the part that moves.
BrokersFairness ==
  /\ WF_brokerVars(KernelMoves(UNCHANGED form /\ Serve))
  /\ WF_brokerVars(KernelMoves(UNCHANGED form /\ Finishing))
  /\ WF_brokerVars(KernelMoves(UNCHANGED form /\ Stop))
  /\ WF_brokerVars(RelayMoves(ReadAnswer))
  /\ \A d \in Directions :
       WF_brokerVars(RelayMoves(Receive(d))) /\
       \A r \in Relays : WF_brokerVars(RelayMoves(Forward(r, d)))
  /\ \A r \in Relays : WF_brokerVars(RelayMoves(ReturnCounts(r)))

BrokersSpec == BrokersInit /\ [][BrokersNext]_brokerVars /\ BrokersFairness

=============================================================================
