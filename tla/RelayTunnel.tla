----------------------------- MODULE RelayTunnel -----------------------------
(***************************************************************************)
(* The bytes of one tunnel: the agent, the adapter in its container, the   *)
(* gateway on the host and the target, with a connection between each two. *)
(* The adapter and the gateway run the same relay_tunnel                   *)
(* (egress_gateway.py), which reads a direction only when it has nothing   *)
(* left to write in it, and passes the end of a stream on when it is       *)
(* empty; before that the adapter reads the gateway's answer               *)
(* (open_gateway_tunnel in egress_adapter.py).                             *)
(*                                                                         *)
(* A stream is a number of bytes: no step reorders them.  The two          *)
(* directions of a relay touch different buffers, so that an iteration of  *)
(* its loop, which serves all that select() found ready, is a step for     *)
(* each.  A relay may fail anywhere, by a timeout, by its limit of bytes   *)
(* or by an OSError, and closes both of its connections then.              *)
(***************************************************************************)
EXTENDS Integers

CONSTANTS
  Room,      \* bytes a connection holds in one direction
  Chunk,     \* chunk_bytes
  Limit,     \* maximum_bytes_per_direction
  MaxBytes   \* bound: bytes the ends send together

ASSUME RelayAssumption ==
  {Room, Chunk, MaxBytes} \subseteq Nat \ {0} /\ Limit \in Nat

Relays == {"adapter", "gateway"}
Directions == {"up", "down"}

\* The connections of a direction in the order of its flow, and where a relay stands in it.
Hops == 1..3
In(r, d) == IF (d = "up") = (r = "adapter") THEN 1 ELSE 2
Out(r, d) == In(r, d) + 1

VARIABLES
  flight,    \* [Directions -> [Hops -> bytes on their way]]
  fin,       \* [Directions -> the hops whose writer has said that no more comes]
  stage,     \* [Relays -> where it is]
  open,      \* [Relays -> the directions whose source has not ended]
  buffer,    \* [Relays -> [Directions -> bytes read and not yet written]]
  count,     \* [Relays -> [Directions -> bytes read]]
  gone,      \* the directions whose receiver has closed its socket altogether
  sent, got, \* [Directions -> Nat], what the ends sent and received
  eof,       \* the directions whose receiver has seen the end
  ahead      \* history: bytes the adapter read together with the answer

streams == <<flight, fin>>
relays == <<stage, open, buffer, count>>
ends == <<gone, sent, got, eof>>
relayVars == <<streams, relays, ends, ahead>>

Each(value) == [d \in Directions |-> value]

\* The gateway has written its answer, and the adapter waits for it.
RelayInit ==
  /\ flight = Each([k \in Hops |-> 0]) /\ fin = Each({})
  /\ stage = [r \in Relays |-> IF r = "adapter" THEN "answer" ELSE "relay"]
  /\ open = [r \in Relays |-> Directions]
  /\ buffer = [r \in Relays |-> Each(0)] /\ count = [r \in Relays |-> Each(0)]
  /\ gone = {} /\ sent = Each(0) /\ got = Each(0) /\ eof = {} /\ ahead = 0

Failed == {r \in Relays : stage[r] = "failed"}

-----------------------------------------------------------------------------
(* The ends                                                                *)

\* The agent has had "200 Connection Established"; the target may speak at any time.
Send(d) ==
  /\ sent["up"] + sent["down"] < MaxBytes /\ 1 \notin fin[d] /\ flight[d][1] < Room
  /\ d = "up" => stage["adapter"] # "answer"
  /\ sent' = [sent EXCEPT ![d] = @ + 1]
  /\ flight' = [flight EXCEPT ![d][1] = @ + 1]
  /\ UNCHANGED <<fin, relays, gone, got, eof, ahead>>

\* shutdown(SHUT_WR): the end sends no more and goes on reading.
HalfClose(d) ==
  /\ 1 \notin fin[d]
  /\ fin' = [fin EXCEPT ![d] = @ \cup {1}]
  /\ UNCHANGED <<flight, relays, ends, ahead>>

\* The end that receives d closes its socket: it sends no more in the other direction.
Quit(d) ==
  /\ d \notin gone
  /\ gone' = gone \cup {d}
  /\ fin' = [e \in Directions |-> IF e = d THEN fin[e] ELSE fin[e] \cup {1}]
  /\ UNCHANGED <<flight, relays, sent, got, eof, ahead>>

Receive(d) ==
  /\ d \notin gone
  /\ \/ /\ flight[d][3] > 0
        /\ flight' = [flight EXCEPT ![d][3] = @ - 1] /\ got' = [got EXCEPT ![d] = @ + 1]
        /\ UNCHANGED eof
     \/ /\ flight[d][3] = 0 /\ 3 \in fin[d] /\ d \notin eof
        /\ eof' = eof \cup {d} /\ UNCHANGED <<flight, got>>
  /\ UNCHANGED <<fin, relays, gone, sent, ahead>>

-----------------------------------------------------------------------------
(* A relay                                                                 *)

\* Both sockets are closed: what was written still arrives, or is reset with the rest.
FailRelay(r) ==
  /\ stage' = [stage EXCEPT ![r] = "failed"]
  /\ fin' = [d \in Directions |-> fin[d] \cup {Out(r, d)}]

\* Nobody reads the connection any more.
Deaf(r, d) ==
  IF Out(r, d) = 3 THEN d \in gone ELSE \E s \in Failed : In(s, d) = Out(r, d)

\* gateway.makefile("rb") is buffered: it takes the answer and what has come behind it, and
\* is thrown away once the answer is parsed.
ReadAnswer ==
  /\ stage["adapter"] = "answer"
  /\ stage' = [stage EXCEPT !["adapter"] = "relay"]
  /\ ahead' = flight["down"][In("adapter", "down")]
  /\ flight' = [flight EXCEPT !["down"][In("adapter", "down")] = 0]
  /\ UNCHANGED <<fin, open, buffer, count, ends>>

Relaying(r) == stage[r] = "relay"

\* recv: bytes, if the buffer of the direction is empty.
Read(r, d) ==
  LET n == IF flight[d][In(r, d)] < Chunk THEN flight[d][In(r, d)] ELSE Chunk IN
  /\ Relaying(r) /\ d \in open[r] /\ buffer[r][d] = 0 /\ n > 0
  /\ flight' = [flight EXCEPT ![d][In(r, d)] = @ - n]
  /\ count' = [count EXCEPT ![r][d] = @ + n]
  /\ IF count[r][d] + n > Limit
       THEN FailRelay(r) /\ UNCHANGED buffer
       ELSE buffer' = [buffer EXCEPT ![r][d] = n] /\ UNCHANGED <<stage, fin>>
  /\ UNCHANGED <<open, ends, ahead>>

\* Mutant: a connection is shut down only when both sources have ended.
ShutDown_Both(r, d) ==
  fin' = IF open'[r] = {} /\ buffer'[r][d] = 0 THEN [fin EXCEPT ![d] = @ \cup {Out(r, d)}]
                                               ELSE fin

\* At the end of the iteration: a direction that has ended and is empty is shut down.
ShutDown(r, d) ==
  fin' = IF d \notin open'[r] /\ buffer'[r][d] = 0 THEN [fin EXCEPT ![d] = @ \cup {Out(r, d)}]
                                                   ELSE fin

\* recv: the end of the stream.
ReadEnd(r, d) ==
  /\ Relaying(r) /\ d \in open[r] /\ buffer[r][d] = 0
  /\ flight[d][In(r, d)] = 0 /\ In(r, d) \in fin[d]
  /\ open' = [open EXCEPT ![r] = @ \ {d}]
  /\ UNCHANGED buffer /\ ShutDown(r, d)
  /\ UNCHANGED <<flight, stage, count, ends, ahead>>

\* Mutant: what a partial send left over is thrown away.
Write_Whole(r, d) ==
  LET free == Room - flight[d][Out(r, d)]
      n == IF free < buffer[r][d] THEN free ELSE buffer[r][d] IN
  /\ Relaying(r) /\ n > 0 /\ ~Deaf(r, d)
  /\ buffer' = [buffer EXCEPT ![r][d] = 0]
  /\ flight' = [flight EXCEPT ![d][Out(r, d)] = @ + n]
  /\ UNCHANGED open /\ ShutDown(r, d)
  /\ UNCHANGED <<stage, count, ends, ahead>>

\* send: as much as the connection takes.
Write(r, d) ==
  LET free == Room - flight[d][Out(r, d)]
      n == IF free < buffer[r][d] THEN free ELSE buffer[r][d] IN
  /\ Relaying(r) /\ n > 0 /\ ~Deaf(r, d)
  /\ buffer' = [buffer EXCEPT ![r][d] = @ - n]
  /\ flight' = [flight EXCEPT ![d][Out(r, d)] = @ + n]
  /\ UNCHANGED open /\ ShutDown(r, d)
  /\ UNCHANGED <<stage, count, ends, ahead>>

\* The loop ends when both sources have and nothing is left to write.
ReturnCounts(r) ==
  /\ Relaying(r) /\ open[r] = {} /\ \A d \in Directions : buffer[r][d] = 0
  /\ stage' = [stage EXCEPT ![r] = "returned"]
  /\ UNCHANGED <<streams, open, buffer, count, ends, ahead>>

\* A timeout, an OSError, a write nobody reads; or the answer does not come.
GiveUp(r) ==
  /\ stage[r] \in {"answer", "relay"}
  /\ FailRelay(r)
  /\ UNCHANGED <<flight, open, buffer, count, ends, ahead>>

Forward(r, d) == Read(r, d) \/ ReadEnd(r, d) \/ Write(r, d)
RelayStep(r) == (\E d \in Directions : Forward(r, d)) \/ ReturnCounts(r) \/ GiveUp(r)
EndStep(d) == Send(d) \/ HalfClose(d) \/ Quit(d) \/ Receive(d)

RelayNext == ReadAnswer \/ (\E r \in Relays : RelayStep(r)) \/ (\E d \in Directions : EndStep(d))

\* select() finds what is ready, the loop serves all of it, and the adapter waits for its answer.
\* An end that has not closed its socket reads.
RelayFairness ==
  /\ WF_relayVars(ReadAnswer)
  /\ \A d \in Directions :
       WF_relayVars(Receive(d)) /\ \A r \in Relays : WF_relayVars(Forward(r, d))
  /\ \A r \in Relays : WF_relayVars(ReturnCounts(r))

RelaySpec == RelayInit /\ [][RelayNext]_relayVars /\ RelayFairness

-----------------------------------------------------------------------------
(* Properties                                                              *)

\* The shape of the streams, the relays and the ends.
RelayTypeOK ==
  /\ flight \in [Directions -> [Hops -> 0..Room]] /\ fin \in [Directions -> SUBSET Hops]
  /\ stage \in [Relays -> {"answer", "relay", "returned", "failed"}]
  /\ open \in [Relays -> SUBSET Directions]
  /\ buffer \in [Relays -> [Directions -> 0..Chunk]] /\ count \in [Relays -> [Directions -> Nat]]
  /\ gone \subseteq Directions /\ eof \subseteq Directions
  /\ sent \in [Directions -> Nat] /\ got \in [Directions -> Nat] /\ ahead \in Nat

Ahead(d) == IF d = "down" THEN ahead ELSE 0

\* Who sees the end of a stream has had all of it, if both relays went well and but for what
\* the adapter read with its answer: an end is passed on behind the last byte only.
StreamIsWhole ==
  Failed = {} => \A d \in eof : 1 \in fin[d] /\ got[d] + Ahead(d) = sent[d]

\* What relay_tunnel returns, and the gateway audits, is what the ends sent and the other
\* ends have or will have, within the limit.
CountsAreTrue ==
  \A r \in Relays : stage[r] = "returned" /\ Failed = {} =>
    \A d \in Directions :
      /\ count[r][d] = sent[d] - (IF r = "adapter" THEN Ahead(d) ELSE 0)
      /\ count[r][d] <= Limit /\ Out(r, d) \in fin[d]

Stream == INSTANCE ByteStream WITH
            closed <- {d \in Directions : 1 \in fin[d]}, broken <- (Failed # {}),
            swallowed <- ahead

\* The two relays with their buffers, connections and half-closes are the stream that the ends
\* may think of, in both directions at once; a failed relay may end it early and adds nothing.
ImplementsStream == Stream!Spec

\* The end of a stream arrives, whatever the other direction does, if its receiver reads and no
\* relay gives up: a half-closed tunnel still works the other way.
EndArrives ==
  \A d \in Directions : 1 \in fin[d] ~> d \in eof \cup gone \/ Failed # {}

\* The bytes between success and end of a tunnel arrive, also those the target sends first.
EarlyBytesArrive == Failed = {} => \A d \in eof : got[d] = sent[d]

=============================================================================
