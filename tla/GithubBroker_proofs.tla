-------------------------- MODULE GithubBroker_proofs --------------------------
(***************************************************************************)
(* For any clients, refs and pushes, any number of tokens and any bound on *)
(* nonces and updates: the broker only creates work branches, a request    *)
(* creates at most one pull request, no effect escapes the audit           *)
(* unless the broker has failed, and an ok in the audit was delivered.     *)
(*                                                                         *)
(* Honest ties the lines of the audit to what their clients were sent: a   *)
(* connection's lines are all written at its end, after which nothing is   *)
(* sent that could contradict them.                                        *)
(***************************************************************************)
EXTENDS GithubBroker, TLAPS

USE DEF NoOp

\* The connection has done nothing in the repository.
Untouched(c) == pulls[c] = 0 /\ \A r \in Refs : <<c, r>> \notin landed

\* Where a handler stands in its operation.
Whereabouts ==
  /\ h.at # "idle" => h.client \in Clients
  /\ h.at = "idle" => h.client = NoClient
  /\ serving = "failed" => h.at = "idle"
  /\ h.at = "read" => h.op = NoOp /\ h.call = "none"
  /\ h.call \in {"discovery", "rpc"} => h.op \in {"git-upload-pack", "git-receive-pack"}
  /\ h.at = "deliver" => h.call = "rpc"
  /\ h.op = "pr-create" /\ h.at \in {"token", "send"} => h.left = 1 /\ h.call = "rest"
  /\ h.op = "git-receive-pack" => h.call \in {"discovery", "rpc"}
  /\ h.at \in {"answer", "await"} /\ h.op = "git-receive-pack" => h.call = "discovery"

\* When a connection can have had an effect.
Timely ==
  /\ \A c \in Clients : got[c] = "none" => h.client # c /\ Untouched(c)
  /\ h.at # "idle" =>
       /\ pulls[h.client] = 0 \/ (h.op = "pr-create" /\ h.at \notin {"read", "token", "send"})
       /\ \A r \in Refs : <<h.client, r>> \in landed => h.op = "git-receive-pack" /\ h.call = "rpc"

\* The commands a push is made of have passed the gate.
PushGated ==
  h.op = "git-receive-pack" /\ h.call = "rpc" =>
    /\ h.push # {}
    /\ \A u \in h.push : u.ref \in WorkRefs /\ u.old = Zero /\ u.new # Zero

\* What is to be appended is of this connection, and a refusal had no effect.
Owed ==
  h.at = "record" =>
    /\ h.due # {}
    /\ \A line \in h.due :
         line.client = h.client /\ (line.status = "denied" => Untouched(h.client))

IInv ==
  TypeOK /\ Whereabouts /\ Timely /\ PushGated /\ Owed /\ OnePullPerRequest /\ EffectsAccounted

-----------------------------------------------------------------------------
(* GitHub's side of a push *)

LEMMA AppliedChanges ==
  ASSUME refs \in [Refs -> Values], NEW push \in SUBSET Commands
  PROVE  /\ Applied(push) \in [Refs -> Values]
         /\ \A r \in Refs : Applied(push)[r] # refs[r] =>
              \E u \in push : u.ref = r /\ u.old = refs[r] /\ Applied(push)[r] = u.new
<1> DEFINE Hit(r, u) == u.ref = r /\ u.old = refs[r]
           Pick(r) == CHOOSE u \in push : Hit(r, u)
<1>1. ASSUME NEW r \in Refs, \E u \in push : Hit(r, u)
      PROVE  Pick(r) \in push /\ Hit(r, Pick(r))
  BY <1>1
<1>2. Applied(push) = [r \in Refs |-> IF \E u \in push : Hit(r, u) THEN Pick(r).new ELSE refs[r]]
  BY DEF Applied
<1> HIDE DEF Pick
<1>3. \A u \in push : u.new \in Values
  BY DEF Commands
<1>4. ASSUME NEW r \in Refs
      PROVE  /\ Applied(push)[r] \in Values
             /\ Applied(push)[r] # refs[r] =>
                  \E u \in push : u.ref = r /\ u.old = refs[r] /\ Applied(push)[r] = u.new
  <2>1. CASE \E u \in push : Hit(r, u)
    BY <1>1, <1>2, <1>3, <2>1
  <2>2. CASE ~\E u \in push : Hit(r, u)
    BY <1>2, <2>2
  <2> QED BY <2>1, <2>2
<1> QED BY <1>2, <1>4

\* What a request can do: only the handled connection gains an effect, only by a push or by
\* the creation of one pull request, and only gated refs change.
Effect ==
  /\ refs' \in [Refs -> Values] /\ pulls' \in [Clients -> Nat] /\ landed' \subseteq Clients \X Refs
  /\ \A c \in Clients : c # h.client => pulls'[c] = pulls[c]
  /\ \A c \in Clients, r \in Refs : c # h.client => (<<c, r>> \in landed' <=> <<c, r>> \in landed)
  /\ pulls'[h.client] <= 1
  /\ pulls'[h.client] = 0 \/ h.op = "pr-create"
  /\ \A r \in Refs : <<h.client, r>> \in landed' => h.op = "git-receive-pack" /\ h.call = "rpc"
  /\ \A r \in Refs : refs'[r] # refs[r] => r \in WorkRefs /\ refs[r] = Zero /\ refs'[r] # Zero

LEMMA LostEffect ==
  ASSUME IInv, At("send"), Perform \/ UNCHANGED github
  PROVE  Effect
<1>1. h.client \in Clients /\ pulls[h.client] = 0
  BY DEF IInv, Whereabouts, Timely, At
<1>2. \A r \in Refs : <<h.client, r>> \in landed => h.op = "git-receive-pack" /\ h.call = "rpc"
  BY DEF IInv, Timely, At
<1> DEFINE Pushing == h.op = "git-receive-pack" /\ h.call = "rpc"
<1>3. CASE UNCHANGED github
  BY <1>1, <1>2, <1>3 DEF github, Effect, IInv, TypeOK
<1>4. CASE Perform /\ Pushing
  <2>0. PICK push \in Carried(h.push) :
          /\ refs' = Applied(push) /\ UNCHANGED pulls
          /\ landed' = landed \cup {<<h.client, r>> : r \in {q \in Refs : Applied(push)[q] # refs[q]}}
    BY <1>4 DEF Perform
  <2>1. refs' = Applied(push) /\ UNCHANGED pulls
        /\ landed' = landed \cup {<<h.client, r>> : r \in {q \in Refs : Applied(push)[q] # refs[q]}}
    BY <2>0
  <2>2. push \in SUBSET Commands /\ push \subseteq h.push /\ refs \in [Refs -> Values]
    BY DEF IInv, TypeOK, Handlers, Carried
  <2>3. Applied(push) \in [Refs -> Values]
        /\ \A r \in Refs : Applied(push)[r] # refs[r] =>
             \E u \in h.push : u.ref = r /\ u.old = refs[r] /\ Applied(push)[r] = u.new
    BY <2>2, AppliedChanges
  <2>4. \A u \in h.push : u.ref \in WorkRefs /\ u.old = Zero /\ u.new # Zero
    BY <1>4 DEF IInv, PushGated
  <2>5. \A r \in Refs : refs'[r] # refs[r] => r \in WorkRefs /\ refs[r] = Zero /\ refs'[r] # Zero
    BY <2>1, <2>3, <2>4
  <2>6. landed' \subseteq Clients \X Refs
        /\ \A c \in Clients, r \in Refs : c # h.client => (<<c, r>> \in landed' <=> <<c, r>> \in landed)
    BY <1>1, <2>1 DEF IInv, TypeOK
  <2>7. pulls' \in [Clients -> Nat] /\ pulls'[h.client] = 0
    BY <1>1, <2>1 DEF IInv, TypeOK
  <2> QED BY <1>1, <1>4, <2>1, <2>3, <2>5, <2>6, <2>7 DEF Effect
<1>5. CASE Perform /\ h.op = "pr-create"
  <2>1. pulls' = [pulls EXCEPT ![h.client] = @ + 1] /\ UNCHANGED <<refs, landed>>
    BY <1>5 DEF Perform
  <2>2. pulls \in [Clients -> Nat] /\ refs \in [Refs -> Values] /\ landed \subseteq Clients \X Refs
    BY DEF IInv, TypeOK
  <2>3. pulls' \in [Clients -> Nat] /\ pulls'[h.client] = 1
        /\ \A c \in Clients : c # h.client => pulls'[c] = pulls[c]
    BY <1>1, <2>1, <2>2
  <2> QED BY <1>1, <1>2, <1>5, <2>1, <2>2, <2>3 DEF Effect
<1>6. CASE Perform /\ ~Pushing /\ h.op # "pr-create"
  BY <1>1, <1>2, <1>6 DEF Perform, github, Effect, IInv, TypeOK
<1> QED BY <1>3, <1>4, <1>5, <1>6

-----------------------------------------------------------------------------
(* Two kinds of steps of the serve thread: it goes on with a connection or  *)
(* is through with it                                                      *)

\* Only the handled connection is sent anything.
OnlyMine ==
  /\ got' \in [Clients -> {"none", "waiting", "denied", "error", "ok", "whole"}]
  /\ \A c \in Clients : c # h.client => got'[c] = got[c]
  /\ got'[h.client] # "none"

\* The variables the argument is not about keep their types.
Sound ==
  /\ stop' = stop /\ seen' \subseteq Nonces
  /\ cache' \in 0..minted' /\ minted' \in 0..MaxTokens /\ spoiled' \subseteq 1..minted'

\* The handler keeps its connection and has nothing new to be accounted for yet.
GoesOn ==
  /\ h.at # "idle" /\ Sound /\ OnlyMine /\ Effect
  /\ serving' = serving /\ log' = log
  /\ h' \in Handlers /\ h'.client = h.client /\ h'.at \notin {"idle", "read"}
  /\ h'.at \in {"token", "send"} => pulls'[h.client] = 0
  /\ h.at # "read" => h'.op = h.op /\ h'.call \in {h.call, "rpc"}

\* The handler returns or fails, and either nothing was done or something tells of it.
Finishes ==
  /\ h.at # "idle" /\ Sound /\ OnlyMine /\ Effect
  /\ h' = Idle /\ serving' \in {"yes", "no", "failed"}
  /\ log \subseteq log' /\ log' \subseteq Lines
  /\ \/ serving' = "failed"
     \/ pulls'[h.client] = 0 /\ \A r \in Refs : <<h.client, r>> \notin landed'
     \/ \E line \in log' : line.client = h.client /\ line.status \in {"ok", "error"}

LEMMA GoingOn ==
  ASSUME IInv, GoesOn
  PROVE  TypeOK' /\ Timely' /\ OnePullPerRequest' /\ EffectsAccounted'
<1>1. h.client \in Clients /\ serving # "failed"
  BY DEF IInv, Whereabouts, GoesOn
<1>2. TypeOK'
  BY DEF IInv, TypeOK, GoesOn, Sound, OnlyMine, Effect
<1>3. Timely'
  <2>1. ASSUME NEW c \in Clients, got'[c] = "none" PROVE h'.client # c /\ Untouched(c)'
    BY <1>1, <2>1 DEF IInv, Timely, Untouched, GoesOn, OnlyMine, Effect
  <2>2. pulls'[h.client] = 0 \/ (h'.op = "pr-create" /\ h'.at \notin {"read", "token", "send"})
    <3>1. CASE h.at = "read"
      BY <3>1 DEF IInv, Whereabouts, GoesOn, Effect
    <3>2. CASE h.at # "read"
      BY <3>2 DEF GoesOn, Effect
    <3> QED BY <3>1, <3>2
  <2>3. \A r \in Refs : <<h.client, r>> \in landed' => h'.op = "git-receive-pack" /\ h'.call = "rpc"
    <3>1. CASE h.at = "read"
      BY <3>1 DEF IInv, Whereabouts, GoesOn, Effect
    <3>2. CASE h.at # "read"
      BY <3>2 DEF GoesOn, Effect
    <3> QED BY <3>1, <3>2
  <2>4. h'.client = h.client
    BY DEF GoesOn
  <2> QED BY <2>1, <2>2, <2>3, <2>4 DEF Timely
<1>4. OnePullPerRequest'
  BY <1>1 DEF IInv, OnePullPerRequest, GoesOn, Effect
<1>5. EffectsAccounted'
  BY <1>1 DEF IInv, EffectsAccounted, GoesOn, Effect
<1> QED BY <1>2, <1>3, <1>4, <1>5

LEMMA Finishing ==
  ASSUME IInv, Finishes
  PROVE  IInv'
<1>1. h.client \in Clients /\ serving # "failed"
  BY DEF IInv, Whereabouts, Finishes
<1>2. h' \in Handlers
        /\ h'.at = "idle" /\ h'.client = NoClient /\ h'.op = "none" /\ h'.call = "none"
  BY NullsAssumption, BoundsAssumption DEF Finishes, Idle, Handlers
<1>3. TypeOK'
  BY <1>2 DEF IInv, TypeOK, Finishes, Sound, OnlyMine, Effect
<1>4. Whereabouts' /\ PushGated' /\ Owed'
  BY <1>2 DEF Whereabouts, PushGated, Owed
<1>5. Timely'
  <2>1. ASSUME NEW c \in Clients, got'[c] = "none" PROVE Untouched(c)'
    BY <1>1, <2>1 DEF IInv, Timely, Untouched, Finishes, OnlyMine, Effect
  <2> QED BY <1>2, <2>1, NullsAssumption DEF Timely
<1>6. OnePullPerRequest'
  BY <1>1 DEF IInv, OnePullPerRequest, Finishes, Effect
<1>7. EffectsAccounted'
  <2> SUFFICES ASSUME NEW c \in Clients, serving' # "failed",
                      pulls'[c] > 0 \/ \E r \in Refs : <<c, r>> \in landed'
               PROVE  \E line \in log' : line.client = c /\ line.status \in {"ok", "error"}
    BY DEF EffectsAccounted
  <2>1. CASE c = h.client
    <3>1. ~(pulls'[h.client] = 0 /\ \A r \in Refs : <<h.client, r>> \notin landed')
      <4>1. CASE pulls'[c] > 0
        <5>1. pulls'[c] # 0
          BY <4>1
        <5> QED BY <2>1, <5>1
      <4>2. CASE \E r \in Refs : <<c, r>> \in landed'
        BY <2>1, <4>2
      <4> QED BY <4>1, <4>2
    <3> QED BY <2>1, <3>1 DEF Finishes
  <2>2. CASE c # h.client
    <3>1. pulls[c] > 0 \/ \E r \in Refs : <<c, r>> \in landed
      BY <2>2 DEF Finishes, Effect
    <3>2. \E line \in log : line.client = c /\ line.status \in {"ok", "error"}
      BY <1>1, <2>2, <3>1 DEF IInv, EffectsAccounted
    <3> QED BY <3>2 DEF Finishes
  <2> QED BY <2>1, <2>2
<1> QED BY <1>3, <1>4, <1>5, <1>6, <1>7 DEF IInv

\* A handler that asks GitHub for nothing.
LEMMA NoEffect ==
  ASSUME IInv, h.at # "idle", UNCHANGED github
  PROVE  Effect
  BY DEF IInv, TypeOK, Whereabouts, Timely, OnePullPerRequest, github, Effect

LEMMA Sending ==
  ASSUME IInv, h.at # "idle",
         UNCHANGED got \/ \E s \in {"denied", "error", "ok", "whole"} : Send(s)
  PROVE  OnlyMine
<1>1. h.client \in Clients /\ got[h.client] # "none"
        /\ got \in [Clients -> {"none", "waiting", "denied", "error", "ok", "whole"}]
  BY DEF IInv, TypeOK, Whereabouts, Timely
<1>2. CASE UNCHANGED got
  BY <1>1, <1>2 DEF OnlyMine
<1>3. ASSUME NEW s \in {"denied", "error", "ok", "whole"}, got' = [got EXCEPT ![h.client] = s]
      PROVE  OnlyMine
  BY <1>1, <1>3 DEF OnlyMine
<1> QED BY <1>2, <1>3 DEF Send

LEMMA Quietly ==
  ASSUME IInv, UNCHANGED <<stop, tokens>>, seen' = seen \/ \E n \in Nonces : seen' = seen \cup {n}
  PROVE  Sound
  BY DEF IInv, TypeOK, Sound, tokens

-----------------------------------------------------------------------------
(* What becomes of the handler's record *)

Kept ==
  /\ h'.client = h.client /\ h'.op = h.op /\ h'.call = h.call /\ h'.left = h.left
  /\ h'.push = h.push

LEMMA SayIsLine ==
  ASSUME NEW c \in Clients, NEW status \in {"ok", "denied", "error"}, NEW ref \in Refs \cup {NoRef}
  PROVE  Line(c, status, ref) \in Lines
           /\ Line(c, status, ref).client = c /\ Line(c, status, ref).status = status
  BY DEF Line, Lines

LEMMA Recorded ==
  ASSUME h \in Handlers, NEW due \in SUBSET Lines, NEW reply \in {"none", "error"}, Record(due, reply)
  PROVE  h' \in Handlers /\ h'.at = "record" /\ h'.due = due /\ Kept
  BY DEF Record, Handlers, Kept

LEMMA Recording ==
  ASSUME IInv, h.at \notin {"idle", "read"}, Sound, OnlyMine, Effect,
         serving' = serving, log' = log,
         NEW due \in SUBSET Lines, NEW reply \in {"none", "error"}, Record(due, reply),
         due # {},
         \A line \in due :
           line.client = h.client /\ (line.status = "denied" => UNCHANGED github /\ Untouched(h.client))
  PROVE  IInv'
<1>1. h' \in Handlers /\ h'.at = "record" /\ h'.due = due /\ Kept
  BY Recorded DEF IInv, TypeOK
<1>2. GoesOn
  BY <1>1 DEF GoesOn, Kept
<1>3. Whereabouts'
  BY <1>1 DEF IInv, Whereabouts, Kept
<1>4. PushGated'
  BY <1>1 DEF IInv, PushGated, Kept
<1>5. Owed'
  BY <1>1 DEF Owed, Kept, Untouched, github
<1> QED BY <1>2, <1>3, <1>4, <1>5, GoingOn DEF IInv

LEMMA Failing ==
  ASSUME IInv, h.at \notin {"idle", "read"}, Fail, UNCHANGED tokens, log' = log, Effect
  PROVE  IInv'
<1>1. h.client \in Clients
  BY DEF IInv, Whereabouts
<1>2. Say("error") \in SUBSET Lines /\ Say("error") # {}
        /\ \A line \in Say("error") : line.client = h.client /\ line.status # "denied"
  BY <1>1, SayIsLine DEF Say
<1>3. Sound /\ serving' = serving
  BY Quietly DEF Fail, session
<1>4. OnlyMine
  BY Sending DEF Fail
<1>5. PICK reply \in {"none", "error"} : Record(Say("error"), reply)
  BY DEF Fail
<1> QED BY <1>2, <1>3, <1>4, <1>5, Recording

LEMMA StreamFailing ==
  ASSUME IInv, h.at \notin {"idle", "read"}, FailStream, UNCHANGED <<tokens, github>>, log' = log,
         UNCHANGED got \/ Send("ok")
  PROVE  IInv'
<1>1. h.client \in Clients
  BY DEF IInv, Whereabouts
<1>2. Say("error") \in SUBSET Lines /\ Say("error") # {}
        /\ \A line \in Say("error") : line.client = h.client /\ line.status # "denied"
  BY <1>1, SayIsLine DEF Say
<1>3. Sound /\ serving' = serving
  BY Quietly DEF FailStream, session
<1>4. OnlyMine /\ Effect
  BY Sending, NoEffect
<1>5. Record(Say("error"), "none")
  BY DEF FailStream
<1> QED BY <1>2, <1>3, <1>4, <1>5, Recording

LEMMA Escaping ==
  ASSUME IInv, h.at # "idle", Escape, Effect, UNCHANGED <<stop, tokens, got>>, log' = log,
         seen' = seen \/ \E n \in Nonces : seen' = seen \cup {n}
  PROVE  IInv'
<1>1. Sound /\ OnlyMine
  BY Quietly, Sending
<1>2. log' \subseteq Lines
  BY DEF IInv, TypeOK
<1> QED BY <1>1, <1>2, Finishing DEF Finishes, Escape

\* The handler returns after it has done nothing, or with a line in the audit.
LEMMA Returning ==
  ASSUME IInv, h.at # "idle", Return, UNCHANGED <<stop, tokens, github>>, OnlyMine,
         seen' = seen \/ \E n \in Nonces : seen' = seen \cup {n},
         log \subseteq log', log' \subseteq Lines,
         Untouched(h.client)
           \/ \E line \in log' : line.client = h.client /\ line.status \in {"ok", "error"}
  PROVE  IInv'
<1>1. Sound /\ Effect
  BY Quietly, NoEffect
<1> QED BY <1>1, Finishing DEF Finishes, Return, Untouched, github

-----------------------------------------------------------------------------
(* Every step preserves the invariant *)

LEMMA IdleFields ==
  /\ Idle \in Handlers /\ Idle.at = "idle" /\ Idle.client = NoClient
  /\ Idle.op = "none" /\ Idle.call = "none"
  BY BoundsAssumption DEF Idle, Handlers

LEMMA InitInv == Init => IInv
<1> SUFFICES ASSUME Init PROVE IInv
  OBVIOUS
<1>1. h = Idle /\ serving = "yes" /\ h.at = "idle" /\ h.client = NoClient
        /\ h.op = "none" /\ h.call = "none"
  BY IdleFields DEF Init
<1>2. TypeOK
  BY <1>1, IdleFields, BoundsAssumption DEF Init, TypeOK, Lines
<1>3. Whereabouts /\ PushGated /\ Owed
  BY <1>1 DEF Whereabouts, PushGated, Owed
<1>4. Timely /\ OnePullPerRequest /\ EffectsAccounted
  BY <1>1, NullsAssumption DEF Init, Timely, Untouched, OnePullPerRequest, EffectsAccounted
<1> QED BY <1>2, <1>3, <1>4 DEF IInv

LEMMA AcceptInv == ASSUME IInv, NEW c \in Clients, Accept(c) PROVE IInv'
<1>1. h' \in Handlers /\ h'.at = "read" /\ h'.client = c /\ h'.op = "none" /\ h'.call = "none"
  BY IdleFields DEF Accept, Handlers
<1>2. got' = [got EXCEPT ![c] = "waiting"] /\ UNCHANGED <<session, tokens, github, log>>
        /\ Untouched(c) /\ serving = "yes" /\ h.client = NoClient
  BY DEF Accept, At, IInv, Timely, Whereabouts
<1>3. TypeOK'
  BY <1>1, <1>2 DEF IInv, TypeOK, session, tokens, github
<1>4. Whereabouts' /\ PushGated' /\ Owed'
  BY <1>1, <1>2 DEF Whereabouts, PushGated, Owed, session
<1>5. Timely'
  BY <1>1, <1>2 DEF IInv, TypeOK, Timely, Untouched, github
<1>6. OnePullPerRequest'
  BY <1>2 DEF IInv, OnePullPerRequest, github
<1>7. EffectsAccounted'
  BY <1>1, <1>2, NullsAssumption DEF IInv, TypeOK, EffectsAccounted, Untouched, github, session
<1> QED BY <1>3, <1>4, <1>5, <1>6, <1>7 DEF IInv

LEMMA RefuseInv == ASSUME IInv, Refuse PROVE IInv'
<1>1. h.at = "read" /\ Untouched(h.client)
  BY DEF Refuse, At, IInv, Whereabouts, Timely, Untouched
<1>2. OnlyMine
  BY <1>1, Sending DEF Refuse
<1>3. log \subseteq log' /\ log' \subseteq Lines
  BY DEF Refuse, IInv, TypeOK
<1> QED BY <1>1, <1>2, <1>3, Returning DEF Refuse

LEMMA DenyInv ==
  ASSUME IInv, NEW op \in Operations, NEW genuine \in BOOLEAN, NEW nonce \in Nonces,
         Deny(op, genuine, nonce)
  PROVE  IInv'
<1>1. h.at = "read" /\ h.client \in Clients /\ Untouched(h.client)
  BY DEF Deny, At, IInv, Whereabouts, Timely, Untouched
<1>2. OnlyMine
  BY <1>1, Sending DEF Deny
<1>3. seen' = seen \/ \E n \in Nonces : seen' = seen \cup {n}
  BY DEF Deny
<1>4. UNCHANGED <<stop, tokens, github, log>>
  BY DEF Deny
<1>5. CASE op \in Git
  <2>1. Return
    BY <1>5 DEF Deny
  <2>2. log \subseteq log' /\ log' \subseteq Lines
    BY <1>4 DEF IInv, TypeOK
  <2> QED BY <1>1, <1>2, <1>3, <1>4, <2>1, <2>2, Returning
<1>6. CASE op \notin Git
  <2> DEFINE due == Say("denied")
  <2>1. due \in SUBSET Lines /\ due # {} /\ \A line \in due : line.client = h.client
    BY <1>1, SayIsLine DEF Say
  <2>2. h' = [h EXCEPT !.op = op, !.at = "record", !.due = due] /\ serving' = serving
    BY <1>6 DEF Deny
  <2>3. h \in Handlers /\ h.call = "none" /\ h.op = "none"
    BY <1>1 DEF IInv, TypeOK, Whereabouts
  <2> HIDE DEF due
  <2>4. h' \in Handlers
    BY <2>1, <2>2, <2>3 DEF Handlers
  <2>5. h'.client = h.client /\ h'.at = "record" /\ h'.due = due /\ h'.call = "none"
          /\ h'.op = op /\ h'.left = h.left
    BY <2>1, <2>2, <2>3 DEF Handlers
  <2>6. GoesOn
    BY <1>1, <1>2, <1>3, <1>4, <2>2, <2>4, <2>5, NoEffect, Quietly DEF GoesOn
  <2>7. Whereabouts'
    BY <1>1, <1>6, <2>2, <2>5 DEF IInv, Whereabouts, Git
  <2>8. PushGated' /\ Owed'
    BY <1>1, <1>4, <2>1, <2>5 DEF PushGated, Owed, Untouched, github
  <2> QED BY <2>6, <2>7, <2>8, GoingOn DEF IInv
<1> QED BY <1>5, <1>6

LEMMA GrantInv ==
  ASSUME IInv, NEW op \in Operations, NEW genuine \in BOOLEAN, NEW nonce \in Nonces,
         Grant(op, genuine, nonce)
  PROVE  IInv'
<1> DEFINE call == IF op \in Git THEN "discovery" ELSE "rest"
           left == IF op = "pr-checks" THEN 2 ELSE 1
<1>1. h.at = "read" /\ pulls[h.client] = 0 /\ h \in Handlers
  BY DEF Grant, At, IInv, TypeOK, Whereabouts, Timely
<1>2. call \in {"discovery", "rest"} /\ left \in 0..2
        /\ (call = "discovery" <=> op \in {"git-upload-pack", "git-receive-pack"})
        /\ (op = "pr-create" => left = 1 /\ call = "rest")
  BY DEF Git
<1>3. h' = [h EXCEPT !.op = op, !.at = "token", !.call = call, !.left = left]
  BY DEF Grant
<1>4. seen' = seen \cup {nonce} /\ UNCHANGED <<serving, stop, tokens, github, log, got>>
  BY DEF Grant
<1> HIDE DEF call, left
<1>5. h' \in Handlers
  BY <1>1, <1>2, <1>3 DEF Handlers
<1>6. h'.at = "token" /\ h'.client = h.client /\ h'.op = op /\ h'.call = call /\ h'.left = left
  BY <1>1, <1>3 DEF Handlers
<1>7. GoesOn
  BY <1>1, <1>4, <1>5, <1>6, NoEffect, Sending, Quietly DEF GoesOn, github
<1>8. Whereabouts'
  BY <1>1, <1>2, <1>4, <1>6 DEF IInv, Whereabouts
<1>9. PushGated' /\ Owed'
  BY <1>2, <1>6 DEF PushGated, Owed
<1> QED BY <1>7, <1>8, <1>9, GoingOn DEF IInv

LEMMA GrantThenRaiseInv ==
  ASSUME IInv, NEW op \in Operations, NEW genuine \in BOOLEAN, NEW nonce \in Nonces,
         GrantThenRaise(op, genuine, nonce)
  PROVE  IInv'
<1>1. h.at # "idle" /\ UNCHANGED <<stop, tokens, github, log, got>> /\ Escape
        /\ seen' = seen \cup {nonce}
  BY DEF GrantThenRaise, At
<1> QED BY <1>1, NoEffect, Escaping

\* The handler goes on inside its operation.
LEMMA Moving ==
  ASSUME IInv, h.at \notin {"idle", "read"}, Sound, OnlyMine, Effect,
         serving' = serving, log' = log, h' \in Handlers, Kept,
         h'.at \notin {"idle", "read", "record"},
         h'.at \in {"token", "send"} =>
           pulls'[h.client] = 0 /\ (h.at \in {"token", "send"} \/ h.op # "pr-create"),
         h'.at \in {"answer", "await"} /\ h.op = "git-receive-pack" => h.call = "discovery",
         h'.at = "deliver" => h.call = "rpc"
  PROVE  IInv'
<1>1. GoesOn
  BY DEF GoesOn, Kept
<1>2. Whereabouts'
  BY DEF IInv, Whereabouts, Kept
<1>3. PushGated' /\ Owed'
  BY DEF IInv, PushGated, Owed, Kept
<1> QED BY <1>1, <1>2, <1>3, GoingOn DEF IInv

LEMMA GetTokenInv == ASSUME IInv, GetToken PROVE IInv'
<1>1. h.at = "token" /\ pulls[h.client] = 0 /\ h \in Handlers
  BY DEF GetToken, At, IInv, TypeOK, Whereabouts, Timely
<1>2. UNCHANGED <<session, spoiled, github, log, got>>
  BY DEF GetToken
<1>3. Effect /\ OnlyMine
  BY <1>1, <1>2, NoEffect, Sending
<1>4. ASSUME NEW t \in 0..MaxTokens, h' = [h EXCEPT !.at = "send", !.token = t], Sound
      PROVE  IInv'
  <2>1. h' \in Handlers /\ h'.at = "send" /\ Kept
    BY <1>1, <1>4 DEF Handlers, Kept
  <2> QED BY <1>1, <1>2, <1>3, <1>4, <2>1, Moving DEF session, github
<1>5. CASE cache # 0 /\ h' = [h EXCEPT !.at = "send", !.token = cache] /\ UNCHANGED <<cache, minted>>
  <2>1. cache \in 0..MaxTokens
    BY BoundsAssumption DEF IInv, TypeOK
  <2>2. Sound
    BY <1>2, <1>5 DEF IInv, TypeOK, Sound, session
  <2> QED BY <1>4, <1>5, <2>1, <2>2
<1>6. CASE /\ minted < MaxTokens
           /\ minted' = minted + 1 /\ cache' = minted + 1
           /\ h' = [h EXCEPT !.at = "send", !.token = minted + 1]
  <2>1. minted + 1 \in 0..MaxTokens /\ minted \in Nat
    BY <1>6, BoundsAssumption DEF IInv, TypeOK
  <2>2. spoiled' \subseteq 1..minted'
    BY <1>2, <1>6, <2>1 DEF IInv, TypeOK
  <2>3. Sound
    BY <1>2, <1>6, <2>1, <2>2 DEF IInv, TypeOK, Sound, session
  <2> QED BY <1>4, <1>6, <2>1, <2>3
<1> QED BY <1>5, <1>6 DEF GetToken

LEMMA GetTokenFailsInv == ASSUME IInv, GetTokenFails PROVE IInv'
<1>1. h.at = "token" /\ Fail /\ UNCHANGED <<tokens, github, log>>
  BY DEF GetTokenFails, At
<1> QED BY <1>1, NoEffect, Failing

LEMMA UnauthorizedInv == ASSUME IInv, Unauthorized PROVE IInv'
<1>1. h.at = "send" /\ pulls[h.client] = 0 /\ h \in Handlers /\ h.token \in 0..MaxTokens
  BY DEF Unauthorized, At, IInv, TypeOK, Whereabouts, Timely, Handlers
<1>2. UNCHANGED <<session, minted, spoiled, github, log, got>> /\ cache' = 0
        /\ h' = [h EXCEPT !.at = "token", !.tried = h.token]
  BY DEF Unauthorized
<1>3. Effect /\ OnlyMine
  BY <1>1, <1>2, NoEffect, Sending
<1>4. Sound
  BY <1>2 DEF IInv, TypeOK, Sound, session
<1>5. h' \in Handlers /\ h'.at = "token" /\ Kept
  BY <1>1, <1>2 DEF Handlers, Kept
<1> QED BY <1>1, <1>2, <1>3, <1>4, <1>5, Moving DEF session, github

LEMMA AnsweredInv == ASSUME IInv, Answered PROVE IInv'
<1>1. h.at = "send" /\ pulls[h.client] = 0 /\ h \in Handlers /\ Perform
  BY DEF Answered, At, IInv, TypeOK, Whereabouts, Timely
<1>2. UNCHANGED <<session, tokens, log, got>>
  BY DEF Answered
<1>3. Effect /\ OnlyMine /\ Sound
  BY <1>1, <1>2, LostEffect, Sending, Quietly DEF At, session
<1>4. 0 \in 0..MaxTokens
  BY BoundsAssumption
<1>5. CASE /\ h.call = "discovery"
           /\ h' = [h EXCEPT !.at = "answer", !.tried = 0, !.adv = Advertised]
  <2> DEFINE adv == Advertised
  <2>1. adv \in SUBSET Refs
    BY DEF Advertised
  <2>2. h' = [h EXCEPT !.at = "answer", !.tried = 0, !.adv = adv]
    BY <1>5
  <2> HIDE DEF adv
  <2>3. h' \in Handlers /\ h'.at = "answer" /\ Kept
    BY <1>1, <1>4, <2>1, <2>2 DEF Handlers, Kept
  <2> QED BY <1>1, <1>2, <1>3, <1>5, <2>3, Moving DEF session
<1>6. CASE \/ h.call = "rpc" /\ h' = [h EXCEPT !.at = "deliver"]
           \/ h.call = "rest" /\ h' = [h EXCEPT !.at = "answer"]
  <2>1. /\ h' \in Handlers /\ h'.at \in {"deliver", "answer"} /\ Kept
        /\ h'.at = "deliver" => h.call = "rpc"
        /\ h'.at = "answer" => h.call = "rest"
    BY <1>1, <1>6 DEF Handlers, Kept
  <2>2. h'.at = "answer" => h.op # "git-receive-pack"
    BY <2>1 DEF IInv, Whereabouts
  <2> QED BY <1>1, <1>2, <1>3, <2>1, <2>2, Moving DEF session
<1>7. CASE h.left > 1 /\ h' = [h EXCEPT !.at = "token", !.left = @ - 1, !.tried = 0]
  <2> DEFINE left == h.left - 1
  <2>1. h.left \in 0..2
    BY <1>1 DEF Handlers
  <2>2. left \in 0..2 /\ h.left # 1
    BY <1>7, <2>1
  <2>3. h' = [h EXCEPT !.at = "token", !.left = left, !.tried = 0]
    BY <1>7
  <2> HIDE DEF left
  <2>4. h' \in Handlers /\ h'.at = "token" /\ h'.client = h.client /\ h'.op = h.op
          /\ h'.call = h.call /\ h'.push = h.push
    BY <1>1, <1>4, <2>2, <2>3 DEF Handlers
  <2>5. h.op # "pr-create"
    BY <1>1, <2>2 DEF IInv, Whereabouts
  <2>6. pulls'[h.client] = 0
    BY <1>3, <2>5 DEF Effect
  <2>7. GoesOn
    BY <1>1, <1>2, <1>3, <2>4, <2>6 DEF GoesOn, session
  <2>8. Whereabouts'
    BY <1>1, <1>2, <2>4, <2>5 DEF IInv, Whereabouts, session
  <2>9. PushGated' /\ Owed'
    BY <2>4 DEF IInv, PushGated, Owed
  <2> QED BY <2>7, <2>8, <2>9, GoingOn DEF IInv
<1> QED BY <1>5, <1>6, <1>7 DEF Answered

LEMMA CallFailsInv == ASSUME IInv, CallFails PROVE IInv'
<1>1. h.at = "send" /\ Fail /\ UNCHANGED <<tokens, log>> /\ (Perform \/ UNCHANGED github)
  BY DEF CallFails, Lost, At
<1> QED BY <1>1, LostEffect, Failing DEF At

LEMMA CallRaisesInv == ASSUME IInv, CallRaises PROVE IInv'
<1>1. h.at = "send" /\ Escape /\ UNCHANGED <<stop, seen, tokens, log, got>>
        /\ (Perform \/ UNCHANGED github)
  BY DEF CallRaises, Lost, At
<1> QED BY <1>1, LostEffect, Escaping DEF At

LEMMA AnswerInv == ASSUME IInv, Answer PROVE IInv'
<1>1. h.at = "answer" /\ h \in Handlers /\ h.client \in Clients
  BY DEF Answer, At, IInv, TypeOK, Whereabouts
<1>2. UNCHANGED <<session, tokens, github, log>>
  BY DEF Answer
<1>3. OnlyMine
  <2>1. ASSUME NEW s \in {"ok", "whole"}, got' = [got EXCEPT ![h.client] = s] PROVE OnlyMine
    <3>1. Send(s)
      BY <2>1 DEF Send
    <3> QED BY <1>1, <3>1, Sending
  <2> QED BY <2>1 DEF Answer
<1>4. Effect /\ Sound
  BY <1>1, <1>2, NoEffect, Quietly DEF session
<1>5. CASE ~Rest /\ h' = [h EXCEPT !.at = "await"]
  <2>1. h' \in Handlers /\ h'.at = "await" /\ Kept
    BY <1>1, <1>5 DEF Handlers, Kept
  <2>2. h.op = "git-receive-pack" => h.call = "discovery"
    BY <1>1 DEF IInv, Whereabouts
  <2> QED BY <1>1, <1>2, <1>3, <1>4, <2>1, <2>2, Moving DEF session
<1>6. CASE Record(Say("ok"), "none")
  <2>1. Say("ok") \in SUBSET Lines /\ Say("ok") # {}
          /\ \A line \in Say("ok") : line.client = h.client /\ line.status # "denied"
    BY <1>1, SayIsLine DEF Say
  <2> QED BY <1>1, <1>2, <1>3, <1>4, <1>6, <2>1, Recording DEF session
<1> QED BY <1>5, <1>6 DEF Answer

LEMMA AnswerFailsInv == ASSUME IInv, AnswerFails PROVE IInv'
<1>1. h.at = "answer" /\ Send("ok") /\ FailStream /\ UNCHANGED <<tokens, github, log>>
  BY DEF AnswerFails, At
<1> QED BY <1>1, StreamFailing

LEMMA TooLargeInv == ASSUME IInv, TooLarge PROVE IInv'
<1>1. h.at = "answer" /\ UNCHANGED <<tokens, github, log>>
        /\ (Fail \/ (Escape /\ UNCHANGED <<stop, seen, got>>))
  BY DEF TooLarge, At
<1>2. Effect
  BY <1>1, NoEffect
<1> QED BY <1>1, <1>2, Failing, Escaping

\* The RPC of a Git operation is asked for.
LEMMA Asking ==
  ASSUME IInv, h.at = "await", NEW push \in SUBSET Commands,
         h' = [h EXCEPT !.at = "token", !.call = "rpc", !.push = push, !.tried = 0],
         UNCHANGED <<session, tokens, github, log, got>>,
         h.op \in {"git-upload-pack", "git-receive-pack"},
         h.op = "git-receive-pack" =>
           push # {} /\ \A u \in push : u.ref \in WorkRefs /\ u.old = Zero /\ u.new # Zero
  PROVE  IInv'
<1>1. h \in Handlers /\ 0 \in 0..MaxTokens
  BY BoundsAssumption DEF IInv, TypeOK
<1>2. h' \in Handlers /\ h'.at = "token" /\ h'.client = h.client /\ h'.op = h.op
        /\ h'.call = "rpc" /\ h'.push = push
  BY <1>1 DEF Handlers
<1>3. Effect /\ Sound /\ OnlyMine
  BY NoEffect, Quietly, Sending DEF session
<1>4. pulls'[h.client] = 0
  BY <1>3 DEF Effect
<1>5. GoesOn
  BY <1>2, <1>3, <1>4 DEF GoesOn, session
<1>6. Whereabouts'
  BY <1>2 DEF IInv, Whereabouts, session
<1>7. PushGated' /\ Owed'
  BY <1>2 DEF PushGated, Owed
<1> QED BY <1>5, <1>6, <1>7, GoingOn DEF IInv

LEMMA AwaitInv == ASSUME IInv, Await PROVE IInv'
<1>1. h.at = "await" /\ h.op = "git-upload-pack" /\ h \in Handlers /\ h.client \in Clients
        /\ h.push \in SUBSET Commands
  BY DEF Await, At, IInv, TypeOK, Whereabouts, Handlers
<1>2. UNCHANGED <<session, tokens, github, log, got>>
  BY DEF Await
<1>3. CASE h' = [h EXCEPT !.at = "token", !.call = "rpc", !.tried = 0]
  <2>1. h' = [h EXCEPT !.at = "token", !.call = "rpc", !.push = h.push, !.tried = 0]
    BY <1>1, <1>3 DEF Handlers
  <2> QED BY <1>1, <1>2, <2>1, Asking
<1>4. CASE Record(Say("ok"), "none")
  <2>1. Say("ok") \in SUBSET Lines /\ Say("ok") # {}
          /\ \A line \in Say("ok") : line.client = h.client /\ line.status # "denied"
    BY <1>1, SayIsLine DEF Say
  <2>2. Effect /\ Sound /\ OnlyMine
    BY <1>1, <1>2, NoEffect, Quietly, Sending DEF session
  <2> QED BY <1>1, <1>2, <1>4, <2>1, <2>2, Recording DEF session
<1> QED BY <1>3, <1>4 DEF Await

LEMMA AwaitPushInv == ASSUME IInv, NEW push \in Pushes, AwaitPush(push) PROVE IInv'
<1>1. h.at = "await" /\ h.op = "git-receive-pack" /\ h.client \in Clients /\ Untouched(h.client)
        /\ push \in SUBSET Commands
  BY PushesAssumption DEF AwaitPush, At, IInv, Whereabouts, Timely, Untouched
<1>2. UNCHANGED <<session, tokens, github, log, got>>
  BY DEF AwaitPush
<1>3. CASE Gated(push, h.adv)
  BY <1>1, <1>2, <1>3, Asking DEF AwaitPush, Gated
<1>4. CASE ~Gated(push, h.adv)
  <2>1. Say("denied") \in SUBSET Lines /\ Say("denied") # {}
          /\ \A line \in Say("denied") : line.client = h.client
    BY <1>1, SayIsLine DEF Say
  <2>2. Effect /\ Sound /\ OnlyMine
    BY <1>1, <1>2, NoEffect, Quietly, Sending DEF session
  <2>3. Record(Say("denied"), "none")
    BY <1>4 DEF AwaitPush
  <2> QED BY <1>1, <1>2, <2>1, <2>2, <2>3, Recording DEF session
<1> QED BY <1>3, <1>4

LEMMA AwaitFailsInv == ASSUME IInv, AwaitFails PROVE IInv'
<1>1. h.at = "await" /\ FailStream /\ UNCHANGED <<tokens, github, log, got>>
  BY DEF AwaitFails, At
<1> QED BY <1>1, StreamFailing

LEMMA DeliverInv == ASSUME IInv, Deliver PROVE IInv'
<1>1. h.at = "deliver" /\ h.call = "rpc" /\ h \in Handlers /\ h.client \in Clients
        /\ h.op \in {"git-upload-pack", "git-receive-pack"}
  BY DEF Deliver, At, IInv, TypeOK, Whereabouts
<1>2. UNCHANGED <<session, tokens, github, log>> /\ got' = [got EXCEPT ![h.client] = "whole"]
  BY DEF Deliver
<1>3. Send("whole")
  BY <1>2 DEF Send
<1>4. Effect /\ Sound /\ OnlyMine
  BY <1>1, <1>2, <1>3, NoEffect, Quietly, Sending DEF session
<1>5. CASE h.op = "git-upload-pack"
  <2>1. h' \in Handlers /\ h'.at = "await" /\ Kept
    BY <1>1, <1>5 DEF Deliver, Handlers, Kept
  <2> QED BY <1>1, <1>2, <1>4, <1>5, <2>1, Moving DEF session
<1>6. CASE h.op = "git-receive-pack"
  <2> DEFINE due == {Line(h.client, "ok", u.ref) : u \in h.push}
  <2>1. h.push # {} /\ \A u \in h.push : u.ref \in Refs
    BY <1>1, <1>6 DEF IInv, PushGated, Handlers, Commands
  <2>2. due \in SUBSET Lines /\ due # {}
          /\ \A line \in due : line.client = h.client /\ line.status # "denied"
    BY <1>1, <2>1, SayIsLine
  <2>3. Record(due, "none")
    BY <1>6 DEF Deliver
  <2> HIDE DEF due
  <2> QED BY <1>1, <1>2, <1>4, <2>2, <2>3, Recording DEF session
<1> QED BY <1>1, <1>5, <1>6

LEMMA DeliverFailsInv == ASSUME IInv, DeliverFails PROVE IInv'
<1>1. h.at = "deliver" /\ FailStream /\ UNCHANGED <<tokens, github, log, got>>
  BY DEF DeliverFails, At
<1> QED BY <1>1, StreamFailing

LEMMA DeliverRaisesInv == ASSUME IInv, DeliverRaises PROVE IInv'
<1>1. h.at = "deliver" /\ Escape /\ UNCHANGED <<stop, seen, tokens, github, log, got>>
  BY DEF DeliverRaises, At
<1> QED BY <1>1, NoEffect, Escaping

LEMMA AppendInv == ASSUME IInv, NEW line \in h.due, Append(line) PROVE IInv'
<1>1. h.at = "record" /\ h \in Handlers /\ h.client \in Clients
        /\ h.due \in SUBSET Lines /\ h.reply \in {"none", "error"}
  BY DEF Append, At, IInv, TypeOK, Whereabouts, Handlers
<1>2. line \in Lines /\ line.client = h.client
        /\ (line.status = "denied" => Untouched(h.client))
  BY <1>1 DEF IInv, Owed
<1>3. log' = log \cup {line} /\ UNCHANGED <<stop, seen, tokens, github>>
  BY DEF Append
<1>4. Effect /\ Sound
  BY <1>1, <1>3, NoEffect, Quietly
<1>5. CASE h.due = {line}
  <2>1. Return /\ (UNCHANGED got \/ Send(h.reply)) /\ (h.reply = "none" => UNCHANGED got)
    BY <1>5 DEF Append
  <2>2. OnlyMine
    BY <1>1, <2>1, Sending
  <2>3. line.status \in {"ok", "denied", "error"}
    BY <1>2 DEF Lines
  <2>4. log \subseteq log' /\ log' \subseteq Lines
    BY <1>2, <1>3 DEF IInv, TypeOK
  <2> QED BY <1>1, <1>2, <1>3, <2>1, <2>2, <2>3, <2>4, Returning
<1>6. CASE h.due # {line}
  <2> DEFINE due == h.due \ {line}
  <2>1. due \in SUBSET Lines /\ due # {}
    BY <1>1, <1>6
  <2>2. h' = [h EXCEPT !.due = due] /\ UNCHANGED <<serving, got>>
    BY <1>6 DEF Append
  <2>3. \A l \in due : l \in h.due
    OBVIOUS
  <2> HIDE DEF due
  <2>4. h' \in Handlers /\ h'.at = "record" /\ h'.due = due /\ Kept
    BY <1>1, <2>1, <2>2 DEF Handlers, Kept
  <2>5. TypeOK'
    BY <1>2, <1>3, <2>2, <2>4 DEF IInv, TypeOK, tokens, github
  <2>6. Whereabouts' /\ PushGated'
    BY <1>1, <2>2, <2>4 DEF IInv, Whereabouts, PushGated, Kept
  <2>7. Timely' /\ Owed'
    BY <1>1, <1>3, <2>1, <2>2, <2>3, <2>4 DEF IInv, Timely, Owed, Untouched, Kept, github
  <2>8. OnePullPerRequest'
    BY <1>3 DEF IInv, OnePullPerRequest, github
  <2>9. EffectsAccounted'
    BY <1>3, <2>2, <2>4 DEF IInv, EffectsAccounted, Kept, github
  <2> QED BY <2>5, <2>6, <2>7, <2>8, <2>9 DEF IInv
<1> QED BY <1>5, <1>6

LEMMA AppendFailsInv == ASSUME IInv, AppendFails PROVE IInv'
<1>1. h.at = "record" /\ h.client \in Clients /\ UNCHANGED <<stop, seen, tokens, github, log, got>>
  BY DEF AppendFails, At, IInv, Whereabouts
<1>2. CASE Refusal /\ Return
  <2>1. \A line \in h.due : line.status = "denied"
    BY <1>1, <1>2, SayIsLine DEF Refusal, Say
  <2>2. Untouched(h.client)
    BY <1>1, <2>1 DEF IInv, Owed
  <2>3. OnlyMine /\ log \subseteq log' /\ log' \subseteq Lines
    BY <1>1, Sending DEF IInv, TypeOK
  <2> QED BY <1>1, <1>2, <2>2, <2>3, Returning
<1>3. CASE Escape
  BY <1>1, <1>3, NoEffect, Escaping
<1> QED BY <1>2, <1>3 DEF AppendFails

\* The owner, GitHub and the other users touch neither the handler nor the history.
LEMMA OutsideInv ==
  ASSUME IInv, SeesStop \/ World \/ UNCHANGED vars
  PROVE  IInv'
<1>1. UNCHANGED <<h, log, got, pulls, landed, seen, cache, minted>>
  BY DEF SeesStop, World, AskToStop, Unlisten, Revoke, Spoil, OthersWrite, vars, session, tokens, github
<1>2. serving' = serving \/ (serving' = "no" /\ serving = "yes")
  BY DEF SeesStop, World, AskToStop, Unlisten, Revoke, Spoil, OthersWrite, vars, session
<1>3. stop' \in {"no", "asked", "unlistened", "revoked"}
  BY DEF SeesStop, World, AskToStop, Unlisten, Revoke, Spoil, OthersWrite, vars, session, IInv, TypeOK
<1>4. spoiled' \subseteq 1..minted
  BY DEF SeesStop, World, AskToStop, Unlisten, Revoke, Spoil, OthersWrite, vars, tokens, IInv, TypeOK
<1>5. refs' \in [Refs -> Values]
  BY DEF SeesStop, World, AskToStop, Unlisten, Revoke, Spoil, OthersWrite, vars, github, IInv, TypeOK
<1>6. TypeOK'
  BY <1>1, <1>2, <1>3, <1>4, <1>5 DEF IInv, TypeOK
<1>7. Whereabouts' /\ PushGated'
  BY <1>1, <1>2 DEF IInv, Whereabouts, PushGated
<1>8. Timely' /\ Owed'
  BY <1>1 DEF IInv, Timely, Owed, Untouched
<1>9. OnePullPerRequest' /\ EffectsAccounted'
  BY <1>1, <1>2 DEF IInv, OnePullPerRequest, EffectsAccounted
<1> QED BY <1>6, <1>7, <1>8, <1>9 DEF IInv

LEMMA StepInv == ASSUME IInv, [Next]_vars PROVE IInv'
<1>1. ASSUME NEW c \in Clients, Accept(c) PROVE IInv'
  BY <1>1, AcceptInv
<1>2. ASSUME NEW op \in Operations, NEW genuine \in BOOLEAN, NEW nonce \in Nonces,
             Request(op, genuine, nonce)
      PROVE  IInv'
  BY <1>2, DenyInv, GrantInv, GrantThenRaiseInv DEF Request
<1>3. CASE Refuse
  BY <1>3, RefuseInv
<1>4. CASE Call
  BY <1>4, GetTokenInv, GetTokenFailsInv, UnauthorizedInv, AnsweredInv, CallFailsInv, CallRaisesInv
     DEF Call
<1>5. CASE Respond
  BY <1>5, AnswerInv, AnswerFailsInv, TooLargeInv, AwaitInv, AwaitFailsInv, AwaitPushInv,
     DeliverInv, DeliverFailsInv, DeliverRaisesInv DEF Respond
<1>6. CASE Audit
  BY <1>6, AppendInv, AppendFailsInv DEF Audit
<1>7. CASE SeesStop \/ World \/ UNCHANGED vars
  BY <1>7, OutsideInv
<1> QED BY <1>1, <1>2, <1>3, <1>4, <1>5, <1>6, <1>7 DEF Next

LEMMA Inductive == Spec => []IInv
<1>1. Init => IInv
  BY InitInv
<1>2. IInv /\ [Next]_vars => IInv'
  BY StepInv
<1> QED BY <1>1, <1>2, PTL DEF Spec

-----------------------------------------------------------------------------
(* What the broker promises *)

\* The session, the handler, the repository and the audit keep their shape.
THEOREM TypeCorrect == Spec => []TypeOK
<1>1. IInv => TypeOK
  BY DEF IInv
<1> QED BY <1>1, Inductive, PTL

\* However often tokens are refused and answers are lost, a request creates one pull request.
THEOREM NoSecondPull == Spec => []OnePullPerRequest
<1>1. IInv => OnePullPerRequest
  BY DEF IInv
<1> QED BY <1>1, Inductive, PTL

\* Whatever fails and whenever the owner revokes the session, an effect on the repository is
\* told of in the audit or the broker has failed.
THEOREM NoSilentEffect == Spec => []EffectsAccounted
<1>1. IInv => EffectsAccounted
  BY DEF IInv
<1> QED BY <1>1, Inductive, PTL

\* A step of the broker leaves the other users' refs alone: it only creates work branches.
THEOREM OnlyCreates == Spec => CreateOnly
<1> DEFINE Gentle == h' # h =>
             \A r \in Refs : refs'[r] # refs[r] => r \in WorkRefs /\ refs[r] = Zero /\ refs'[r] # Zero
<1>1. ASSUME IInv, [Next]_vars PROVE Gentle
  <2>1. CASE Answered \/ CallFails \/ CallRaises
    <3>1. At("send") /\ (Perform \/ UNCHANGED github)
      BY <2>1 DEF Answered, CallFails, CallRaises, Lost
    <3> QED BY <1>1, <3>1, LostEffect DEF Effect
  <2>2. CASE World
    BY <2>2 DEF World, AskToStop, Unlisten, Revoke, Spoil, OthersWrite
  <2>3. CASE UNCHANGED vars
    BY <2>3 DEF vars
  <2>4. CASE GetToken \/ GetTokenFails \/ Unauthorized
    BY <2>4 DEF GetToken, GetTokenFails, Unauthorized, github
  <2>5. CASE Respond
    BY <2>5 DEF Respond, Answer, AnswerFails, TooLarge, Await, AwaitPush, AwaitFails, Deliver,
                DeliverFails, DeliverRaises, github
  <2>6. CASE Audit
    BY <2>6 DEF Audit, Append, AppendFails, github
  <2>7. CASE \/ SeesStop \/ Refuse
             \/ \E c \in Clients : Accept(c)
             \/ \E op \in Operations, genuine \in BOOLEAN, nonce \in Nonces : Request(op, genuine, nonce)
    BY <2>7 DEF SeesStop, Refuse, Accept, Request, Deny, Grant, GrantThenRaise, github
  <2> QED BY <1>1, <2>1, <2>2, <2>3, <2>4, <2>5, <2>6, <2>7 DEF Next, Call
<1>2. IInv /\ [Next]_vars => [Gentle]_vars
  BY <1>1
<1> QED BY <1>2, Inductive, PTL DEF Spec, CreateOnly

-----------------------------------------------------------------------------
(* The second attempt at a call *)

\* A refused token has left the cache before the next one is fetched.
Refreshed ==
  /\ h.token \in 0..minted /\ h.tried \in 0..minted
  /\ h.at = "read" => h.tried = 0
  /\ h.at = "token" /\ h.tried # 0 => cache = 0
  /\ RetryHasNewToken

\* What most steps do to the two tokens of the handler.
SameTokens ==
  /\ h'.token \in {0, h.token} /\ h'.tried \in {0, h.tried}
  /\ h'.at \notin {"token", "send"} \/ h'.tried = 0
  /\ h'.at # "send" /\ (h'.at = "read" => h'.tried = 0)

LEMMA KeepsFresh ==
  ASSUME TypeOK, Refreshed, UNCHANGED tokens, SameTokens
  PROVE  Refreshed'
  BY DEF TypeOK, Refreshed, SameTokens, RetryHasNewToken, At, tokens

LEMMA RefreshedStep ==
  ASSUME TypeOK, Refreshed, [Next]_vars
  PROVE  Refreshed'
<1>1. h \in Handlers /\ h.token \in Nat /\ h.tried \in Nat /\ minted \in Nat /\ cache \in 0..minted
  BY BoundsAssumption DEF TypeOK, Handlers
<1> DEFINE Records == \E due, reply : Record(due, reply)
<1>2. ASSUME UNCHANGED tokens, Records \/ h' = Idle PROVE Refreshed'
  <2>1. ASSUME NEW due, NEW reply, h' = [h EXCEPT !.at = "record", !.due = due, !.reply = reply]
        PROVE  SameTokens
    BY <1>1, <2>1 DEF Handlers, SameTokens
  <2>2. h' = Idle => SameTokens
    BY DEF Idle, SameTokens
  <2>3. Records => SameTokens
    BY <2>1 DEF Record
  <2>4. SameTokens
    BY <1>2, <2>2, <2>3
  <2> QED BY <1>2, <2>4, KeepsFresh
<1>3. ASSUME NEW c \in Clients, Accept(c) PROVE Refreshed'
  <2>1. SameTokens /\ UNCHANGED tokens
    BY <1>3 DEF Accept, SameTokens, Idle
  <2> QED BY <2>1, KeepsFresh
<1>4. ASSUME NEW op \in Operations, NEW genuine \in BOOLEAN, NEW nonce \in Nonces,
             Request(op, genuine, nonce)
      PROVE  Refreshed'
  <2>1. UNCHANGED tokens /\ h.tried = 0
    BY <1>4 DEF Request, Deny, Grant, GrantThenRaise, At, Refreshed
  <2>2. CASE GrantThenRaise(op, genuine, nonce)
    BY <1>2, <2>1, <2>2 DEF GrantThenRaise, Escape
  <2>3. CASE Deny(op, genuine, nonce)
    <3>1. CASE h' = Idle
      BY <1>2, <2>1, <3>1
    <3>2. CASE h' = [h EXCEPT !.op = op, !.at = "record", !.due = Say("denied")]
      <4>1. SameTokens
        BY <1>1, <3>2 DEF SameTokens, Handlers
      <4> QED BY <2>1, <4>1, KeepsFresh
    <3> QED BY <2>3, <3>1, <3>2 DEF Deny, Return
  <2>4. CASE Grant(op, genuine, nonce)
    <3>1. SameTokens
      BY <1>1, <2>1, <2>4 DEF Grant, SameTokens, Handlers
    <3> QED BY <2>1, <3>1, KeepsFresh
  <2> QED BY <1>4, <2>2, <2>3, <2>4 DEF Request
<1>5. CASE GetToken
  <2>1. h.at = "token" /\ minted' \in Nat /\ minted <= minted'
    BY <1>1, <1>5 DEF GetToken, At, tokens
  <2>2. PICK t \in 1..minted' : h' = [h EXCEPT !.at = "send", !.token = t] /\ t # h.tried
    <3>1. CASE cache # 0 /\ h' = [h EXCEPT !.at = "send", !.token = cache] /\ minted' = minted
      <4>1. cache \in 1..minted' /\ cache # h.tried
        BY <1>1, <2>1, <3>1 DEF Refreshed
      <4> QED BY <3>1, <4>1
    <3>2. CASE minted' = minted + 1 /\ h' = [h EXCEPT !.at = "send", !.token = minted + 1]
      <4>1. minted + 1 \in 1..minted' /\ minted + 1 # h.tried
        BY <1>1, <3>2 DEF Refreshed
      <4> QED BY <3>2, <4>1
    <3> QED BY <1>5, <3>1, <3>2 DEF GetToken
  <2>3. h'.at = "send" /\ h'.token = t /\ h'.tried = h.tried
    BY <1>1, <2>2 DEF Handlers
  <2> QED BY <1>1, <2>1, <2>2, <2>3 DEF Refreshed, RetryHasNewToken, At
<1>6. CASE Unauthorized
  <2>1. h.at = "send" /\ cache' = 0 /\ minted' = minted
          /\ h' = [h EXCEPT !.at = "token", !.tried = h.token]
    BY <1>6 DEF Unauthorized, At
  <2>2. h'.at = "token" /\ h'.token = h.token /\ h'.tried = h.token
    BY <1>1, <2>1 DEF Handlers
  <2> QED BY <1>1, <2>1, <2>2 DEF Refreshed, RetryHasNewToken, At
<1>7. CASE Answered
  <2>1. UNCHANGED tokens /\ SameTokens
    BY <1>1, <1>7 DEF Answered, At, SameTokens, Handlers
  <2> QED BY <2>1, KeepsFresh
<1>8. CASE Await \/ \E push \in Pushes : AwaitPush(push)
  <2>1. UNCHANGED tokens
    BY <1>8 DEF Await, AwaitPush
  <2>2. CASE Records
    BY <1>2, <2>1, <2>2
  <2>3. CASE \/ h' = [h EXCEPT !.at = "token", !.call = "rpc", !.tried = 0]
             \/ \E push \in Pushes :
                  h' = [h EXCEPT !.at = "token", !.call = "rpc", !.push = push, !.tried = 0]
    <3>1. SameTokens
      BY <1>1, <2>3 DEF SameTokens, Handlers
    <3> QED BY <2>1, <3>1, KeepsFresh
  <2> QED BY <1>8, <2>2, <2>3 DEF Await, AwaitPush
<1>9. CASE Answer \/ Deliver
  <2>1. UNCHANGED tokens
    BY <1>9 DEF Answer, Deliver
  <2>2. CASE Records
    BY <1>2, <2>1, <2>2
  <2>3. CASE h' = [h EXCEPT !.at = "await"]
    <3>1. SameTokens
      BY <1>1, <2>3 DEF SameTokens, Handlers
    <3> QED BY <2>1, <3>1, KeepsFresh
  <2> QED BY <1>9, <2>2, <2>3 DEF Answer, Deliver
<1>10. CASE GetTokenFails \/ CallFails \/ CallRaises \/ AnswerFails \/ TooLarge \/ AwaitFails
            \/ DeliverFails \/ DeliverRaises \/ Refuse \/ AppendFails
  <2>1. UNCHANGED tokens /\ (Records \/ h' = Idle)
    BY <1>10 DEF GetTokenFails, CallFails, CallRaises, AnswerFails, TooLarge, AwaitFails,
       DeliverFails, DeliverRaises, Refuse, AppendFails, Fail, FailStream, Escape, Return
  <2> QED BY <1>2, <2>1
<1>11. ASSUME NEW line \in h.due, Append(line) PROVE Refreshed'
  <2>1. UNCHANGED tokens
    BY <1>11 DEF Append
  <2>2. CASE h' = Idle
    BY <1>2, <2>1, <2>2
  <2>3. CASE h' = [h EXCEPT !.due = @ \ {line}]
    <3>1. SameTokens
      BY <1>1, <1>11, <2>3 DEF SameTokens, Handlers, Append, At
    <3> QED BY <2>1, <3>1, KeepsFresh
  <2> QED BY <1>11, <2>2, <2>3 DEF Append, Return
<1>12. CASE SeesStop \/ World \/ UNCHANGED vars
  <2>1. UNCHANGED <<h, cache, minted>>
    BY <1>12 DEF SeesStop, World, AskToStop, Unlisten, Revoke, Spoil, OthersWrite, vars, tokens
  <2> QED BY <2>1 DEF Refreshed, RetryHasNewToken, At
<1> QED BY <1>3, <1>4, <1>5, <1>6, <1>7, <1>8, <1>9, <1>10, <1>11, <1>12
     DEF Next, Call, Respond, Audit

\* The second attempt at a call never presents the token that GitHub has just refused.
THEOREM RetriesWithNewToken == Spec => []RetryHasNewToken
<1>1. Init => Refreshed
  BY BoundsAssumption DEF Init, Idle, Refreshed, RetryHasNewToken, At
<1>2. TypeOK /\ Refreshed /\ [Next]_vars => Refreshed'
  BY RefreshedStep
<1>3. Refreshed => RetryHasNewToken
  BY DEF Refreshed
<1> QED BY <1>1, <1>2, <1>3, TypeCorrect, PTL DEF Spec

-----------------------------------------------------------------------------
\* What a line that says ok tells of its client.
Heard(line) ==
  line.status = "ok" =>
    \/ got[line.client] = "whole"
    \/ got[line.client] = "ok" /\ line.ref = NoRef /\ pulls[line.client] = 0

\* The lines of a connection are all written at its end, and one that has ended well is not
\* sent anything after them.
Honest ==
  /\ \A line \in log : Heard(line)
  /\ \A line \in log : got[line.client] # "none"
  /\ h.at # "idle" => \A line \in log : line.client = h.client => h.at = "record"
  /\ h.at = "record" =>
       /\ \A line \in h.due : Heard(line)
       /\ h.reply = "error" => \A line \in log \cup h.due : line.client = h.client => line.status # "ok"
  /\ h.at = "await" => got[h.client] \in {"ok", "whole"}

\* A step of a connection that has no line yet.
LEMMA Carries ==
  ASSUME IInv, Honest, h.at \notin {"idle", "record"}, log' = log,
         \A c \in Clients : c # h.client => got'[c] = got[c] /\ pulls'[c] = pulls[c],
         got'[h.client] # "none",
         h'.at # "idle" => h'.client = h.client,
         h'.at = "record" => \A line \in h'.due : Heard(line)' /\ (line.status = "ok" => h'.reply # "error"),
         h'.at = "await" => got'[h.client] \in {"ok", "whole"}
  PROVE  Honest'
<1>1. \A line \in log : line.client \in Clients /\ line.client # h.client
  BY DEF IInv, TypeOK, Lines, Honest
<1>2. \A line \in log : Heard(line)'
  BY <1>1 DEF Honest, Heard
<1>3. \A line \in log : got'[line.client] # "none"
  BY <1>1 DEF Honest
<1> QED  BY <1>1, <1>2, <1>3 DEF Honest

\* What a connection is sent, and where it stands.
LEMMA Sends ==
  ASSUME IInv, h.at # "idle", NEW status \in {"denied", "error", "ok", "whole"},
         \/ Send(status) \/ got' = got \/ got' = [got EXCEPT ![h.client] = status]
  PROVE  /\ \A c \in Clients : c # h.client => got'[c] = got[c]
         /\ got'[h.client] # "none" /\ h.client \in Clients
         /\ got' = [got EXCEPT ![h.client] = status] => got'[h.client] = status
  BY DEF IInv, TypeOK, Whereabouts, Timely, Send

LEMMA Marks ==
  ASSUME IInv, NEW due, NEW reply, Record(due, reply)
  PROVE  h'.at = "record" /\ h'.due = due /\ h'.reply = reply /\ h'.client = h.client
  BY DEF IInv, TypeOK, Handlers, Record

LEMMA CarriesFailure ==
  ASSUME IInv, Honest, h.at \notin {"idle", "record"}, log' = log,
         \A c \in Clients : c # h.client => pulls'[c] = pulls[c],
         \/ Fail
         \/ FailStream /\ (Send("ok") \/ got' = got)
         \/ Escape /\ got' = got
  PROVE  Honest'
<1>1. CASE Fail \/ (FailStream /\ (Send("ok") \/ got' = got))
  <2>1. \E reply : Record(Say("error"), reply)
    BY <1>1 DEF Fail, FailStream
  <2>2. h'.at = "record" /\ h'.due = Say("error") /\ h'.client = h.client
    BY <2>1, Marks
  <2>3. \A line \in h'.due : line.status = "error"
    BY <2>2 DEF Say, Line
  <2>4. \A line \in h'.due : Heard(line)'
    BY <2>3 DEF Heard
  <2>5. PICK status \in {"error", "ok"} : Send(status) \/ got' = got
    BY <1>1 DEF Fail
  <2>6. (\A c \in Clients : c # h.client => got'[c] = got[c]) /\ got'[h.client] # "none"
    BY <2>5, Sends
  <2> QED  BY <2>2, <2>3, <2>4, <2>6, Carries
<1>2. CASE Escape /\ got' = got
  <2>1. h'.at = "idle"
    BY <1>2 DEF Escape, Idle
  <2>2. (\A c \in Clients : c # h.client => got'[c] = got[c]) /\ got'[h.client] # "none"
    BY <1>2, Sends
  <2> QED  BY <2>1, <2>2, Carries
<1> QED  BY <1>1, <1>2

LEMMA HonestRead ==
  ASSUME IInv, Honest,
         \/ Refuse
         \/ \E op \in Operations, genuine \in BOOLEAN, nonce \in Nonces : Request(op, genuine, nonce)
  PROVE  Honest'
<1>1. h.at = "read" /\ log' = log /\ pulls' = pulls /\ h \in Handlers
  BY DEF Refuse, Request, Deny, Grant, GrantThenRaise, At, github, IInv, TypeOK
<1>2. CASE Refuse
  <2>1. h'.at = "idle" /\ Send("denied")
    BY <1>2 DEF Refuse, Return, Idle
  <2>2. (\A c \in Clients : c # h.client => got'[c] = got[c]) /\ got'[h.client] # "none"
    BY <1>1, <2>1, Sends
  <2> QED  BY <1>1, <2>1, <2>2, Carries
<1>3. ASSUME NEW op \in Operations, NEW genuine \in BOOLEAN, NEW nonce \in Nonces, Deny(op, genuine, nonce)
      PROVE  Honest'
  <2>1. Send("denied") /\ (Return \/ h' = [h EXCEPT !.op = op, !.at = "record", !.due = Say("denied")])
    BY <1>3 DEF Deny
  <2>2. (\A c \in Clients : c # h.client => got'[c] = got[c]) /\ got'[h.client] # "none"
    BY <1>1, <2>1, Sends
  <2>3. CASE Return
    <3>1. h'.at = "idle"
      BY <2>3 DEF Return, Idle
    <3> QED  BY <1>1, <2>2, <3>1, Carries
  <2>4. CASE h' = [h EXCEPT !.op = op, !.at = "record", !.due = Say("denied")]
    <3>1. h'.at = "record" /\ h'.due = Say("denied") /\ h'.client = h.client
      BY <1>1, <2>4 DEF Handlers
    <3>2. \A line \in h'.due : line.status = "denied"
      BY <3>1 DEF Say, Line
    <3>3. \A line \in h'.due : Heard(line)'
      BY <3>2 DEF Heard
    <3> QED  BY <1>1, <2>2, <3>1, <3>2, <3>3, Carries
  <2> QED  BY <2>1, <2>3, <2>4
<1>4. ASSUME NEW op \in Operations, NEW genuine \in BOOLEAN, NEW nonce \in Nonces, Grant(op, genuine, nonce)
      PROVE  Honest'
  <2>1. got' = got /\ h'.at = "token" /\ h'.client = h.client
    BY <1>1, <1>4 DEF Grant, Handlers
  <2>2. got'[h.client] # "none"
    BY <1>1, <2>1, Sends
  <2> QED  BY <1>1, <2>1, <2>2, Carries
<1>5. ASSUME NEW op \in Operations, NEW genuine \in BOOLEAN, NEW nonce \in Nonces,
             GrantThenRaise(op, genuine, nonce)
      PROVE  Honest'
  BY <1>1, <1>5, CarriesFailure DEF GrantThenRaise
<1> QED  BY <1>2, <1>3, <1>4, <1>5 DEF Request

LEMMA HonestCall == ASSUME IInv, Honest, Call PROVE Honest'
<1>1. h.at \in {"token", "send"} /\ log' = log /\ h \in Handlers
  BY DEF Call, GetToken, GetTokenFails, Unauthorized, Answered, CallFails, CallRaises, At, IInv, TypeOK
<1>2. \A c \in Clients : c # h.client => pulls'[c] = pulls[c]
  <2>1. CASE UNCHANGED github
    BY <2>1 DEF github
  <2>2. CASE At("send") /\ Perform
    BY <2>2, LostEffect DEF Effect
  <2> QED  BY <2>1, <2>2 DEF Call, GetToken, GetTokenFails, Unauthorized, Answered, CallFails, CallRaises, Lost
<1>3. CASE GetToken \/ Unauthorized \/ Answered
  <2>1. got' = got
    BY <1>3 DEF GetToken, Unauthorized, Answered
  <2>2. h'.at \in {"token", "send", "answer", "deliver"} /\ h'.client = h.client
    BY <1>1, <1>3 DEF GetToken, Unauthorized, Answered, Handlers
  <2>3. got'[h.client] # "none"
    BY <1>1, <2>1, Sends
  <2> QED  BY <1>1, <1>2, <2>1, <2>2, <2>3, Carries
<1>4. CASE GetTokenFails \/ CallFails \/ CallRaises
  BY <1>1, <1>2, <1>4, CarriesFailure DEF GetTokenFails, CallFails, CallRaises
<1> QED  BY <1>3, <1>4 DEF Call

LEMMA HonestRespond == ASSUME IInv, Honest, Respond PROVE Honest'
<1>1. h.at \in {"answer", "await", "deliver"} /\ log' = log /\ pulls' = pulls /\ h \in Handlers
  BY DEF Respond, Answer, AnswerFails, TooLarge, Await, AwaitFails, AwaitPush, Deliver, DeliverFails,
     DeliverRaises, At, github, IInv, TypeOK
<1>2. CASE AnswerFails \/ TooLarge \/ AwaitFails \/ DeliverFails \/ DeliverRaises
  BY <1>1, <1>2, CarriesFailure DEF AnswerFails, TooLarge, AwaitFails, DeliverFails, DeliverRaises
<1>3. CASE Answer
  <2>1. CASE got' = [got EXCEPT ![h.client] = "ok"] /\ h' = [h EXCEPT !.at = "await"]
    <3>1. h'.at = "await" /\ h'.client = h.client
      BY <1>1, <2>1 DEF Handlers
    <3>2. (\A c \in Clients : c # h.client => got'[c] = got[c]) /\ got'[h.client] = "ok"
      BY <1>1, <2>1, Sends
    <3> QED  BY <1>1, <3>1, <3>2, Carries
  <2>2. CASE got' = [got EXCEPT ![h.client] = "whole"] /\ Record(Say("ok"), "none")
    <3>1. h'.at = "record" /\ h'.due = Say("ok") /\ h'.reply = "none" /\ h'.client = h.client
      BY <2>2, Marks
    <3>2. (\A c \in Clients : c # h.client => got'[c] = got[c]) /\ got'[h.client] = "whole"
      BY <1>1, <2>2, Sends
    <3>3. \A line \in h'.due : Heard(line)'
      BY <3>1, <3>2 DEF Heard, Say, Line
    <3> QED  BY <1>1, <3>1, <3>2, <3>3, Carries
  <2> QED  BY <1>3, <2>1, <2>2 DEF Answer
<1>4. CASE Await
  <2>1. got' = got /\ h.at = "await" /\ h.op = "git-upload-pack"
    BY <1>4 DEF Await, At
  <2>2. (\A c \in Clients : c # h.client => got'[c] = got[c]) /\ got'[h.client] # "none"
    BY <1>1, <2>1, Sends
  <2>3. CASE h' = [h EXCEPT !.at = "token", !.call = "rpc", !.tried = 0]
    <3>1. h'.at = "token" /\ h'.client = h.client
      BY <1>1, <2>3 DEF Handlers
    <3> QED  BY <1>1, <2>2, <3>1, Carries
  <2>4. CASE Record(Say("ok"), "none")
    <3>1. h'.at = "record" /\ h'.due = Say("ok") /\ h'.reply = "none" /\ h'.client = h.client
      BY <2>4, Marks
    <3>2. pulls'[h.client] = 0 /\ got'[h.client] \in {"ok", "whole"}
      BY <1>1, <2>1 DEF Honest, IInv, Timely
    <3>3. \A line \in h'.due : line.client = h.client /\ line.ref = NoRef
      BY <3>1 DEF Say, Line
    <3>4. \A line \in h'.due : Heard(line)'
      BY <3>2, <3>3 DEF Heard
    <3> QED  BY <1>1, <2>2, <3>1, <3>4, Carries
  <2> QED  BY <1>4, <2>3, <2>4 DEF Await
<1>5. ASSUME NEW push \in Pushes, AwaitPush(push) PROVE Honest'
  <2>1. got' = got
    BY <1>5 DEF AwaitPush
  <2>2. (\A c \in Clients : c # h.client => got'[c] = got[c]) /\ got'[h.client] # "none"
    BY <1>1, <2>1, Sends
  <2>3. CASE h' = [h EXCEPT !.at = "token", !.call = "rpc", !.push = push, !.tried = 0]
    <3>1. h'.at = "token" /\ h'.client = h.client
      BY <1>1, <2>3 DEF Handlers
    <3> QED  BY <1>1, <2>2, <3>1, Carries
  <2>4. CASE Record(Say("denied"), "none")
    <3>1. h'.at = "record" /\ h'.due = Say("denied") /\ h'.reply = "none" /\ h'.client = h.client
      BY <2>4, Marks
    <3>2. \A line \in h'.due : Heard(line)'
      BY <3>1 DEF Heard, Say, Line
    <3> QED  BY <1>1, <2>2, <3>1, <3>2, Carries
  <2> QED  BY <1>5, <2>3, <2>4 DEF AwaitPush
<1>6. CASE Deliver
  <2>1. got' = [got EXCEPT ![h.client] = "whole"]
    BY <1>6 DEF Deliver
  <2>2. (\A c \in Clients : c # h.client => got'[c] = got[c]) /\ got'[h.client] = "whole"
    BY <1>1, <2>1, Sends
  <2>3. CASE h' = [h EXCEPT !.at = "await"]
    <3>1. h'.at = "await" /\ h'.client = h.client
      BY <1>1, <2>3 DEF Handlers
    <3> QED  BY <1>1, <2>2, <3>1, Carries
  <2>4. CASE Record({Line(h.client, "ok", u.ref) : u \in h.push}, "none")
    <3>1. h'.at = "record" /\ h'.due = {Line(h.client, "ok", u.ref) : u \in h.push} /\ h'.reply = "none"
          /\ h'.client = h.client
      BY <2>4, Marks
    <3>2. \A line \in h'.due : line.client = h.client
      BY <3>1 DEF Line
    <3>3. \A line \in h'.due : Heard(line)'
      BY <2>2, <3>2 DEF Heard
    <3> QED  BY <1>1, <2>2, <3>1, <3>3, Carries
  <2> QED  BY <1>6, <2>3, <2>4 DEF Deliver
<1> QED  BY <1>2, <1>3, <1>4, <1>5, <1>6 DEF Respond

LEMMA HonestAudit == ASSUME IInv, Honest, Audit PROVE Honest'
<1>1. /\ h.at = "record" /\ pulls' = pulls /\ h \in Handlers /\ h.client \in Clients
      /\ \A line \in h.due : line.client = h.client
      /\ \A line \in log : line.client \in Clients
  BY DEF Audit, Append, AppendFails, At, github, IInv, TypeOK, Whereabouts, Owed, Lines
<1>2. CASE AppendFails
  <2>1. h'.at = "idle" /\ log' = log /\ got' = got
    BY <1>2 DEF AppendFails, Return, Escape, Idle
  <2> QED  BY <1>1, <2>1 DEF Honest, Heard
<1>3. ASSUME NEW line \in h.due, Append(line) PROVE Honest'
  <2>1. log' = log \cup {line} /\ got[h.client] # "none"
    BY <1>1, <1>3 DEF Append, IInv, Timely
  <2>2. CASE got' = got /\ h'.at \in {"idle", "record"}
             /\ (h'.at = "record" => h'.client = h.client /\ h'.due \subseteq h.due /\ h'.reply = h.reply)
    <3>1. \A l \in log' : Heard(l)' /\ got'[l.client] # "none"
      BY <1>1, <2>1, <2>2 DEF Honest, Heard
    <3>2. h'.at = "record" => \A l \in h'.due : Heard(l)'
      BY <1>1, <2>2 DEF Honest, Heard
    <3>3. h'.at = "record" /\ h'.reply = "error" =>
            \A l \in log' \cup h'.due : l.client = h'.client => l.status # "ok"
      BY <1>1, <2>1, <2>2 DEF Honest
    <3> QED  BY <2>2, <3>1, <3>2, <3>3 DEF Honest
  <2>3. CASE h'.at = "idle" /\ h.reply = "error" /\ Send("error")
    <3>1. (\A c \in Clients : c # h.client => got'[c] = got[c]) /\ got'[h.client] # "none"
      BY <1>1, <2>3, Sends
    <3>2. \A l \in log' : l.client = h.client => l.status # "ok"
      BY <1>1, <2>1, <2>3 DEF Honest
    <3>3. \A l \in log' : l.client # h.client => Heard(l)' /\ got'[l.client] # "none"
      BY <1>1, <2>1, <3>1 DEF Honest, Heard
    <3>4. \A l \in log' : Heard(l)' /\ got'[l.client] # "none"
      BY <3>1, <3>2, <3>3 DEF Heard
    <3> QED  BY <2>3, <3>4 DEF Honest
  <2>4. CASE h.due = {line} /\ Return
    <3>1. h'.at = "idle"
      BY <2>4 DEF Return, Idle
    <3>2. h.reply \in {"none", "error"}
      BY <1>1 DEF Handlers
    <3> QED  BY <1>3, <2>2, <2>3, <2>4, <3>1, <3>2 DEF Append
  <2>5. CASE h.due # {line}
    <3>1. h' = [h EXCEPT !.due = @ \ {line}] /\ got' = got
      BY <1>3, <2>5 DEF Append
    <3>2. h'.at = "record" /\ h'.client = h.client /\ h'.due \subseteq h.due /\ h'.reply = h.reply
      BY <1>1, <3>1 DEF Handlers
    <3> QED  BY <2>2, <3>1, <3>2
  <2> QED  BY <1>3, <2>4, <2>5 DEF Append
<1> QED  BY <1>2, <1>3 DEF Audit

LEMMA HonestStep == ASSUME IInv, Honest, [Next]_vars PROVE Honest'
<1>1. CASE UNCHANGED <<h, log, got, pulls>>
  BY <1>1 DEF Honest, Heard
<1>2. ASSUME NEW c \in Clients, Accept(c) PROVE Honest'
  <2>1. /\ h.at = "idle" /\ got[c] = "none" /\ log' = log /\ pulls' = pulls
        /\ got' = [got EXCEPT ![c] = "waiting"] /\ h'.at = "read" /\ h'.client = c
    BY <1>2 DEF Accept, At, github, Idle
  <2>2. \A line \in log : line.client # c /\ got'[line.client] = got[line.client]
    BY <2>1 DEF Honest, IInv, TypeOK
  <2>3. \A line \in log' : Heard(line)' /\ got'[line.client] # "none"
    BY <2>1, <2>2 DEF Honest, Heard
  <2> QED  BY <2>1, <2>2, <2>3 DEF Honest
<1>3. CASE SeesStop \/ World \/ UNCHANGED vars
  <2>1. UNCHANGED <<h, log, got, pulls>>
    BY <1>3 DEF SeesStop, World, AskToStop, Unlisten, Revoke, Spoil, OthersWrite, vars, github
  <2> QED  BY <1>1, <2>1
<1> QED  BY <1>2, <1>3, HonestRead, HonestCall, HonestRespond, HonestAudit DEF Next

\* An audit line that says ok belongs to a client that was sent a complete answer, whatever
\* connections, calls and streams break off (BrokerSession.audit).
THEOREM OksWereDelivered == Spec => []OkWasDelivered
<1>1. Init => Honest
  BY DEF Init, Honest, Idle
<1>2. IInv /\ Honest /\ [Next]_vars => Honest'
  BY HonestStep
<1>3. Honest => OkWasDelivered
  BY DEF Honest, Heard, OkWasDelivered
<1> QED  BY <1>1, <1>2, <1>3, Inductive, PTL DEF Spec

-----------------------------------------------------------------------------
(* The broker as a guarded repository (GuardedRepository): what a client    *)
(* has heard at each program point, that it has no effect before the last  *)
(* of its calls, and that its lines agree (Standing).                      *)

Unsaid(c) == \A line \in log : line.client # c

Standing ==
  /\ h.at = "read" => h.reply = "none"
  /\ h.at = "answer" => h.call # "rpc"
  /\ h.at \in {"read", "token", "send", "answer"} /\ h.call # "rpc" => got[h.client] = "waiting"
  /\ (h.at \in {"token", "send", "deliver"} /\ h.call = "rpc") \/ h.at = "await" =>
       got[h.client] = "ok" \/ (got[h.client] = "whole" /\ h.op = "git-upload-pack")
  /\ h.at \in {"read", "token", "send"} => Untouched(h.client)
  /\ h.at = "record" =>
       /\ h.reply = "error" => got[h.client] = "waiting"
       /\ \A l, m \in h.due \cup {line \in log : line.client = h.client} : l.status = m.status
       /\ \A line \in h.due : line.ref # NoRef => line.status = "ok"
       /\ h.op = "git-receive-pack" => \A line \in h.due : line.status = "ok" => line.ref # NoRef

RepositoryInv == IInv /\ Honest /\ Standing

\* What is done for a connection, part by part.
Acts(c) == Repository!Act(c) \/ UNCHANGED <<refs, pulls, landed>>
Tells(c) == Repository!Tell(c) \/ UNCHANGED got
Writes(c) == Repository!Write(c) \/ UNCHANGED log
Lets(c) == Repository!LetGo(c) \/ (h'.client = c /\ serving' = serving)
Serves(c) == Acts(c) /\ Tells(c) /\ Writes(c) /\ Lets(c) /\ stop' = stop

LEMMA Serving ==
  ASSUME NEW c \in Clients, h.client = c, Serves(c)
  PROVE  Repository!Serve(c)
BY NullsAssumption DEF Serves, Acts, Tells, Writes, Lets, Repository!Serve

LEMMA Unlined ==
  ASSUME NEW c \in Clients, h.client = c, IInv, Honest, h.at \notin {"idle", "record"}
  PROVE  Unsaid(h.client) /\ Repository!Of(c) = {}
BY DEF Honest, Unsaid, Repository!Of

LEMMA ActedIsTouched ==
  ASSUME IInv, NEW c \in Clients
  PROVE  Repository!Acted(c) <=> ~Untouched(c)
<1>1. pulls[c] > 0 <=> pulls[c] # 0
  BY DEF IInv, TypeOK
<1> QED  BY <1>1, Zenon DEF Repository!Acted, Untouched

\* A call that GitHub carried out or not.
LEMMA Acting ==
  ASSUME NEW c \in Clients, h.client = c, RepositoryInv, At("send"), Perform \/ UNCHANGED github
  PROVE  Acts(c)
<1> USE DEF RepositoryInv
<1>1. /\ h.client \in Clients /\ Untouched(h.client) /\ h.at = "send" /\ h.at \notin {"idle", "record"}
      /\ refs \in [Refs -> Values] /\ h.push \in SUBSET Commands
  BY DEF At, IInv, TypeOK, Handlers, Whereabouts, Standing
<1>2. Repository!Of(c) = {} /\ ~Repository!Acted(c)
  BY <1>1, Unlined, ActedIsTouched
<1>3. CASE h.op = "git-receive-pack" /\ h.call = "rpc" /\ Perform
  <2>1. got[h.client] = "ok"
    BY <1>1, <1>3 DEF Standing
  <2>0. PICK push \in Carried(h.push) :
          /\ refs' = Applied(push) /\ UNCHANGED pulls
          /\ landed' = landed \cup {<<h.client, r>> : r \in {q \in Refs : Applied(push)[q] # refs[q]}}
    BY <1>3 DEF Perform
  <2> DEFINE new == {r \in Refs : Applied(push)[r] # refs[r]}
             oids == [r \in new |-> Applied(push)[r]]
  <2>2. refs' = Applied(push) /\ landed' = landed \cup {<<h.client, r>> : r \in new} /\ UNCHANGED pulls
    BY <2>0
  <2>3. Effect
    BY <1>3, LostEffect
  <2>4. /\ \A r \in new : r \in WorkRefs /\ refs[r] = Zero /\ refs'[r] \in Oids
        /\ refs' \in [Refs -> Values]
    BY <2>2, <2>3 DEF Effect, Values
  <2>5. new \in SUBSET WorkRefs /\ oids \in [new -> Oids]
    BY <2>2, <2>4
  <2>6. refs' = [r \in Refs |-> IF r \in new THEN oids[r] ELSE refs[r]]
    BY <2>2, <2>4
  <2>7. landed' = landed \cup ({h.client} \X new)
    BY <2>2
  <2>8. Repository!CreateRefs(c)
    BY <2>2, <2>4, <2>5, <2>6, <2>7 DEF Repository!CreateRefs
  <2> QED  BY <1>2, <2>1, <2>8 DEF Acts, Repository!Act
<1>4. CASE h.op = "pr-create" /\ Perform
  <2>1. got[h.client] = "waiting" /\ h.op # "git-receive-pack"
    BY <1>1, <1>4 DEF Standing, IInv, Whereabouts
  <2>2. Repository!CreatePull(c)
    BY <1>4, <2>1 DEF Perform, Repository!CreatePull
  <2> QED  BY <1>2, <2>1, <2>2 DEF Acts, Repository!Act
<1>5. CASE UNCHANGED github
  BY <1>5 DEF github, Acts
<1> QED  BY <1>3, <1>4, <1>5 DEF Perform

\* A message to the client that may not reach it.
LEMMA Telling ==
  ASSUME NEW c \in Clients, h.client = c, IInv, Honest, h.at # "idle", NEW status \in {"denied", "error", "ok", "whole"},
         \/ Send(status) \/ got' = [got EXCEPT ![h.client] = status],
         status # "whole" => got[h.client] = "waiting",
         status = "whole" => got[h.client] \in {"waiting", "ok", "whole"},
         status # "error" => h.at # "record",
         status = "denied" => Untouched(h.client) /\ UNCHANGED github
  PROVE  Tells(c)
<1>1. CASE got' = got
  BY <1>1 DEF Tells
<1>2. CASE got' = [got EXCEPT ![h.client] = status]
  <2>1. status # "error" => Repository!Of(c) = {}
    BY Unlined
  <2>2. status = "denied" => ~Repository!Acted(c)'
    BY ActedIsTouched DEF Repository!Acted, github, IInv, Whereabouts
  <2> QED  BY <1>2, <2>1, <2>2 DEF Tells, Repository!Tell
<1> QED  BY <1>1, <1>2 DEF Send

\* A connection comes to its lines.
LEMMA ComesToRecord ==
  ASSUME NEW c \in Clients, h.client = c, IInv, Honest, h.at \notin {"idle", "record"}, log' = log,
         NEW due, NEW reply, Record(due, reply),
         reply = "error" => got'[h.client] = "waiting",
         \A l, m \in due : l.status = m.status,
         \A line \in due : line.ref # NoRef => line.status = "ok",
         h.op = "git-receive-pack" => \A line \in due : line.status = "ok" => line.ref # NoRef
  PROVE  Standing' /\ h'.client = h.client
<1>1. h'.at = "record" /\ h'.due = due /\ h'.reply = reply /\ h'.client = h.client
  BY Marks
<1>2. Unsaid(h.client)
  BY Unlined
<1>3. h'.op = h.op
  BY DEF Record, IInv, TypeOK, Handlers
<1> QED  BY <1>1, <1>2, <1>3 DEF Standing, Unsaid

LEMMA SaysOne ==
  ASSUME NEW status
  PROVE  /\ \A l, m \in Say(status) : l.status = m.status
         /\ \A line \in Say(status) : line.ref = NoRef /\ line.status = status /\ line.client = h.client
BY DEF Say, Line

LEMMA FailServes ==
  ASSUME NEW c \in Clients, h.client = c, RepositoryInv, h.at \in {"token", "send", "answer"}, Fail, log' = log, Acts(c)
  PROVE  Serves(c) /\ Standing'
<1> USE DEF RepositoryInv
<1>1. /\ stop' = stop /\ serving' = serving /\ h.client \in Clients
      /\ got \in [Clients -> {"none", "waiting", "denied", "error", "ok", "whole"}]
  BY DEF Fail, session, IInv, Whereabouts, TypeOK
<1>2. CASE Rest
  <2>1. Send("error") /\ Record(Say("error"), "none") /\ h.call # "rpc" /\ got[h.client] = "waiting"
    BY <1>2 DEF Fail, Rest, Git, IInv, Whereabouts, Standing
  <2>2. Tells(c)
    BY <2>1, Telling
  <2>3. Standing' /\ h'.client = h.client
    BY <2>1, SaysOne, ComesToRecord
  <2> QED  BY <1>1, <2>2, <2>3 DEF Serves, Writes, Lets
<1>3. CASE ~Rest
  <2>1. PICK reply \in {"none", "error"} :
           Record(Say("error"), reply) /\ (reply = "error" => h.call = "discovery")
    BY <1>3 DEF Fail
  <2>2. got' = got
    BY <1>3 DEF Fail
  <2>3. reply = "error" => got'[h.client] = "waiting"
    BY <2>1, <2>2 DEF Standing
  <2>4. Standing' /\ h'.client = h.client
    BY <2>1, <2>3, SaysOne, ComesToRecord
  <2> QED  BY <1>1, <2>2, <2>4 DEF Serves, Writes, Lets, Tells
<1> QED  BY <1>2, <1>3

LEMMA StreamServes ==
  ASSUME NEW c \in Clients, h.client = c, RepositoryInv, h.at \in {"answer", "await", "deliver"}, FailStream, log' = log,
         UNCHANGED github, got' = got \/ (Send("ok") /\ h.at = "answer")
  PROVE  Serves(c) /\ Standing'
<1> USE DEF RepositoryInv
<1>1. /\ stop' = stop /\ serving' = serving /\ Record(Say("error"), "none")
  BY DEF FailStream, session
<1>2. Tells(c)
  <2>1. CASE Send("ok") /\ h.at = "answer"
    BY <2>1, Telling DEF Standing
  <2> QED  BY <2>1 DEF Tells
<1>3. Standing' /\ h'.client = h.client
  BY <1>1, SaysOne, ComesToRecord
<1> QED  BY <1>1, <1>2, <1>3 DEF Serves, Writes, Lets, Acts, github

LEMMA EscapeServes ==
  ASSUME NEW c \in Clients, h.client = c, RepositoryInv, h.at # "idle", Escape, log' = log, got' = got, stop' = stop, Acts(c)
  PROVE  Serves(c) /\ Standing'
<1>1. h'.at = "idle" /\ h'.client = NoClient /\ serving' = "failed"
  BY IdleFields DEF Escape
<1>2. Repository!LetGo(c)
  BY <1>1 DEF Repository!LetGo
<1> QED  BY <1>1, <1>2 DEF Serves, Tells, Writes, Lets, Standing

LEMMA ReturnServes ==
  ASSUME NEW c \in Clients, h.client = c, RepositoryInv, h.at # "idle", Return, stop' = stop, UNCHANGED github, Tells(c), Writes(c),
         Untouched(h.client)
           \/ \E line \in log' : line.client = h.client /\ line.status # "denied"
  PROVE  Serves(c) /\ Standing'
<1> USE DEF RepositoryInv
<1>1. h'.at = "idle" /\ h'.client = NoClient /\ serving' # "failed"
  BY IdleFields DEF Return
<1>2. serving # "failed" /\ h.client \in Clients
  BY DEF IInv, Whereabouts
<1>3. Repository!Acted(c)' => ~Untouched(h.client)
  BY <1>2, ActedIsTouched DEF Repository!Acted, github
<1>4. Repository!LetGo(c)
  BY <1>1, <1>2, <1>3 DEF Repository!LetGo
<1> QED  BY <1>1, <1>4 DEF Serves, Lets, Acts, Standing, github

\* A connection that goes on without being sent, or writing, anything.
LEMMA GoesOnServes ==
  ASSUME NEW c \in Clients, h.client = c, h'.client = c, UNCHANGED <<serving, stop, log, got>>, Acts(c)
  PROVE  Serves(c)
BY DEF Serves, Tells, Writes, Lets

LEMMA AcceptServes ==
  ASSUME RepositoryInv, NEW c \in Clients, Accept(c)
  PROVE  Repository!Begin(c) /\ Standing'
<1> USE DEF RepositoryInv
<1>1. /\ serving = "yes" /\ stop # "revoked" /\ got[c] = "none" /\ h.client = NoClient
      /\ h'.at = "read" /\ h'.client = c /\ h'.call = "none" /\ h'.reply = "none"
      /\ got' = [got EXCEPT ![c] = "waiting"]
      /\ UNCHANGED <<refs, pulls, landed, log, serving, stop>>
  BY IdleFields DEF Accept, At, Idle, IInv, Whereabouts, session, github
<1>2. Untouched(c) /\ got'[c] = "waiting"
  BY <1>1 DEF IInv, Timely, TypeOK
<1>3. Standing'
  BY <1>1, <1>2 DEF Standing, Untouched
<1> QED  BY <1>1, <1>3 DEF Repository!Begin

LEMMA ReadServes ==
  ASSUME RepositoryInv, NEW c \in Clients, h.client = c,
         \/ Refuse
         \/ \E op \in Operations, genuine \in BOOLEAN, nonce \in Nonces : Request(op, genuine, nonce)
  PROVE  Serves(c) /\ Standing'
<1> USE DEF RepositoryInv
<1>1. /\ h.at = "read" /\ UNCHANGED <<refs, pulls, landed>> /\ log' = log /\ stop' = stop /\ h \in Handlers
      /\ UNCHANGED github
  BY DEF Refuse, Request, Deny, Grant, GrantThenRaise, At, github, IInv, TypeOK
<1>2. got[c] = "waiting" /\ Untouched(c) /\ h.call = "none" /\ h.op = "none"
  BY <1>1 DEF Standing, IInv, Whereabouts
<1>3. Send("denied") => Tells(c)
  BY <1>1, <1>2, Telling
<1>4. CASE Refuse
  BY <1>1, <1>2, <1>3, <1>4, ReturnServes DEF Refuse, Writes
<1>5. ASSUME NEW op \in Operations, NEW genuine \in BOOLEAN, NEW nonce \in Nonces, Deny(op, genuine, nonce)
      PROVE  Serves(c) /\ Standing'
  <2>1. CASE Return
    BY <1>1, <1>2, <1>3, <1>5, <2>1, ReturnServes DEF Deny, Writes
  <2>2. CASE h' = [h EXCEPT !.op = op, !.at = "record", !.due = Say("denied")] /\ UNCHANGED serving
    <3>1. /\ h'.at = "record" /\ h'.due = Say("denied") /\ h'.client = c /\ h'.reply = "none"
      BY <1>1, <2>2 DEF Handlers, Standing
    <3>2. Unsaid(c)
      BY <1>1, Unlined
    <3>3. Standing'
      BY <1>1, <3>1, <3>2, SaysOne DEF Standing, Unsaid
    <3> QED  BY <1>1, <1>3, <1>5, <2>2, <3>1, <3>3 DEF Serves, Deny, Acts, Writes, Lets
  <2> QED  BY <1>5, <2>1, <2>2 DEF Deny
<1>6. ASSUME NEW op \in Operations, NEW genuine \in BOOLEAN, NEW nonce \in Nonces, Grant(op, genuine, nonce)
      PROVE  Serves(c) /\ Standing'
  <2>1. /\ h'.at = "token" /\ h'.client = c /\ h'.op = op /\ h'.call \in {"discovery", "rest"}
        /\ UNCHANGED <<serving, got>>
    BY <1>1, <1>6 DEF Grant, Handlers
  <2>2. Standing'
    BY <1>1, <1>2, <2>1 DEF Standing, Untouched
  <2>3. Acts(c)
    BY <1>1 DEF Acts
  <2> QED  BY <1>1, <2>1, <2>2, <2>3, GoesOnServes
<1>7. ASSUME NEW op \in Operations, NEW genuine \in BOOLEAN, NEW nonce \in Nonces,
             GrantThenRaise(op, genuine, nonce)
      PROVE  Serves(c) /\ Standing'
  BY <1>1, <1>7, EscapeServes DEF GrantThenRaise, Acts
<1> QED  BY <1>4, <1>5, <1>6, <1>7 DEF Request

LEMMA CallServes ==
  ASSUME RepositoryInv, NEW c \in Clients, h.client = c, Call
  PROVE  Serves(c) /\ Standing'
<1> USE DEF RepositoryInv
<1>1. h.at \in {"token", "send"} /\ log' = log /\ stop' = stop /\ h \in Handlers
  BY DEF Call, GetToken, GetTokenFails, Unauthorized, Answered, CallFails, CallRaises, At, IInv,
         TypeOK, session, Fail
<1>2. CASE GetToken \/ Unauthorized
  <2>1. /\ h'.at \in {"token", "send"} /\ h'.client = c /\ h'.op = h.op /\ h'.call = h.call
        /\ UNCHANGED <<serving, got, pulls, landed, refs>>
    BY <1>1, <1>2 DEF GetToken, Unauthorized, Handlers, session, github
  <2>2. Standing'
    BY <1>1, <2>1 DEF Standing, Untouched
  <2>3. Acts(c)
    BY <2>1 DEF Acts
  <2> QED  BY <1>1, <2>1, <2>2, <2>3, GoesOnServes
<1>3. CASE Answered
  <2>1. Acts(c)
    BY <1>3, Acting DEF Answered
  <2>2. /\ h'.client = c /\ h'.op = h.op /\ h'.call = h.call /\ UNCHANGED <<serving, got>>
        /\ \/ h.call = "rpc" /\ h'.at = "deliver"
           \/ h.call = "rest" /\ h'.at = "token" /\ h.left > 1
           \/ h.call \in {"discovery", "rest"} /\ h'.at = "answer"
    BY <1>1, <1>3 DEF Answered, Handlers, session
  <2>3. h'.at = "token" => Untouched(c)'
    <3>1. CASE h.call = "rest" /\ h.left > 1
      <4>1. h.op # "pr-create" /\ h.op # "git-receive-pack" /\ At("send") /\ Perform
        BY <1>1, <1>3, <3>1 DEF IInv, Whereabouts, Answered
      <4>2. UNCHANGED <<pulls, landed>>
        BY <4>1 DEF Perform, github
      <4> QED  BY <1>1, <4>2 DEF Standing, Untouched
    <3> QED  BY <2>2, <3>1
  <2>4. Standing'
    BY <1>1, <2>2, <2>3 DEF Standing
  <2> QED  BY <1>1, <2>1, <2>2, <2>4, GoesOnServes
<1>4. CASE GetTokenFails
  BY <1>1, <1>4, FailServes DEF GetTokenFails, Acts, github
<1>5. CASE CallFails
  <2>1. Acts(c)
    BY <1>5, Acting DEF CallFails, Lost
  <2> QED  BY <1>1, <1>5, <2>1, FailServes DEF CallFails
<1>6. CASE CallRaises
  <2>1. Acts(c)
    BY <1>6, Acting DEF CallRaises, Lost
  <2> QED  BY <1>1, <1>6, <2>1, EscapeServes DEF CallRaises
<1> QED  BY <1>2, <1>3, <1>4, <1>5, <1>6 DEF Call

LEMMA RespondServes ==
  ASSUME RepositoryInv, NEW c \in Clients, h.client = c, Respond
  PROVE  Serves(c) /\ Standing'
<1> USE DEF RepositoryInv
<1>1. /\ h.at \in {"answer", "await", "deliver"} /\ log' = log /\ h \in Handlers /\ UNCHANGED github
      /\ stop' = stop
      /\ got \in [Clients -> {"none", "waiting", "denied", "error", "ok", "whole"}]
  BY DEF Respond, Answer, AnswerFails, TooLarge, Await, AwaitFails, AwaitPush, Deliver, DeliverFails,
     DeliverRaises, At, github, IInv, TypeOK, session, Fail, FailStream
<1>2. Acts(c) /\ Writes(c)
  BY <1>1 DEF Acts, Writes, github
<1>3. CASE AnswerFails \/ AwaitFails \/ DeliverFails
  BY <1>1, <1>3, StreamServes DEF AnswerFails, AwaitFails, DeliverFails, At
<1>4. CASE TooLarge
  BY <1>1, <1>2, <1>4, FailServes, EscapeServes DEF TooLarge, At
<1>5. CASE DeliverRaises
  BY <1>1, <1>2, <1>5, EscapeServes DEF DeliverRaises
<1>6. CASE Answer
  <2>1. h.at = "answer" /\ got[c] = "waiting" /\ serving' = serving
    BY <1>6 DEF Answer, At, Standing, session
  <2>2. CASE ~Rest /\ got' = [got EXCEPT ![h.client] = "ok"] /\ h' = [h EXCEPT !.at = "await"]
    <3>1. h'.at = "await" /\ h'.client = c /\ got'[c] = "ok"
      BY <1>1, <2>2 DEF Handlers
    <3>2. Tells(c)
      BY <1>1, <2>1, <2>2, Telling
    <3> QED  BY <1>1, <1>2, <2>1, <3>1, <3>2 DEF Standing, Serves, Lets
  <2>3. CASE Rest /\ got' = [got EXCEPT ![h.client] = "whole"] /\ Record(Say("ok"), "none")
    <3>1. Tells(c)
      BY <1>1, <2>1, <2>3, Telling
    <3>2. Standing' /\ h'.client = c
      BY <1>1, <2>3, SaysOne, ComesToRecord DEF Rest, Git
    <3> QED  BY <1>1, <1>2, <2>1, <3>1, <3>2 DEF Serves, Lets
  <2> QED  BY <1>6, <2>2, <2>3 DEF Answer
<1>7. CASE Await
  <2>1. got' = got /\ h.at = "await" /\ h.op = "git-upload-pack" /\ serving' = serving
    BY <1>7 DEF Await, At, session
  <2>2. CASE h' = [h EXCEPT !.at = "token", !.call = "rpc", !.tried = 0]
    <3>1. h'.at = "token" /\ h'.client = c /\ h'.call = "rpc" /\ h'.op = h.op
      BY <1>1, <2>2 DEF Handlers
    <3>2. Untouched(c)
      BY <2>1 DEF IInv, Timely, Untouched
    <3>3. Standing'
      BY <1>1, <2>1, <3>1, <3>2 DEF Standing, Untouched, github
    <3> QED  BY <1>1, <1>2, <2>1, <3>1, <3>3, GoesOnServes
  <2>3. CASE Record(Say("ok"), "none")
    <3>1. Standing' /\ h'.client = c
      BY <1>1, <2>1, <2>3, SaysOne, ComesToRecord
    <3> QED  BY <1>1, <1>2, <2>1, <3>1, GoesOnServes
  <2> QED  BY <1>7, <2>2, <2>3 DEF Await
<1>8. ASSUME NEW push \in Pushes, AwaitPush(push) PROVE Serves(c) /\ Standing'
  <2>1. got' = got /\ h.at = "await" /\ h.op = "git-receive-pack" /\ serving' = serving
    BY <1>8 DEF AwaitPush, At, session
  <2>2. CASE h' = [h EXCEPT !.at = "token", !.call = "rpc", !.push = push, !.tried = 0]
    <3>1. h'.at = "token" /\ h'.client = c /\ h'.call = "rpc" /\ h'.op = h.op
      BY <1>1, <2>2 DEF Handlers
    <3>2. Untouched(c)
      BY <2>1 DEF IInv, Timely, Whereabouts, Untouched
    <3>3. Standing'
      BY <1>1, <2>1, <3>1, <3>2 DEF Standing, Untouched, github
    <3> QED  BY <1>1, <1>2, <2>1, <3>1, <3>3, GoesOnServes
  <2>3. CASE Record(Say("denied"), "none")
    <3>1. Standing' /\ h'.client = c
      BY <1>1, <2>1, <2>3, SaysOne, ComesToRecord
    <3> QED  BY <1>1, <1>2, <2>1, <3>1, GoesOnServes
  <2> QED  BY <1>8, <2>2, <2>3 DEF AwaitPush
<1>9. CASE Deliver
  <2>1. /\ h.at = "deliver" /\ h.call = "rpc" /\ got' = [got EXCEPT ![h.client] = "whole"]
        /\ got[c] \in {"ok", "whole"} /\ got'[c] = "whole" /\ serving' = serving
    BY <1>1, <1>9 DEF Deliver, At, session, IInv, Whereabouts, Standing
  <2>2. Tells(c)
    BY <1>1, <2>1, Telling
  <2>3. CASE h.op = "git-upload-pack" /\ h' = [h EXCEPT !.at = "await"]
    <3>1. h'.at = "await" /\ h'.client = c /\ h'.op = "git-upload-pack"
      BY <1>1, <2>3 DEF Handlers
    <3> QED  BY <1>1, <1>2, <2>1, <2>2, <3>1 DEF Standing, Serves, Lets
  <2>4. CASE Record({Line(h.client, "ok", u.ref) : u \in h.push}, "none")
    <3>1. \A l \in {Line(h.client, "ok", u.ref) : u \in h.push} : l.status = "ok" /\ l.ref # NoRef
      BY NullsAssumption DEF Line, IInv, TypeOK, Handlers, Commands
    <3>2. Standing' /\ h'.client = c
      BY <1>1, <2>1, <2>4, <3>1, ComesToRecord
    <3> QED  BY <1>1, <1>2, <2>1, <2>2, <3>2 DEF Serves, Lets
  <2> QED  BY <1>9, <2>3, <2>4 DEF Deliver
<1> QED  BY <1>3, <1>4, <1>5, <1>6, <1>7, <1>8, <1>9 DEF Respond

LEMMA AuditServes ==
  ASSUME RepositoryInv, NEW c \in Clients, h.client = c, Audit
  PROVE  Serves(c) /\ Standing'
<1> USE DEF RepositoryInv
<1>1. /\ h.at = "record" /\ h \in Handlers /\ UNCHANGED github /\ stop' = stop
      /\ \A line \in h.due : line \in Lines /\ line.client = c
  BY DEF Audit, Append, AppendFails, At, IInv, TypeOK, Handlers, Owed
<1>2. Acts(c)
  BY <1>1 DEF Acts, github
<1>3. CASE AppendFails
  <2>1. log' = log /\ got' = got
    BY <1>3 DEF AppendFails
  <2>2. CASE Escape
    BY <1>1, <1>2, <2>1, <2>2, EscapeServes
  <2>3. CASE Refusal /\ Return
    <3>1. \E line \in h.due : line.status = "denied"
      BY <1>1, <2>3, SaysOne DEF Refusal, IInv, Owed
    <3>2. Untouched(c)
      BY <1>1, <3>1 DEF IInv, Owed
    <3> QED  BY <1>1, <2>1, <2>3, <3>2, ReturnServes DEF Tells, Writes
  <2> QED  BY <1>3, <2>2, <2>3 DEF AppendFails
<1>4. ASSUME NEW line \in h.due, Append(line) PROVE Serves(c) /\ Standing'
  <2>1. log' = log \cup {line} /\ stop # "revoked"
    BY <1>4 DEF Append
  <2>2. Writes(c)
    <3>1. line = [client |-> c, status |-> line.status, ref |-> line.ref]
          /\ line.status \in {"ok", "denied", "error"} /\ line.ref \in Refs \cup {NoRef}
      BY <1>1 DEF Lines
    <3>2. \A l \in Repository!Of(c) : l.status = line.status
      BY <1>1 DEF Repository!Of, Standing
    <3>3. line.status = "denied" => ~Repository!Acted(c)'
      BY <1>1, ActedIsTouched DEF IInv, Owed, Repository!Acted, github
    <3>4. line.status = "ok" => got[c] = "whole" \/ (got[c] = "ok" /\ line.ref = NoRef /\ ~Repository!Acted(c)')
      <4>1. SUFFICES ASSUME line.status = "ok", got[c] = "ok", line.ref = NoRef, pulls[c] = 0
                     PROVE  ~Repository!Acted(c)'
        BY <1>1 DEF Honest, Heard
      <4>2. h.op # "git-receive-pack"
        BY <1>1, <4>1 DEF Standing
      <4>3. Untouched(c)
        BY <1>1, <4>1, <4>2 DEF IInv, Timely, Untouched
      <4> QED  BY <1>1, <4>3, ActedIsTouched DEF IInv, Repository!Acted, github
    <3>5. line.ref # NoRef => line.status = "ok"
      BY <1>1 DEF Standing
    <3> QED  BY <2>1, <3>1, <3>2, <3>3, <3>4, <3>5 DEF Writes, Repository!Write
  <2>3. CASE h.due = {line}
    <3>1. Return /\ (got' = got \/ (h.reply = "error" /\ Send("error")))
      BY <1>1, <1>4, <2>3 DEF Append, Handlers
    <3>2. Tells(c)
      BY <1>1, <3>1, Telling DEF Standing, Tells
    <3>3. Untouched(c) \/ \E l \in log' : l.client = h.client /\ l.status # "denied"
      BY <1>1, <2>1 DEF IInv, Owed
    <3> QED  BY <1>1, <2>2, <3>1, <3>2, <3>3, ReturnServes
  <2>4. CASE h.due # {line}
    <3>1. /\ h' = [h EXCEPT !.due = @ \ {line}] /\ got' = got /\ serving' = serving
      BY <1>4, <2>4 DEF Append
    <3>2. h'.at = "record" /\ h'.client = c /\ h'.due \subseteq h.due /\ h'.reply = h.reply
          /\ h'.op = h.op
      BY <1>1, <3>1 DEF Handlers
    <3>3. Standing'
      BY <1>1, <2>1, <3>1, <3>2 DEF Standing
    <3> QED  BY <1>1, <1>2, <2>2, <3>1, <3>2, <3>3 DEF Serves, Tells, Lets
  <2> QED  BY <2>3, <2>4
<1> QED  BY <1>3, <1>4 DEF Audit

LEMMA OutsideServes ==
  ASSUME RepositoryInv, SeesStop \/ World \/ UNCHANGED vars
  PROVE  (Repository!Next \/ UNCHANGED Repository!vars) /\ Standing'
<1>1. UNCHANGED <<h, log, got, pulls, landed>>
  BY DEF SeesStop, World, AskToStop, Unlisten, Revoke, Spoil, OthersWrite, vars, github
<1>2. (serving' # "failed") = (serving # "failed")
  BY DEF SeesStop, World, AskToStop, Unlisten, Revoke, Spoil, OthersWrite, vars, session
<1>3. Standing'
  BY <1>1 DEF RepositoryInv, Standing, Untouched
<1>4. CASE Revoke
  <2>1. stop' = "revoked" /\ refs' = refs
    BY <1>4 DEF Revoke, github
  <2>2. Repository!Revoke
    BY <1>1, <1>2, <2>1 DEF Repository!Revoke
  <2> QED  BY <1>3, <2>2 DEF Repository!Next
<1>5. ASSUME NEW r \in Refs, NEW v \in Values, OthersWrite(r, v)
      PROVE  Repository!Next
  <2>1. refs' \in [Refs -> Repository!Values] /\ stop' = stop
    BY <1>5 DEF OthersWrite, RepositoryInv, IInv, TypeOK, Values, Repository!Values, session
  <2>2. Repository!Others
    BY <1>1, <1>2, <2>1 DEF Repository!Others
  <2> QED  BY <2>2 DEF Repository!Next
<1>6. CASE ~Revoke /\ ~\E r \in Refs, v \in Values : OthersWrite(r, v)
  <2>1. refs' = refs /\ (stop' = "revoked") = (stop = "revoked")
    BY <1>6 DEF SeesStop, World, AskToStop, Unlisten, Spoil, vars, github, session
  <2> QED  BY <1>1, <1>2, <1>3, <2>1 DEF Repository!vars
<1> QED  BY <1>3, <1>4, <1>5, <1>6

LEMMA RepositoryStep ==
  ASSUME RepositoryInv, [Next]_vars
  PROVE  (Repository!Next \/ UNCHANGED Repository!vars) /\ RepositoryInv'
<1>1. IInv' /\ Honest'
  BY StepInv, HonestStep DEF RepositoryInv
<1>2. ASSUME NEW c \in Clients, Accept(c) PROVE Repository!Next /\ Standing'
  BY <1>2, AcceptServes DEF Repository!Next
<1>3. CASE \/ Refuse \/ Call \/ Respond \/ Audit
           \/ \E op \in Operations, genuine \in BOOLEAN, nonce \in Nonces : Request(op, genuine, nonce)
  <2>1. h.at # "idle"
    BY <1>3 DEF Refuse, Call, GetToken, GetTokenFails, Unauthorized, Answered, CallFails, CallRaises,
       Respond, Answer, AnswerFails, TooLarge, Await, AwaitFails, AwaitPush, Deliver, DeliverFails,
       DeliverRaises, Audit, Append, AppendFails, Request, Deny, Grant, GrantThenRaise, At
  <2>2. PICK c \in Clients : h.client = c
    BY <2>1 DEF RepositoryInv, IInv, Whereabouts
  <2>3. Serves(c) /\ Standing'
    BY <1>3, <2>2, ReadServes, CallServes, RespondServes, AuditServes
  <2> QED  BY <1>1, <2>2, <2>3, Serving DEF Repository!Next, RepositoryInv
<1>4. CASE SeesStop \/ World \/ UNCHANGED vars
  BY <1>1, <1>4, OutsideServes DEF RepositoryInv
<1> QED  BY <1>1, <1>2, <1>3, <1>4 DEF Next, RepositoryInv

\* Whatever is lost, refused, repeated or broken off, and whenever the session is revoked, the
\* broker does no more to the repository for a connection than one thing, tells the
\* truth of it in the audit, and says nothing to the client that the audit contradicts.
THEOREM BrokerGuardsRepository == Spec => ImplementsRepository
<1>1. Init => RepositoryInv
  BY InitInv, IdleFields DEF Init, Honest, RepositoryInv, Standing, Idle
<1>2. Init => Repository!Init
  BY IdleFields DEF Init, Repository!Init, Values, Repository!Values
<1>3. RepositoryInv /\ [Next]_vars => RepositoryInv' /\ [Repository!Next]_(Repository!vars)
  BY RepositoryStep
<1> QED  BY <1>1, <1>2, <1>3, PTL DEF Spec, ImplementsRepository, Repository!Spec

=============================================================================
