----------------------------- MODULE GithubBroker -----------------------------
(***************************************************************************)
(* The GitHub broker: one session (github_broker.py), the handlers of its  *)
(* connections (github_broker_transport.py), the calls they make           *)
(* (github_git_transport.py, github_pr.py, github_issue.py) with the       *)
(* installation token they share (github_app.py), and the create-only gate *)
(* of a push (git_protocol.py).                                            *)
(*                                                                         *)
(* The serve thread handles one connection at a time.  Around it the       *)
(* owner stops the broker, GitHub withdraws tokens, other people write to  *)
(* the repository, and any read, write, call or audit append may fail.     *)
(* Of an audit line the operation, the stage and the byte count are left   *)
(* out; of a request, all but what decides its way through the code.       *)
(***************************************************************************)
EXTENDS Integers, FiniteSets

CONSTANTS
  Clients,    \* connections
  NoClient,
  Nonces,     \* request.sequence; a client draws it at random
  MaxNonces,  \* requests a session authorizes, 4096
  Refs,
  NoRef,
  WorkRefs,   \* what validate_push_ref accepts: branches that are not protected
  Oids,
  Zero,       \* the zero object id, and the value of a ref that does not exist
  Pushes,     \* the command sets a client may send
  MaxUpdates, \* MAX_REF_UPDATES
  MaxTokens   \* bound on the tokens GitHub issues

Values == Oids \cup {Zero}
Commands == [ref : Refs, old : Values, new : Values]

ASSUME RefsAssumption == WorkRefs \subseteq Refs /\ Zero \notin Oids
ASSUME NullsAssumption == NoClient \notin Clients /\ NoRef \notin Refs
ASSUME PushesAssumption == Pushes \subseteq SUBSET Commands
ASSUME BoundsAssumption == MaxNonces \in Nat /\ MaxUpdates \in Nat /\ MaxTokens \in Nat

Git == {"git-upload-pack", "git-receive-pack"}
Pulls == {"pr-create", "pr-view", "pr-checks"}
Issues == {"issue-list", "issue-view"}
Operations == Git \cup Pulls \cup Issues

VARIABLES
  serving,  \* the accept loop: "yes", "no" (it saw the stop event) or "failed"
  stop,     \* the owner: "no", "asked" (event set), "unlistened", then "revoked"
  h,        \* what the serve thread is handling
  seen,     \* _seen_sequences
  cache,    \* the cached token, 0 for none
  minted,   \* tokens issued so far: 1..minted
  spoiled,  \* those GitHub no longer accepts
  refs,     \* the refs of the repository on GitHub
  pulls,    \* history: [Clients -> Nat], pull requests each connection created
  landed,   \* history: which connection wrote which ref
  log,      \* the audit lines
  got       \* what each client was sent: a status, or "whole" for a complete answer

session == <<serving, stop, seen>>
tokens == <<cache, minted, spoiled>>
github == <<refs, pulls, landed>>
vars == <<session, h, tokens, github, log, got>>

NoOp == "none"

Lines == [client : Clients, status : {"ok", "denied", "error"}, ref : Refs \cup {NoRef}]
Line(c, status, ref) == [client |-> c, status |-> status, ref |-> ref]

Handlers ==
  [client : Clients \cup {NoClient}, op : Operations \cup {NoOp},
   at : {"idle", "read", "token", "send", "answer", "await", "deliver", "record"},
   call : {"none", "discovery", "rpc", "rest"},
   left : 0..2,             \* pr-checks asks GitHub twice
   token : 0..MaxTokens,
   tried : 0..MaxTokens,    \* the token this call was refused with
   adv : SUBSET Refs,       \* the advertised refs
   push : SUBSET Commands,
   due : SUBSET Lines,      \* audit lines still to be appended
   reply : {"none", "error"}]

Idle ==
  [client |-> NoClient, op |-> NoOp, at |-> "idle", call |-> "none", left |-> 0, token |-> 0,
   tried |-> 0, adv |-> {}, push |-> {}, due |-> {}, reply |-> "none"]

Init ==
  /\ serving = "yes" /\ stop = "no" /\ h = Idle
  /\ seen = {}
  /\ cache = 0 /\ minted = 0 /\ spoiled = {}
  /\ refs \in [Refs -> Values]
  /\ pulls = [c \in Clients |-> 0] /\ landed = {} /\ log = {}
  /\ got = [c \in Clients |-> "none"]

At(label) == h.at = label
Rest == h.op \notin Git

\* The handler returned: the accept loop looks at the stop event before it accepts again.
Return ==
  /\ h' = Idle
  /\ serving' = IF stop = "no" THEN "yes" ELSE "no"

\* An exception no handler catches ends the serve thread.
Escape == h' = Idle /\ serving' = "failed"

\* A response frame may not reach the client, and nobody looks whether it did.
Send(status) == \E arrived \in BOOLEAN : got' = IF arrived THEN [got EXCEPT ![h.client] = status] ELSE got

\* What is left to do is to append these lines and then to answer.
Record(due, reply) == h' = [h EXCEPT !.at = "record", !.due = due, !.reply = reply]
Say(status) == {Line(h.client, status, NoRef)}

\* BrokerStageError in a handler.  A Git handler audits, then answers if it had not answered
\* yet; the others answer first.
Fail ==
  /\ IF Rest
       THEN Send("error") /\ Record(Say("error"), "none")
       ELSE Record(Say("error"), IF h.call = "discovery" THEN "error" ELSE "none") /\ UNCHANGED got
  /\ UNCHANGED session

\* The client's stream failed.
FailStream == Record(Say("error"), "none") /\ UNCHANGED session

-----------------------------------------------------------------------------
(* A connection is accepted, read and authorized                           *)

Accept(c) ==
  /\ serving = "yes" /\ stop \in {"no", "asked"} /\ At("idle") /\ got[c] = "none"
  /\ h' = [Idle EXCEPT !.client = c, !.at = "read"]
  /\ got' = [got EXCEPT ![c] = "waiting"]
  /\ UNCHANGED <<session, tokens, github, log>>

\* accept times out, or fails on the closed listener, and the loop sees the stop event.
SeesStop ==
  /\ serving = "yes" /\ At("idle") /\ stop # "no"
  /\ serving' = "no"
  /\ UNCHANGED <<stop, seen, h, tokens, github, log, got>>

\* A peer of another user, no frame, a malformed one, or an operation nobody handles: nothing
\* is audited.
Refuse ==
  /\ At("read")
  /\ Send("denied") /\ Return
  /\ UNCHANGED <<stop, seen, tokens, github, log>>

\* BrokerSession.authorize: genuine stands for the version, the capability and the project.
\* The nonce of a request that is denied here remains unused.
Authorized(genuine, nonce) ==
  /\ stop # "revoked"
  /\ genuine
  /\ nonce \notin seen /\ Cardinality(seen) < MaxNonces

Deny(op, genuine, nonce) ==
  /\ At("read")
  /\ \/ ~Authorized(genuine, nonce) /\ UNCHANGED seen
     \/ Authorized(genuine, nonce) /\ seen' = seen \cup {nonce}  \* the payload is refused
  /\ Send("denied")
  /\ IF op \in Git
       THEN Return
       ELSE /\ h' = [h EXCEPT !.op = op, !.at = "record", !.due = Say("denied")]
            /\ UNCHANGED serving
  /\ UNCHANGED <<stop, tokens, github, log>>

Grant(op, genuine, nonce) ==
  /\ At("read")
  /\ Authorized(genuine, nonce)
  /\ seen' = seen \cup {nonce}
  /\ h' = [h EXCEPT !.op = op, !.at = "token",
                    !.call = IF op \in Git THEN "discovery" ELSE "rest",
                    !.left = IF op = "pr-checks" THEN 2 ELSE 1]
  /\ UNCHANGED <<serving, stop, tokens, github, log, got>>

\* The values of a pull request are looked at outside the handler's try: a base that is not
\* the default branch, a protected head, a number out of range raise ValueError through it.
GrantThenRaise(op, genuine, nonce) ==
  /\ At("read") /\ op \in Pulls
  /\ Authorized(genuine, nonce)
  /\ seen' = seen \cup {nonce}
  /\ Escape
  /\ UNCHANGED <<stop, tokens, github, log, got>>

-----------------------------------------------------------------------------
(* A call to GitHub: _open and _request, with at most one second attempt   *)

\* InstallationTokenProvider.get: a cached token is used unless its time is nearly up.
GetToken ==
  /\ At("token")
  /\ \/ /\ cache # 0
        /\ h' = [h EXCEPT !.at = "send", !.token = cache]
        /\ UNCHANGED <<cache, minted>>
     \/ /\ minted < MaxTokens
        /\ minted' = minted + 1 /\ cache' = minted + 1
        /\ h' = [h EXCEPT !.at = "send", !.token = minted + 1]
  /\ UNCHANGED <<session, spoiled, github, log, got>>

GetTokenFails ==
  /\ At("token")
  /\ Fail
  /\ UNCHANGED <<tokens, github, log>>

\* 401: the first time the token is dropped and the request is made again.
Unauthorized ==
  /\ At("send") /\ h.token \in spoiled /\ h.tried = 0
  /\ cache' = 0
  /\ h' = [h EXCEPT !.at = "token", !.tried = h.token]
  /\ UNCHANGED <<session, minted, spoiled, github, log, got>>

\* GitHub's side of a push: a command whose old value is the ref's value is carried out.
Applied(push) ==
  [r \in Refs |-> IF \E u \in push : u.ref = r /\ u.old = refs[r]
                    THEN (CHOOSE u \in push : u.ref = r /\ u.old = refs[r]).new
                    ELSE refs[r]]

\* Of an atomic push, GitHub carries out nothing once a single command has another old value.
Carried(push) ==
  {push} \cup IF \E u \in push : u.old # refs[u.ref] THEN {{}} ELSE {}

\* GitHub carries the request out.  The client may have asked for an atomic push.
Perform ==
  CASE h.op = "git-receive-pack" /\ h.call = "rpc" ->
         \E push \in Carried(h.push) :
           /\ refs' = Applied(push)
           /\ landed' = landed \cup {<<h.client, r>> : r \in {q \in Refs : Applied(push)[q] # refs[q]}}
           /\ UNCHANGED pulls
    [] h.op = "pr-create" ->
         pulls' = [pulls EXCEPT ![h.client] = @ + 1] /\ UNCHANGED <<refs, landed>>
    [] OTHER -> UNCHANGED github

\* parse_receive_pack_advertisement: every ref that exists is named with its object.
Advertised == {r \in Refs : refs[r] # Zero}

\* What the handler goes on with.  The advertisement is of this moment.
Answered ==
  /\ At("send") /\ h.token \notin spoiled
  /\ Perform
  /\ \/ /\ h.call = "discovery"
        /\ h' = [h EXCEPT !.at = "answer", !.tried = 0, !.adv = Advertised]
     \/ h.call = "rpc" /\ h' = [h EXCEPT !.at = "deliver"]
     \/ h.call = "rest" /\ h.left > 1 /\ h' = [h EXCEPT !.at = "token", !.left = @ - 1, !.tried = 0]
     \/ h.call = "rest" /\ h.left = 1 /\ h' = [h EXCEPT !.at = "answer"]
  /\ UNCHANGED <<session, tokens, log, got>>

\* The request or its answer is lost, or the answer is not what was expected; GitHub may have
\* carried the request out.  A second refusal of the token counts as such an answer, and so
\* does a failure to close the response of the first.
Lost == (h.token \notin spoiled /\ Perform) \/ UNCHANGED github

\* Mutant: whatever the failure, the request is made again once.
CallFails_Again ==
  /\ At("send")
  /\ Lost
  /\ IF h.tried = 0
       THEN cache' = 0 /\ h' = [h EXCEPT !.at = "token", !.tried = h.token] /\ UNCHANGED <<session, got>>
       ELSE Fail /\ UNCHANGED cache
  /\ UNCHANGED <<minted, spoiled, log>>

CallFails ==
  /\ At("send")
  /\ Lost
  /\ Fail
  /\ UNCHANGED <<tokens, log>>

\* http.client raises an HTTPException, which only the Issue transport turns into a failure.
CallRaises ==
  /\ At("send") /\ h.op \notin Issues
  /\ Lost
  /\ Escape
  /\ UNCHANGED <<stop, seen, tokens, log, got>>

-----------------------------------------------------------------------------
(* The client is answered                                                  *)

Answer ==
  /\ At("answer")
  /\ \/ /\ ~Rest
        /\ got' = [got EXCEPT ![h.client] = "ok"]
        /\ h' = [h EXCEPT !.at = "await"]
     \/ /\ Rest
        /\ got' = [got EXCEPT ![h.client] = "whole"]
        /\ Record(Say("ok"), "none")
  /\ UNCHANGED <<session, tokens, github, log>>

AnswerFails ==
  /\ At("answer")
  /\ Send("ok")
  /\ FailStream
  /\ UNCHANGED <<tokens, github, log>>

\* The document is too large: an Issue is answered with an error, a pull request raises.
TooLarge ==
  /\ At("answer") /\ Rest
  /\ IF h.op \in Pulls THEN Escape /\ UNCHANGED <<stop, seen, got>> ELSE Fail
  /\ UNCHANGED <<tokens, github, log>>

\* git-upload-pack: the client asks for more, or is done.
Await ==
  /\ At("await") /\ h.op = "git-upload-pack"
  /\ \/ h' = [h EXCEPT !.at = "token", !.call = "rpc", !.tried = 0]
     \/ Record(Say("ok"), "none")
  /\ UNCHANGED <<session, tokens, github, log, got>>

\* Mutant: the old value of a command is left to GitHub.
Gated_AnyLease(push, adv) ==
  /\ push # {} /\ Cardinality(push) <= MaxUpdates
  /\ \A u \in push :
       /\ u.ref \in WorkRefs \ adv
       /\ u.new # Zero
       /\ \A v \in push : u.ref = v.ref => u = v

\* gate_receive_pack_commands: new work branches only, against the advertisement.
Gated(push, adv) ==
  /\ push # {} /\ Cardinality(push) <= MaxUpdates
  /\ \A u \in push :
       /\ u.ref \in WorkRefs \ adv
       /\ u.new # Zero /\ u.old = Zero
       /\ \A v \in push : u.ref = v.ref => u = v

AwaitPush(push) ==
  /\ At("await") /\ h.op = "git-receive-pack"
  /\ IF Gated(push, h.adv)
       THEN h' = [h EXCEPT !.at = "token", !.call = "rpc", !.push = push, !.tried = 0]
       ELSE Record(Say("denied"), "none")
  /\ UNCHANGED <<session, tokens, github, log, got>>

\* The client goes away, times out, or sends what cannot be a request.
AwaitFails ==
  /\ At("await")
  /\ FailStream
  /\ UNCHANGED <<tokens, github, log, got>>

\* The answer of the call is passed on chunk by chunk; the end of the stream is written last.
Deliver ==
  /\ At("deliver")
  /\ got' = [got EXCEPT ![h.client] = "whole"]
  /\ IF h.op = "git-upload-pack"
       THEN h' = [h EXCEPT !.at = "await"]
       ELSE Record({Line(h.client, "ok", u.ref) : u \in h.push}, "none")
  /\ UNCHANGED <<session, tokens, github, log>>

\* Mutant: the push counts as done when GitHub has answered.
DeliverFails_Unnoticed ==
  /\ At("deliver")
  /\ IF h.op = "git-upload-pack"
       THEN Record(Say("error"), "none")
       ELSE Record({Line(h.client, "ok", u.ref) : u \in h.push}, "none")
  /\ UNCHANGED <<session, tokens, github, log, got>>

\* Either side breaks off.
DeliverFails ==
  /\ At("deliver")
  /\ FailStream
  /\ UNCHANGED <<tokens, github, log, got>>

DeliverRaises ==
  /\ At("deliver")
  /\ Escape
  /\ UNCHANGED <<stop, seen, tokens, github, log, got>>

-----------------------------------------------------------------------------
(* The audit                                                               *)

\* BrokerSession.audit, one line.  The last one is followed by the answer, if one is due.
Append(line) ==
  /\ At("record") /\ line \in h.due
  /\ stop # "revoked"
  /\ log' = log \cup {line}
  /\ IF h.due = {line}
       THEN /\ Return
            /\ IF h.reply = "none" THEN UNCHANGED got ELSE Send(h.reply)
       ELSE h' = [h EXCEPT !.due = @ \ {line}] /\ UNCHANGED <<serving, got>>
  /\ UNCHANGED <<stop, seen, tokens, github>>

Refusal == Rest /\ h.due = Say("denied")

\* Mutant: a line that cannot be written is dropped.
AppendFails_Dropped ==
  /\ At("record")
  /\ Return
  /\ UNCHANGED <<stop, seen, tokens, github, log, got>>

\* The session is revoked or the file refuses the line.  Only the refusal of a pull request's
\* or an Issue's request goes on without its line, and only if the error is a ValueError.
AppendFails ==
  /\ At("record")
  /\ \/ Refusal /\ Return
     \/ ~(Refusal /\ stop = "revoked") /\ Escape
  /\ UNCHANGED <<stop, seen, tokens, github, log, got>>

-----------------------------------------------------------------------------
(* The owner, GitHub and the other users of the repository                 *)

AskToStop ==
  /\ stop = "no"
  /\ stop' = "asked"
  /\ UNCHANGED <<serving, seen, h, tokens, github, log, got>>

Unlisten ==
  /\ stop = "asked"
  /\ stop' = "unlistened"
  /\ UNCHANGED <<serving, seen, h, tokens, github, log, got>>

\* deactivate_after_join: the join is over, or has timed out with a handler still at work.
Revoke ==
  /\ stop = "unlistened"
  /\ stop' = "revoked"
  /\ UNCHANGED <<serving, seen, h, tokens, github, log, got>>

Spoil(t) ==
  /\ t \in 1..minted \ spoiled
  /\ spoiled' = spoiled \cup {t}
  /\ UNCHANGED <<session, h, cache, minted, github, log, got>>

OthersWrite(r, v) ==
  /\ refs[r] # v
  /\ refs' = [refs EXCEPT ![r] = v]
  /\ UNCHANGED <<session, h, tokens, pulls, landed, log, got>>

Request(op, genuine, nonce) ==
  Deny(op, genuine, nonce) \/ Grant(op, genuine, nonce) \/ GrantThenRaise(op, genuine, nonce)

Call == GetToken \/ GetTokenFails \/ Unauthorized \/ Answered \/ CallFails \/ CallRaises

Respond ==
  \/ Answer \/ AnswerFails \/ TooLarge
  \/ Await \/ AwaitFails \/ \E push \in Pushes : AwaitPush(push)
  \/ Deliver \/ DeliverFails \/ DeliverRaises

Audit == AppendFails \/ \E line \in h.due : Append(line)

World ==
  \/ AskToStop \/ Unlisten \/ Revoke
  \/ \E t \in 1..minted : Spoil(t)
  \/ \E r \in Refs, v \in Values : OthersWrite(r, v)

Next ==
  \/ \E c \in Clients : Accept(c)
  \/ SeesStop \/ Refuse
  \/ \E op \in Operations, genuine \in BOOLEAN, nonce \in Nonces : Request(op, genuine, nonce)
  \/ Call \/ Respond \/ Audit \/ World

Spec == Init /\ [][Next]_vars

-----------------------------------------------------------------------------
(* Properties                                                              *)

\* The shape of the session, of the handler and of what the outside has seen.
TypeOK ==
  /\ serving \in {"yes", "no", "failed"}
  /\ stop \in {"no", "asked", "unlistened", "revoked"}
  /\ h \in Handlers
  /\ seen \subseteq Nonces /\ cache \in 0..minted /\ minted \in 0..MaxTokens
  /\ spoiled \subseteq 1..minted
  /\ refs \in [Refs -> Values] /\ pulls \in [Clients -> Nat]
  /\ landed \subseteq Clients \X Refs /\ log \subseteq Lines
  /\ got \in [Clients -> {"none", "waiting", "denied", "error", "ok", "whole"}]

\* Whatever the broker changes in the repository is a work branch that did not exist at that
\* moment, also when somebody else wrote it between the advertisement and the push.
CreateOnly ==
  [][h' # h =>
       \A r \in Refs : refs'[r] # refs[r] =>
         r \in WorkRefs /\ refs[r] = Zero /\ refs'[r] # Zero]_vars

\* One request creates one pull request at most: it is sent again only if GitHub refused the
\* token, never because the answer was lost.
OnePullPerRequest == \A c \in Clients : pulls[c] <= 1

\* The second attempt does not present the token that GitHub has just refused.
RetryHasNewToken == At("send") => h.token # h.tried

\* Nothing is done in the repository without a trace: once the broker is through with the
\* connection, the audit has a line of it or the broker itself has failed.
EffectsAccounted ==
  \A c \in Clients :
    h.client # c /\ (pulls[c] > 0 \/ \E r \in Refs : <<c, r>> \in landed) =>
      serving = "failed" \/ \E line \in log : line.client = c /\ line.status \in {"ok", "error"}

\* An audit line that says a push or the creation of a pull request went well belongs to a
\* client that was sent the complete answer.
OkWasDelivered ==
  \A line \in log :
    line.status = "ok" =>
      \/ got[line.client] = "whole"
      \/ got[line.client] = "ok" /\ line.ref = NoRef /\ pulls[line.client] = 0

\* An audit line that says ok and names a ref tells of a ref the connection created.
OkNamesCreated ==
  \A line \in log : line.ref # NoRef => <<line.client, line.ref>> \in landed

Repository == INSTANCE GuardedRepository WITH
  made <- landed, ledger <- log, heard <- got, current <- h.client,
  revoked <- stop = "revoked", up <- serving # "failed"

\* Tokens, calls that are lost or repeated, streams that break off and audit lines that cannot
\* be written come to no more than one effect of each connection, told of as it was.
ImplementsRepository == Repository!Spec

=============================================================================
