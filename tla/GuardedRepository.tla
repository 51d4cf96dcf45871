-------------------------- MODULE GuardedRepository --------------------------
(***************************************************************************)
(* What the GitHub broker promises whoever owns the repository: its        *)
(* connections are served one after the other, and each adds one thing to  *)
(* it at most, new work branches of one push or one pull request; the      *)
(* ledger tells of it before the connection is let go, unless the broker   *)
(* fails; and what the ledger says agrees with what the client heard.      *)
(* There are no tokens, calls, retries or streams in it.                   *)
(***************************************************************************)
EXTENDS Integers

CONSTANTS Clients, NoClient, Refs, NoRef, WorkRefs, Oids, Zero

VARIABLES
  refs,     \* [Refs -> Values], the repository
  pulls,    \* [Clients -> Nat], pull requests a connection has created
  made,     \* the refs a connection has created
  ledger,   \* lines of a client, a status and a ref
  heard,    \* [Clients -> Messages]
  current,  \* the connection that is served
  revoked,  \* the ledger is closed
  up        \* the broker has not failed

vars == <<refs, pulls, made, ledger, heard, current, revoked, up>>

Values == Oids \cup {Zero}

Init ==
  /\ refs \in [Refs -> Values]
  /\ pulls = [c \in Clients |-> 0] /\ made = {} /\ ledger = {}
  /\ heard = [c \in Clients |-> "none"]
  /\ current = NoClient /\ revoked = FALSE /\ up = TRUE

Acted(c) == pulls[c] > 0 \/ \E r \in Refs : <<c, r>> \in made
Of(c) == {line \in ledger : line.client = c}

Begin(c) ==
  /\ up /\ ~revoked /\ current = NoClient /\ heard[c] = "none"
  /\ current' = c
  /\ heard' = [heard EXCEPT ![c] = "waiting"]
  /\ UNCHANGED <<refs, pulls, made, ledger, revoked, up>>

CreateRefs(c) ==
  \E new \in SUBSET WorkRefs :
    /\ \A r \in new : refs[r] = Zero
    /\ \E oids \in [new -> Oids] :
         refs' = [r \in Refs |-> IF r \in new THEN oids[r] ELSE refs[r]]
    /\ made' = made \cup ({c} \X new)
    /\ UNCHANGED pulls

CreatePull(c) ==
  /\ pulls' = [pulls EXCEPT ![c] = @ + 1]
  /\ UNCHANGED <<refs, made>>

\* Once, before the client has heard how it ended and before a line is written.
Act(c) ==
  /\ ~Acted(c) /\ Of(c) = {} /\ heard[c] \in {"waiting", "ok"}
  /\ CreateRefs(c) \/ CreatePull(c)

\* What has begun well is not taken back, and no line says ok of what is told to have failed.
Tell(c) ==
  \E message \in {"denied", "error", "ok", "whole"} :
    /\ heard' = [heard EXCEPT ![c] = message]
    /\ message \in {"denied", "error", "ok"} => heard[c] = "waiting"
    /\ message \in {"denied", "ok", "whole"} => Of(c) = {}
    /\ message = "denied" => ~Acted(c)'
    /\ message = "whole" => heard[c] \in {"waiting", "ok", "whole"}

\* The lines of a connection agree; a refusal has changed nothing, and what went well was heard.
Write(c) ==
  \E status \in {"ok", "denied", "error"}, ref \in Refs \cup {NoRef} :
    /\ ~revoked
    /\ ledger' = ledger \cup {[client |-> c, status |-> status, ref |-> ref]}
    /\ \A line \in Of(c) : line.status = status
    /\ status = "denied" => ~Acted(c)'
    /\ status = "ok" => heard[c] = "whole" \/ (heard[c] = "ok" /\ ref = NoRef /\ ~Acted(c)')
    /\ ref # NoRef => status = "ok"

LetGo(c) ==
  /\ current' = NoClient
  /\ \/ up' = FALSE
     \/ up' = up /\ (Acted(c)' => \E line \in ledger' : line.client = c /\ line.status # "denied")

Serve(c) ==
  /\ current = c /\ c # NoClient
  /\ Act(c) \/ UNCHANGED <<refs, pulls, made>>
  /\ Tell(c) \/ UNCHANGED heard
  /\ Write(c) \/ UNCHANGED ledger
  /\ LetGo(c) \/ UNCHANGED <<current, up>>
  /\ UNCHANGED revoked

Revoke ==
  /\ revoked' = TRUE
  /\ UNCHANGED <<refs, pulls, made, ledger, heard, current, up>>

\* Everybody else who may write to the repository.
Others ==
  /\ refs' \in [Refs -> Values]
  /\ UNCHANGED <<pulls, made, ledger, heard, current, revoked, up>>

Next == Revoke \/ Others \/ \E c \in Clients : Begin(c) \/ Serve(c)

Spec == Init /\ [][Next]_vars

=============================================================================
