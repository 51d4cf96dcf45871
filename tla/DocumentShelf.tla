---------------------------- MODULE DocumentShelf ----------------------------
(***************************************************************************)
(* What a project's hand-over directory promises, with no temporary file,  *)
(* retry or disk in between: a shelf of whole documents, one to a name.  A *)
(* writer puts its document on a free place once, and may take it back     *)
(* until it is told where it is; from then on it stays.  A crash may lose  *)
(* or bring back what nobody was told of, and nothing else.                *)
(***************************************************************************)

CONSTANTS
  Writers,  \* one document each
  Guarded,  \* the writers that a closed session refuses
  Names,    \* the places
  Nobody,   \* a free place
  Earlier   \* a document from before

VARIABLES
  shelf,    \* [Names -> Writers \cup {Nobody, Earlier}]
  offered,  \* where a writer has put its document, taken back or not
  answered, \* the writers that were told
  shut,     \* the session is closed
  crashed

vars == <<shelf, offered, answered, shut, crashed>>

Init ==
  /\ shelf \in [Names -> {Nobody, Earlier}]
  /\ offered = {} /\ answered = {}
  /\ shut = FALSE /\ crashed = FALSE

Put(w, n) ==
  /\ ~crashed /\ ~(shut /\ w \in Guarded)
  /\ shelf[n] = Nobody /\ \A m \in Names : <<w, m>> \notin offered
  /\ shelf' = [shelf EXCEPT ![n] = w]
  /\ offered' = offered \cup {<<w, n>>}
  /\ UNCHANGED <<answered, shut, crashed>>

TakeBack(w, n) ==
  /\ ~crashed /\ w \notin answered /\ shelf[n] = w
  /\ shelf' = [shelf EXCEPT ![n] = Nobody]
  /\ UNCHANGED <<offered, answered, shut, crashed>>

Answer(w, n) ==
  /\ ~crashed /\ w \notin answered /\ shelf[n] = w
  /\ answered' = answered \cup {w}
  /\ UNCHANGED <<shelf, offered, shut, crashed>>

Shut ==
  /\ ~crashed /\ shut' = TRUE
  /\ UNCHANGED <<shelf, offered, answered, crashed>>

Kept == answered \cup {Earlier}

\* What a place may hold after a crash.
Left(n) ==
  IF shelf[n] \in Kept THEN {shelf[n]}
  ELSE {Nobody} \cup {w \in Writers \ answered : <<w, n>> \in offered}

Crash ==
  /\ ~crashed /\ crashed' = TRUE
  /\ shelf' \in [Names -> Writers \cup {Nobody, Earlier}]
  /\ \A n \in Names : shelf'[n] \in Left(n)
  /\ UNCHANGED <<offered, answered, shut>>

Next ==
  \/ Shut \/ Crash
  \/ \E w \in Writers, n \in Names : Put(w, n) \/ TakeBack(w, n) \/ Answer(w, n)

Spec == Init /\ [][Next]_vars

=============================================================================
