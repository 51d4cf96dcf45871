---------------------------- MODULE PeerAncestry ----------------------------
(***************************************************************************)
(* FamilyIntakeSession.validate_peer (family_intake_broker.py): does a pid *)
(* belong to the process tree of the registered runtime?  The session      *)
(* reads /proc one process at a time while processes fork, exit and leave  *)
(* their pids to others: it walks from the peer to the registered root and *)
(* then reads every process of the walk a second time.                     *)
(*                                                                         *)
(* A process is its parent's pid and its start time; the owner's uid, the  *)
(* same for every process of the tree, is left out.  Start times are       *)
(* assumed fresh: two processes that use one pid differ in theirs.         *)
(***************************************************************************)
EXTENDS Integers, Sequences, FiniteSets

CONSTANTS
  Pids,        \* the pids that come and go
  Reaper,      \* the host's init: alive for ever, above every tree
  MaxDepth,    \* _MAX_PROCESS_DEPTH
  MaxForks     \* bound: processes started

ASSUME ReaperAssumption == Reaper \notin Pids
ASSUME DepthAssumption == MaxDepth \in Nat \ {0}

VARIABLES
  proc,        \* [Pids -> Process \cup {Dead}], what /proc shows
  forks,       \* the start time of the next process
  root,        \* _runtime_root: the pid and start time that were registered
  phase,       \* "idle", "walk", "verify", "admitted" or "denied"
  current,     \* the pid the walk reads next
  trail,       \* snapshots, in the order of the walk: pids and what was read
  checked,     \* how many snapshots were read again
  descended    \* history: at the end of the walk, the peer was below the root

system == <<proc, forks>>
session == <<root, phase, current, trail, checked, descended>>
walkVars == <<system, session>>

Process == [parent : Pids \cup {Reaper}, start : Nat]
Dead == [parent |-> Reaper, start |-> 0]
Alive(p) == proc[p].start > 0

\* The first process is the runtime that will be registered; it is a child of the reaper.
WalkInit ==
  /\ \E p \in Pids : proc = [q \in Pids |-> IF q = p THEN [parent |-> Reaper, start |-> 1] ELSE Dead]
  /\ forks = 2
  /\ root = [pid |-> Reaper, start |-> 0]
  /\ phase = "idle" /\ current = Reaper /\ trail = <<>> /\ checked = 0
  /\ descended = FALSE

-----------------------------------------------------------------------------
(* The system                                                              *)

Fork(p, q) ==
  /\ forks <= MaxForks
  /\ p \in Pids => Alive(p)
  /\ q \in Pids /\ ~Alive(q)
  /\ proc' = [proc EXCEPT ![q] = [parent |-> p, start |-> forks]]
  /\ forks' = forks + 1
  /\ UNCHANGED session

\* What lies above p: the least set of processes that holds the parents of p and its own.
Ancestors(p) ==
  {a \in Pids : \A S \in SUBSET Pids :
     (\A x \in S \cup {p} : proc[x].parent \in Pids => proc[x].parent \in S) => a \in S}

\* The children of a process that exits pass to one of its ancestors or to the host's init.
Exit(p) ==
  /\ Alive(p)
  /\ \E heir \in Ancestors(p) \cup {Reaper} :
       proc' = [q \in Pids |->
                  IF q = p THEN Dead
                  ELSE IF Alive(q) /\ proc[q].parent = p THEN [proc[q] EXCEPT !.parent = heir]
                  ELSE proc[q]]
  /\ UNCHANGED <<forks, session>>

-----------------------------------------------------------------------------
(* The session                                                             *)

\* register_runtime reads the process twice and remembers its start time.
RegisterRuntime(p) ==
  /\ root.pid = Reaper
  /\ Alive(p)
  /\ root' = [pid |-> p, start |-> proc[p].start]
  /\ UNCHANGED <<system, phase, current, trail, checked, descended>>

ValidatePeer(p) ==
  /\ phase = "idle" /\ root.pid # Reaper
  /\ phase' = "walk" /\ current' = p
  /\ UNCHANGED <<system, root, trail, checked, descended>>

Deny == phase' = "denied" /\ UNCHANGED <<current, trail, checked, descended>>

Seen(p) == \E i \in 1..Len(trail) : trail[i].pid = p

\* Is there a chain of live processes from p up to the registered runtime?
Descends(p) ==
  \E n \in 1..MaxDepth : \E path \in [1..n -> Pids] :
    /\ path[1] = p /\ path[n] = root.pid
    /\ \A i \in 1..n : Alive(path[i])
    /\ \A i \in 1..(n - 1) : proc[path[i]].parent = path[i + 1]
    /\ proc[root.pid].start = root.start

\* The registered process itself, not one that took over its pid.
IsRoot(p) == p = root.pid /\ proc[p].start = root.start

\* A cycle, a foreign or vanished process, another process at the root's pid, or the end
\* of the allowed depth.
Refused(p) ==
  \/ Seen(p)
  \/ p \notin Pids
  \/ ~Alive(p)
  \/ p = root.pid /\ ~IsRoot(p)
  \/ p # root.pid /\ Len(trail) + 1 = MaxDepth

\* One process of the walk; the registered root ends it.
ReadAncestor ==
  /\ phase = "walk"
  /\ UNCHANGED <<system, root>>
  /\ IF Refused(current)
       THEN Deny
       ELSE /\ trail' = Append(trail, [pid |-> current, seen |-> proc[current]])
            /\ IF current = root.pid
                 THEN phase' = "verify" /\ descended' = Descends(trail'[1].pid)
                 ELSE UNCHANGED <<phase, descended>>
            /\ current' = IF current = root.pid THEN current ELSE proc[current].parent
            /\ UNCHANGED checked

\* Mutant: only the start times are compared again, not the parents.
ReadAgain_StartOnly ==
  /\ phase = "verify"
  /\ UNCHANGED <<system, root>>
  /\ IF checked = Len(trail)
       THEN phase' = "admitted" /\ UNCHANGED <<current, trail, checked, descended>>
     ELSE IF proc[trail[checked + 1].pid].start = trail[checked + 1].seen.start
       THEN checked' = checked + 1 /\ UNCHANGED <<phase, current, trail, descended>>
     ELSE Deny

\* The second reading, one snapshot at a time; the last match admits the peer.
ReadAgain ==
  /\ phase = "verify"
  /\ UNCHANGED <<system, root>>
  /\ IF checked = Len(trail)
       THEN phase' = "admitted" /\ UNCHANGED <<current, trail, checked, descended>>
     ELSE IF proc[trail[checked + 1].pid] = trail[checked + 1].seen
       THEN checked' = checked + 1 /\ UNCHANGED <<phase, current, trail, descended>>
     ELSE Deny

WalkNext ==
  \/ \E p \in Pids \cup {Reaper}, q \in Pids : Fork(p, q)
  \/ \E p \in Pids : Exit(p) \/ RegisterRuntime(p) \/ ValidatePeer(p)
  \/ ReadAncestor \/ ReadAgain

WalkSpec == WalkInit /\ [][WalkNext]_walkVars

-----------------------------------------------------------------------------
(* Properties                                                              *)

\* /proc and the state of one validation.
WalkTypeOK ==
  /\ \A p \in Pids : proc[p] \in Process
  /\ DOMAIN proc = Pids
  /\ forks \in Nat
  /\ root \in [pid : Pids \cup {Reaper}, start : Nat]
  /\ phase \in {"idle", "walk", "verify", "admitted", "denied"}
  /\ current \in Pids \cup {Reaper}
  /\ trail \in Seq([pid : Pids, seen : Process])
  /\ checked \in 0..Len(trail)
  /\ descended \in BOOLEAN

\* Validation is as good as an instantaneous look at the whole process table: a peer
\* that is admitted was below the registered runtime at one moment of the validation.
AdmittedDescended == phase = "admitted" => descended

\* A validation reads at most MaxDepth processes, however they fork and reuse pids
\* meanwhile: it holds the session's lock, and deactivate() waits for it.
WalkBounded == Len(trail) <= MaxDepth

=============================================================================
