------------------------- MODULE PeerAncestry_proofs -------------------------
(***************************************************************************)
(* Reading the chain of ancestors twice is as good as one look at all of   *)
(* them, for any processes, forks and exits.                               *)
(*                                                                         *)
(* Why: a process that is no longer what the walk read never becomes so    *)
(* again (Snapshots).  Its start time is not reused, and once it has       *)
(* lost its parent, whoever takes over that parent's pid is younger than   *)
(* itself, while a process is only handed over to older ones (Ages).  So   *)
(* what matches on the second reading matched when the walk ended.         *)
(***************************************************************************)
EXTENDS PeerAncestry, TLAPS

USE ReaperAssumption, DepthAssumption

\* Parents are alive and older than their children.
Ages ==
  /\ forks > 0
  /\ \A p \in Pids : Alive(p) =>
       /\ proc[p].start < forks
       /\ proc[p].parent \in Pids =>
            Alive(proc[p].parent) /\ proc[proc[p].parent].start < proc[p].start

Matches(i) == proc[trail[i].pid] = trail[i].seen

\* A process that has lost the parent the walk saw will not get that pid as a parent again.
Departed(i) ==
  (proc[trail[i].pid].start = trail[i].seen.start /\ ~Matches(i)) =>
     /\ trail[i].seen.parent \in Pids
     /\ Alive(trail[i].seen.parent) =>
          proc[trail[i].seen.parent].start > trail[i].seen.start

Snapshots ==
  \A i \in 1..Len(trail) :
    trail[i].seen.start > 0 /\ trail[i].seen.start < forks /\ Departed(i)

\* What was read so far is a chain of parents.
Chain ==
  /\ \A i \in 1..(Len(trail) - 1) : trail[i].seen.parent = trail[i + 1].pid
  /\ phase = "idle" => trail = <<>> /\ checked = 0
  /\ phase # "idle" => root.pid # Reaper
  /\ phase = "walk" => Len(trail) < MaxDepth /\ checked = 0
  /\ (phase = "walk" /\ Len(trail) > 0) => current = trail[Len(trail)].seen.parent

\* A walk that ended without a live chain left a mismatch that is still to be read again.
Pending ==
  (phase = "verify" /\ ~descended) =>
     \E i \in 1..Len(trail) : i > checked /\ ~Matches(i)

IInv ==
  /\ WalkTypeOK /\ Ages /\ Snapshots /\ Chain /\ WalkBounded /\ Pending /\ AdmittedDescended

Snapshot == [pid : Pids, seen : Process]

\* What the members of a trail are.
LEMMA Elements ==
  ASSUME NEW t \in Seq(Snapshot), NEW i \in 1..Len(t)
  PROVE  t[i] \in Snapshot /\ t[i].pid \in Pids /\ t[i].seen \in Process
<1>1. t[i] \in Snapshot
  OBVIOUS
<1> QED  BY <1>1 DEF Snapshot

LEMMA InitIInv == WalkInit => IInv
<1> SUFFICES ASSUME WalkInit PROVE IInv
  OBVIOUS
<1> USE DEF WalkInit
<1>1. WalkTypeOK
  <2>1. PICK p \in Pids : proc = [q \in Pids |-> IF q = p THEN [parent |-> Reaper, start |-> 1] ELSE Dead]
    BY DEF WalkInit
  <2>2. \A q \in Pids : proc[q] \in Process
    BY <2>1 DEF Dead, Process
  <2>3. trail \in Seq([pid : Pids, seen : Process]) /\ Len(trail) = 0
    OBVIOUS
  <2>4. root \in [pid : Pids \cup {Reaper}, start : Nat] /\ checked \in 0..Len(trail)
    BY <2>3
  <2>5. DOMAIN proc = Pids /\ forks \in Nat /\ descended \in BOOLEAN
    BY <2>1
  <2> QED  BY <2>2, <2>3, <2>4, <2>5 DEF WalkTypeOK
<1>2. Ages
  BY DEF Ages, Alive, Dead
<1>3. Snapshots /\ Chain /\ WalkBounded /\ Pending /\ AdmittedDescended
  BY DEF Snapshots, Chain, WalkBounded, Pending, AdmittedDescended
<1> QED  BY <1>1, <1>2, <1>3 DEF IInv

\* Whoever inherits the children of a process is alive and older than it.
LEMMA AncestorsAreOlder ==
  ASSUME WalkTypeOK, Ages, NEW p \in Pids, Alive(p), NEW a \in Ancestors(p)
  PROVE  Alive(a) /\ proc[a].start < proc[p].start
<1> DEFINE Older == {x \in Pids : Alive(x) /\ proc[x].start < proc[p].start}
<1>1. ASSUME NEW x \in Older \cup {p}, proc[x].parent \in Pids
      PROVE  proc[x].parent \in Older
  BY <1>1 DEF Ages, WalkTypeOK, Process
<1>2. Older \in SUBSET Pids
  OBVIOUS
<1>3. a \in Older
  <2> HIDE DEF Older
  <2> QED  BY <1>1, <1>2 DEF Ancestors
<1> QED  BY <1>3

\* The step of a system in which a process is started.
LEMMA ForkStep ==
  ASSUME IInv, NEW p \in Pids \cup {Reaper}, NEW q \in Pids, Fork(p, q)
  PROVE  WalkTypeOK' /\ Ages' /\ Snapshots' /\ \A i \in 1..Len(trail) : ~Matches(i) => ~Matches(i)'
<1> USE DEF IInv
<1>1. proc' = [proc EXCEPT ![q] = [parent |-> p, start |-> forks]] /\ forks' = forks + 1
      /\ UNCHANGED session /\ ~Alive(q) /\ (p \in Pids => Alive(p))
  BY DEF Fork
<1>2. WalkTypeOK'
  BY <1>1 DEF WalkTypeOK, Process, session
<1>3. Ages'
  BY <1>1 DEF Ages, Alive, WalkTypeOK, Process
<1>4. ASSUME NEW i \in 1..Len(trail)
      PROVE  /\ ~Matches(i) => ~Matches(i)'
             /\ trail'[i].seen.start > 0 /\ trail'[i].seen.start < forks' /\ Departed(i)'
  <2> DEFINE s == trail[i].seen
             r == trail[i].pid
  <2>1. r \in Pids /\ s \in Process
    BY Elements DEF WalkTypeOK, Snapshot
  <2>2. trail' = trail /\ r \in Pids /\ s \in Process /\ s.start > 0 /\ s.start < forks
    BY <1>1, <2>1 DEF session, Snapshots
  <2>3. r = q => proc'[r].start # s.start
    BY <1>1, <2>2 DEF WalkTypeOK
  <2>4. r # q => proc'[r] = proc[r]
    BY <1>1 DEF WalkTypeOK
  <2>5. ~Matches(i) => ~Matches(i)'
    BY <2>2, <2>3, <2>4 DEF Matches
  <2>6. Departed(i)
    BY DEF Snapshots
  <2>7. \A x \in Pids : proc'[x].start > 0 => proc'[x] = proc[x] \/ proc'[x].start = forks
    BY <1>1 DEF WalkTypeOK
  <2>8. Departed(i)'
    <3> SUFFICES ASSUME proc'[r].start = s.start, ~Matches(i)'
                 PROVE  s.parent \in Pids /\ (proc'[s.parent].start > 0 => proc'[s.parent].start > s.start)
      BY <2>2 DEF Departed, Alive
    <3>1. r # q /\ proc[r].start = s.start /\ ~Matches(i)
      BY <2>2, <2>3, <2>4 DEF Matches
    <3>2. s.parent \in Pids /\ (Alive(s.parent) => proc[s.parent].start > s.start)
      BY <2>6, <3>1 DEF Departed
    <3> QED  BY <2>2, <2>7, <3>2 DEF Alive, WalkTypeOK, Process
  <2> QED  BY <1>1, <2>2, <2>5, <2>8 DEF WalkTypeOK, Process
<1>5. Snapshots'
  BY <1>1, <1>4 DEF Snapshots, session
<1> QED  BY <1>2, <1>3, <1>4, <1>5

\* The step of a system in which a process ends and its children are handed over.
LEMMA ExitStep ==
  ASSUME IInv, NEW p \in Pids, Exit(p)
  PROVE  WalkTypeOK' /\ Ages' /\ Snapshots' /\ \A i \in 1..Len(trail) : ~Matches(i) => ~Matches(i)'
<1> USE DEF IInv
<1>1. PICK heir \in Ancestors(p) \cup {Reaper} :
        proc' = [q \in Pids |->
                   IF q = p THEN Dead
                   ELSE IF Alive(q) /\ proc[q].parent = p THEN [proc[q] EXCEPT !.parent = heir]
                   ELSE proc[q]]
  BY DEF Exit
<1>2. Alive(p) /\ forks' = forks /\ UNCHANGED session
  BY DEF Exit
<1>3. heir \in Pids \cup {Reaper} /\ (heir \in Pids => Alive(heir) /\ proc[heir].start < proc[p].start)
  BY <1>1, <1>2, AncestorsAreOlder DEF Ancestors
<1>4. /\ proc'[p].start = 0 /\ proc'[p].parent = Reaper
      /\ \A q \in Pids \ {p} :
           /\ proc'[q] \in Process /\ proc'[q].start = proc[q].start
           /\ IF Alive(q) /\ proc[q].parent = p
                THEN proc'[q].parent = heir ELSE proc'[q] = proc[q]
  BY <1>1, <1>3 DEF Dead, WalkTypeOK, Process
<1>5. WalkTypeOK'
  <2>1. DOMAIN proc' = Pids /\ proc'[p] \in Process
    BY <1>1 DEF Dead, Process
  <2> QED  BY <1>2, <1>4, <2>1 DEF WalkTypeOK, session
<1>6. Ages'
  <2> SUFFICES ASSUME NEW q \in Pids, proc'[q].start > 0
               PROVE  /\ proc'[q].start < forks
                      /\ proc'[q].parent \in Pids =>
                           /\ proc'[proc'[q].parent].start > 0
                           /\ proc'[proc'[q].parent].start < proc'[q].start
    BY <1>2 DEF Ages, Alive
  <2>1. q # p /\ Alive(q) /\ proc'[q].start = proc[q].start
    BY <1>4 DEF Alive
  <2>2. CASE proc[q].parent = p
    <3>1. proc'[q].parent = heir /\ proc[p].start < proc[q].start
      BY <1>4, <2>1, <2>2 DEF Ages
    <3>2. heir \in Pids => heir # p /\ proc'[heir].start = proc[heir].start
      BY <1>3, <1>4 DEF WalkTypeOK, Process
    <3> QED  BY <1>2, <1>3, <2>1, <3>1, <3>2 DEF Ages, Alive, WalkTypeOK, Process
  <2>3. CASE proc[q].parent # p
    <3>1. proc'[q] = proc[q]
      BY <1>4, <2>1, <2>3
    <3> QED  BY <1>2, <1>4, <2>1, <2>3, <3>1 DEF Ages, Alive
  <2> QED  BY <2>2, <2>3
<1>7. ASSUME NEW i \in 1..Len(trail)
      PROVE  (~Matches(i) => ~Matches(i)') /\ Departed(i)'
  <2> DEFINE s == trail[i].seen
             r == trail[i].pid
  <2>1. r \in Pids /\ s \in Process
    BY Elements DEF WalkTypeOK, Snapshot
  <2>2. trail' = trail /\ r \in Pids /\ s \in Process /\ s.start > 0 /\ Departed(i)
    BY <1>2, <2>1 DEF session, Snapshots
  <2>3. proc'[r].start = s.start => r # p /\ Alive(r) /\ proc[r].start = s.start
    BY <1>4, <2>2 DEF Alive
  <2>4. \A x \in Pids : proc'[x].start > 0 => Alive(x) /\ proc'[x].start = proc[x].start
    BY <1>4 DEF Alive
  <2>5. (~Matches(i) => ~Matches(i)')
    <3> SUFFICES ASSUME ~Matches(i), Matches(i)' PROVE FALSE
      OBVIOUS
    <3>1. proc'[r] = s
      BY <2>2 DEF Matches
    <3>2. r # p /\ Alive(r) /\ proc[r].start = s.start /\ proc[r] # s
      BY <2>2, <2>3, <3>1 DEF Matches
    <3>3. proc[r].parent = p /\ heir = s.parent
      BY <1>4, <2>2, <3>1, <3>2
    <3>4. heir \in Pids /\ (Alive(heir) => proc[heir].start > s.start)
      BY <2>2, <3>2, <3>3 DEF Departed
    <3>5. proc[p].start < s.start
      BY <2>2, <3>2, <3>3 DEF Ages
    <3> QED  BY <1>3, <2>2, <3>4, <3>5 DEF WalkTypeOK, Process
  <2>6. Departed(i)'
    <3> SUFFICES ASSUME proc'[r].start = s.start, ~Matches(i)'
                 PROVE  s.parent \in Pids /\ (proc'[s.parent].start > 0 => proc'[s.parent].start > s.start)
      BY <2>2 DEF Departed, Alive
    <3>1. CASE Matches(i)
      <4>1. proc[r] = s /\ r # p /\ Alive(r)
        BY <2>3, <3>1 DEF Matches
      <4>2. proc'[r] # proc[r]
        BY <2>2, <4>1 DEF Matches
      <4>3. s.parent = p
        BY <1>4, <2>2, <4>1, <4>2
      <4> QED  BY <1>4, <4>3 DEF Alive
    <3>2. CASE ~Matches(i)
      <4>1. s.parent \in Pids /\ (Alive(s.parent) => proc[s.parent].start > s.start)
        BY <2>2, <2>3, <3>2 DEF Departed
      <4> QED  BY <2>4, <4>1 DEF Alive
    <3> QED  BY <3>1, <3>2
  <2> QED  BY <2>5, <2>6
<1>8. Snapshots'
  BY <1>2, <1>7 DEF Snapshots, session
<1> QED  BY <1>5, <1>6, <1>7, <1>8

\* A process that is no longer what the walk read never becomes so again.
LEMMA SystemStep ==
  ASSUME IInv,
         \/ \E p \in Pids \cup {Reaper}, q \in Pids : Fork(p, q)
         \/ \E p \in Pids : Exit(p)
  PROVE  IInv'
<1>1. /\ WalkTypeOK' /\ Ages' /\ Snapshots' /\ UNCHANGED session
      /\ \A i \in 1..Len(trail) : ~Matches(i) => ~Matches(i)'
  BY ForkStep, ExitStep DEF Fork, Exit
<1>2. Chain' /\ WalkBounded' /\ AdmittedDescended'
  BY <1>1 DEF IInv, Chain, WalkBounded, AdmittedDescended, session
<1>3. Pending'
  BY <1>1 DEF IInv, Pending, session
<1> QED  BY <1>1, <1>2, <1>3 DEF IInv

\* A walk that reads only live matches has found a live chain.
LEMMA ChainDescends ==
  ASSUME NEW t \in Seq(Snapshot), Len(t) \in 1..MaxDepth,
         \A i \in 1..Len(t) : proc[t[i].pid] = t[i].seen /\ t[i].seen.start > 0,
         \A i \in 1..(Len(t) - 1) : t[i].seen.parent = t[i + 1].pid,
         t[Len(t)].pid = root.pid, proc[root.pid].start = root.start
  PROVE  Descends(t[1].pid)
<1> DEFINE n == Len(t)
           path == [i \in 1..n |-> t[i].pid]
<1>1. n \in 1..MaxDepth /\ path \in [1..n -> Pids]
  BY Elements
<1>2. path[1] = t[1].pid /\ path[n] = root.pid
  OBVIOUS
<1>3. \A i \in 1..n : Alive(path[i])
  BY DEF Alive
<1>4. \A i \in 1..(n - 1) : proc[path[i]].parent = path[i + 1]
  OBVIOUS
<1> QED
  <2> HIDE DEF n, path
  <2> QED  BY <1>1, <1>2, <1>3, <1>4 DEF Descends

\* One more process of the walk.
LEMMA ReadAncestorStep == ASSUME IInv, ReadAncestor PROVE IInv'
<1> USE DEF IInv
<1>0. phase = "walk" /\ proc' = proc /\ forks' = forks /\ root' = root
  BY DEF ReadAncestor, system
<1>1. CASE Refused(current)
  <2>1. phase' = "denied" /\ UNCHANGED <<current, trail, checked, descended>>
    BY <1>1 DEF ReadAncestor, Deny
  <2> QED
    BY <1>0, <2>1 DEF WalkTypeOK, Ages, Alive, Snapshots, Departed, Matches, Chain, WalkBounded,
                      Pending, AdmittedDescended
<1>2. CASE ~Refused(current)
  <2> DEFINE new == [pid |-> current, seen |-> proc[current]]
             n == Len(trail)
  <2>1. current \in Pids /\ Alive(current)
        /\ (current = root.pid => proc[current].start = root.start)
        /\ (current # root.pid => n + 1 # MaxDepth)
    BY <1>2 DEF Refused, IsRoot
  <2>2. /\ trail' = Append(trail, new) /\ checked' = checked /\ checked = 0
        /\ IF current = root.pid
             THEN phase' = "verify" /\ descended' = Descends(trail'[1].pid) /\ current' = current
             ELSE phase' = phase /\ descended' = descended /\ current' = proc[current].parent
    BY <1>0, <1>2 DEF ReadAncestor, Chain
  <2>3. new \in Snapshot /\ n \in Nat
    BY <2>1 DEF WalkTypeOK, Snapshot
  <2>4. /\ trail' \in Seq(Snapshot) /\ Len(trail') = n + 1
        /\ trail'[n + 1] = new /\ \A i \in 1..n : trail'[i] = trail[i]
    BY <2>2, <2>3 DEF WalkTypeOK, Snapshot
  <2>5. descended' \in BOOLEAN
    <3>1. CASE current = root.pid
      BY <2>2, <3>1, Zenon DEF Descends
    <3>2. CASE current # root.pid
      BY <2>2, <3>2 DEF WalkTypeOK
    <3> QED  BY <3>1, <3>2
  <2>6. WalkTypeOK'
    <3>1. current' \in Pids \cup {Reaper}
      BY <2>1, <2>2 DEF WalkTypeOK, Process
    <3>2. phase' \in {"idle", "walk", "verify", "admitted", "denied"}
      BY <1>0, <2>2
    <3>3. checked' \in 0..Len(trail')
      BY <2>2, <2>3, <2>4
    <3> QED  BY <1>0, <2>4, <2>5, <3>1, <3>2, <3>3 DEF WalkTypeOK, Snapshot
  <2>7. Ages'
    BY <1>0 DEF Ages, Alive
  <2>8. Snapshots'
    <3> SUFFICES ASSUME NEW i \in 1..(n + 1)
                 PROVE  /\ trail'[i].seen.start > 0 /\ trail'[i].seen.start < forks
                        /\ Departed(i)'
      BY <1>0, <2>4 DEF Snapshots
    <3>1. CASE i = n + 1
      BY <1>0, <2>1, <2>4, <3>1 DEF Departed, Matches, Ages, Alive, WalkTypeOK
    <3>2. CASE i \in 1..n
      BY <1>0, <2>4, <3>2 DEF Snapshots, Departed, Matches, Alive
    <3> QED  BY <2>3, <3>1, <3>2
  <2>9. n + 1 <= MaxDepth /\ (current # root.pid => n + 1 < MaxDepth)
    BY <1>0, <2>1, <2>3 DEF Chain
  <2>10. \A i \in 1..n : trail'[i].seen.parent = trail'[i + 1].pid
    <3> SUFFICES ASSUME NEW i \in 1..n PROVE trail'[i].seen.parent = trail'[i + 1].pid
      OBVIOUS
    <3>1. CASE i = n
      BY <1>0, <2>3, <2>4, <3>1 DEF Chain
    <3>2. CASE i # n
      BY <2>3, <2>4, <3>2 DEF Chain
    <3> QED  BY <3>1, <3>2
  <2>11. Chain'
    BY <1>0, <2>2, <2>3, <2>4, <2>9, <2>10 DEF Chain
  <2>12. Pending'
    <3> SUFFICES ASSUME phase' = "verify", ~descended'
                 PROVE  \E i \in 1..(n + 1) : i > 0 /\ ~Matches(i)'
      BY <2>2, <2>4 DEF Pending
    <3>1. current = root.pid /\ ~Descends(trail'[1].pid)
      BY <1>0, <2>2
    <3>2. ASSUME \A i \in 1..(n + 1) : Matches(i)' PROVE FALSE
      <4>1. Len(trail') \in 1..MaxDepth
        BY <2>3, <2>4, <2>9
      <4>2. \A i \in 1..Len(trail') :
              proc[trail'[i].pid] = trail'[i].seen /\ trail'[i].seen.start > 0
        BY <1>0, <2>4, <2>8, <3>2 DEF Matches, Snapshots
      <4>3. trail'[Len(trail')].pid = root.pid /\ proc[root.pid].start = root.start
        BY <2>1, <2>4, <3>1
      <4>4. \A i \in 1..(Len(trail') - 1) : trail'[i].seen.parent = trail'[i + 1].pid
        BY <2>3, <2>4, <2>10
      <4> QED  BY <2>4, <3>1, <4>1, <4>2, <4>3, <4>4, ChainDescends
    <3> QED  BY <2>3, <3>2
  <2>13. WalkBounded' /\ AdmittedDescended'
    BY <1>0, <2>2, <2>4, <2>9 DEF WalkBounded, AdmittedDescended
  <2> QED  BY <2>6, <2>7, <2>8, <2>11, <2>12, <2>13
<1> QED  BY <1>1, <1>2

\* One more process of the second reading; the last one settles the verdict.
LEMMA ReadAgainStep == ASSUME IInv, ReadAgain PROVE IInv'
<1> USE DEF IInv
<1>0. phase = "verify" /\ proc' = proc /\ forks' = forks /\ root' = root
      /\ trail' = trail /\ current' = current /\ descended' = descended
  BY DEF ReadAgain, Deny, system
<1>1. checked \in 0..Len(trail) /\ Len(trail) \in Nat
  BY DEF WalkTypeOK
<1>2. Ages' /\ Snapshots' /\ WalkBounded'
  BY <1>0 DEF Ages, Alive, Snapshots, Departed, Matches, WalkBounded
<1>3. CASE checked = Len(trail)
  <2>1. phase' = "admitted" /\ checked' = checked
    BY <1>3 DEF ReadAgain
  <2>2. descended
    BY <1>0, <1>1, <1>3 DEF Pending
  <2> QED  BY <1>0, <1>2, <2>1, <2>2 DEF WalkTypeOK, Chain, Pending, AdmittedDescended
<1>4. CASE checked # Len(trail) /\ Matches(checked + 1)
  <2>1. checked' = checked + 1 /\ phase' = phase
    BY <1>4 DEF ReadAgain, Matches
  <2>2. Pending'
    BY <1>0, <1>1, <1>4, <2>1 DEF Pending, Matches
  <2> QED  BY <1>0, <1>1, <1>2, <1>4, <2>1, <2>2 DEF WalkTypeOK, Chain, AdmittedDescended
<1>5. CASE checked # Len(trail) /\ ~Matches(checked + 1)
  <2>1. phase' = "denied" /\ checked' = checked
    BY <1>5 DEF ReadAgain, Matches, Deny
  <2> QED  BY <1>0, <1>2, <2>1 DEF WalkTypeOK, Chain, Pending, AdmittedDescended
<1> QED  BY <1>3, <1>4, <1>5

LEMMA StepIInv == IInv /\ [WalkNext]_walkVars => IInv'
<1> SUFFICES ASSUME IInv, [WalkNext]_walkVars PROVE IInv'
  OBVIOUS
<1>1. CASE \E p \in Pids : RegisterRuntime(p)
  <2>1. PICK p \in Pids : RegisterRuntime(p)
    BY <1>1
  <2>2. root.pid = Reaper /\ root' = [pid |-> p, start |-> proc[p].start]
        /\ UNCHANGED <<proc, forks, phase, current, trail, checked, descended>>
    BY <2>1 DEF RegisterRuntime, system
  <2> QED
    BY <2>2 DEF IInv, WalkTypeOK, Process, Ages, Alive, Snapshots, Departed, Matches, Chain,
                WalkBounded, Pending, AdmittedDescended
<1>2. CASE \E p \in Pids : ValidatePeer(p)
  <2>1. /\ phase = "idle" /\ root.pid # Reaper /\ phase' = "walk" /\ current' \in Pids
        /\ UNCHANGED <<proc, forks, root, trail, checked, descended>>
    BY <1>2 DEF ValidatePeer, system
  <2>2. trail = <<>> /\ checked = 0 /\ Len(trail) = 0
    BY <2>1 DEF IInv, Chain
  <2> QED
    BY <2>1, <2>2 DEF IInv, WalkTypeOK, Process, Ages, Alive, Snapshots, Departed, Matches, Chain,
                WalkBounded, Pending, AdmittedDescended
<1>3. CASE UNCHANGED walkVars
  BY <1>3 DEF walkVars, system, session, IInv, WalkTypeOK, Process, Ages, Alive, Snapshots, Departed,
              Matches, Chain, WalkBounded, Pending, AdmittedDescended
<1> QED
  BY <1>1, <1>2, <1>3, SystemStep, ReadAncestorStep, ReadAgainStep DEF WalkNext

\* The invariant that everything below rests on.
THEOREM AncestryInvariant == WalkSpec => []IInv
BY InitIInv, StepIInv, PTL DEF WalkSpec

\* A peer that is admitted was below the registered runtime at one moment of its
\* validation, whatever forked and exited meanwhile.
THEOREM AdmissionIsSound == WalkSpec => []AdmittedDescended
<1>1. IInv => AdmittedDescended
  BY DEF IInv
<1> QED  BY <1>1, AncestryInvariant, PTL

\* No validation reads more processes than the depth allows.
THEOREM WalksAreBounded == WalkSpec => []WalkBounded
<1>1. IInv => WalkBounded
  BY DEF IInv
<1> QED  BY <1>1, AncestryInvariant, PTL

\* The process table and the session keep their shape.
THEOREM AncestryTypes == WalkSpec => []WalkTypeOK
<1>1. IInv => WalkTypeOK
  BY DEF IInv
<1> QED  BY <1>1, AncestryInvariant, PTL

=============================================================================
