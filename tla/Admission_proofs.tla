-------------------------- MODULE Admission_proofs --------------------------
(***************************************************************************)
(* What is let in and on which terms: a request number by the replay       *)
(* window, exact for every window and every range of numbers; a family     *)
(* approval by the App, the key and the token it verified, whenever the    *)
(* operator replaces the two files; a project by project add, for any      *)
(* number of commands, one after the other or at once.                     *)
(***************************************************************************)
EXTENDS ProjectAdd, FamilyCredential, ReplayWindow, TLAPS

-----------------------------------------------------------------------------
(* project add: an invariant of each command, whoever else runs, and of what *)
(* is on disk.                                                             *)

Upgrading == {"temporary", "fill", "snapshot again", "replace"}
Provided == {"clone", "cloned", "validate", "furnish", "register", "record", "doctor"}
Furnishing == {"furnish", "register", "record", "doctor"}
Chosen == {"preflight", "snapshot", "prepare", "write policy"} \cup Upgrading \cup Provided

\* What a command on its way knows of what is on disk, whoever else runs, and what it
\* knows if nobody else does.
Each(c) ==
  /\ command[c].pc = "idle" => command[c].alone
  /\ command[c].pc # "idle" => command[c].request \in Requests
  /\ command[c].pc \in Upgrading => policy.kind = "whole" /\ policy.repo = Repo(c)
  /\ command[c].pc \in {"snapshot again", "replace"} => temporary[c] = "whole"
  /\ command[c].pc = "write policy" => policy.kind = "torn"
  /\ command[c].pc \in Chosen /\ command[c].mode = "plain" => Id(c) = Plain
  /\ command[c].mode = "completed" \/ command[c].pc = "doctor" \/ command[c].result = "ok"
       => project.kind = "whole" /\ project.repo = Repo(c)
  /\ command[c].pc \in Provided /\ Id(c) # Plain => policy.kind = "whole" /\ policy.repo = Repo(c)
  /\ command[c].pc = "record" => project.kind = "torn" /\ project.by = c
  /\ command[c].pc \in {"cloned", "validate"} => ~command[c].found
  /\ command[c].alone /\ command[c].pc \in {"snapshot"} \cup Upgrading => project.kind = "absent"
  /\ command[c].alone /\ Runs(c) /\ (command[c].found \/ command[c].pc \in Furnishing) => OriginFits(c)

\* No command runs beside one that was alone, and one at most writes a new policy.
Apart == \A c, d \in Commands : c # d =>
  /\ Runs(c) /\ Runs(d) => ~command[c].alone
  /\ command[c].pc = "write policy" => command[d].pc # "write policy"

\* The project and its policy.
Bound ==
  /\ project.by # Unset => command[project.by].pc # "idle"
  /\ project.kind = "whole" /\ project.by # Unset /\ Id(project.by) # Plain =>
       policy.kind = "whole" /\ policy.repo = project.repo

\* The project and its workspace.
Housed == OneAfterTheOther =>
  /\ project.kind = "whole" => workspace.kind # "absent" /\ workspace.repo = project.repo
  /\ \A c \in Commands : command[c].pc = "cloned" /\ command[c].cloning => project.kind # "whole"

AddInv == AddTypeOK /\ (\A c \in Commands : Each(c)) /\ Apart /\ Bound /\ Housed

LEMMA AddInitInv == AddInit => AddInv
<1> SUFFICES ASSUME AddInit PROVE AddInv
  OBVIOUS
<1>0. PICK r \in Origins :
        \/ policy = NoPolicy /\ workspace = NoWorkspace /\ project = NoProject
        \/ policy = Policy(r, Legacy) /\ workspace = NoWorkspace /\ project = NoProject
        \/ /\ policy = Policy(r, Legacy) /\ workspace = Record("whole", r)
           /\ project = [kind |-> "whole", repo |-> r, by |-> Unset]
  BY DEF AddInit
<1>1.   /\ policy \in {NoPolicy, Policy(r, Legacy)}
        /\ workspace \in {NoWorkspace, Record("whole", r)}
        /\ project \in {NoProject, [kind |-> "whole", repo |-> r, by |-> Unset]}
        /\ project # NoProject => project.repo = workspace.repo /\ workspace = Record("whole", r)
  BY <1>0 DEF Record
<1>2. AddTypeOK
  BY <1>1 DEF AddInit, AddTypeOK, NoPolicy, Policy, NoWorkspace, Record, NoProject, CommandState, Waiting
<1>3. \A c \in Commands : /\ command[c].pc = "idle" /\ command[c].alone /\ ~command[c].found
                          /\ command[c].mode = "plain" /\ command[c].result = "none"
  BY DEF AddInit, Waiting
<1>4. \A c \in Commands : Each(c)
  BY <1>3 DEF Each, Upgrading, Provided, Furnishing, Chosen, Runs
<1>5. Apart
  BY <1>3 DEF Apart, Runs
<1>6. Bound
  BY <1>1 DEF Bound, NoProject
<1>7. Housed
  BY <1>1, <1>3 DEF Housed, NoProject, Record
<1> QED  BY <1>2, <1>4, <1>5, <1>6, <1>7 DEF AddInv

\* What no step of a command does to the others.
Considerate(c) ==
  /\ policy.kind = "whole" => policy'.kind = "whole" /\ policy'.repo = policy.repo
  /\ policy.kind = "torn" /\ command[c].pc # "write policy" => policy' = policy
  /\ project.kind = "whole" => project' = project
  /\ project.kind = "torn" /\ project.by # c => project' = project
  /\ \A d \in Commands : d # c => temporary'[d] = temporary[d]

LEMMA OthersKeep ==
  ASSUME AddInv, NEW c \in Commands, Runs(c), Considerate(c), NEW d \in Commands, d # c,
         command'[d] = command[d]
  PROVE  Each(d)'
<1>1. Each(d) /\ temporary'[d] = temporary[d] /\ (Runs(d) => ~command[d].alone)
      /\ (command[d].pc = "write policy" => command[c].pc # "write policy")
  BY DEF AddInv, Apart, Considerate
<1>2. command[d].alone => ~Runs(d)
  BY <1>1
<1>3. command[d].pc \in {"snapshot"} \cup Upgrading => Runs(d)
  BY DEF Runs, Upgrading
<1> QED
  BY <1>1, <1>2, <1>3 DEF Each, Considerate, Repo, Id, Runs

\* A step of a running command.
LEMMA Acts ==
  ASSUME AddInv, NEW c \in Commands, Runs(c), NEW s \in CommandState,
         command' = [command EXCEPT ![c] = s], s.pc # "idle", s.alone = command[c].alone,
         s.request = command[c].request, Considerate(c), AddTypeOK', Each(c)',
         project'.by \in {project.by, c},
         s.pc = "write policy" => \A d \in Commands : d # c => command[d].pc # "write policy",
         Bound', Housed'
  PROVE  AddInv'
<1>1. command \in [Commands -> CommandState]
  BY DEF AddInv, AddTypeOK
<1>2. command'[c] = s /\ \A d \in Commands : d # c => command'[d] = command[d]
  BY <1>1
<1>3. \A d \in Commands : Each(d)'
  BY <1>2, OthersKeep
<1>4. Apart'
  BY <1>2 DEF AddInv, Apart, Runs
<1> QED  BY <1>3, <1>4 DEF AddInv

\* A step that leaves what is on disk alone.
LEMMA Looks ==
  ASSUME AddInv, NEW c \in Commands, Runs(c), NEW s \in CommandState, UNCHANGED onDisk,
         command' = [command EXCEPT ![c] = s], s.pc \notin {"idle", "write policy", "cloned"},
         s.alone = command[c].alone, s.request = command[c].request, Each(c)'
  PROVE  AddInv'
<1>1. command \in [Commands -> CommandState]
  BY DEF AddInv, AddTypeOK
<1>2. command'[c] = s /\ (\A d \in Commands : d # c => command'[d] = command[d])
      /\ \A d \in Commands : command'[d].request = command[d].request /\ command'[d].alone = command[d].alone
  BY <1>1
<1>3. UNCHANGED <<policy, workspace, project, temporary>>
  BY DEF onDisk
<1>4. AddTypeOK'
  BY <1>1, <1>3 DEF AddInv, AddTypeOK
<1>5. Considerate(c)
  BY <1>3 DEF Considerate
<1>6. Bound'
  <2>1. project.by # Unset => project.by \in Commands
    BY DEF AddInv, AddTypeOK
  <2>2. project.by # Unset => command'[project.by].pc # "idle"
    BY <1>1, <1>2, <2>1 DEF AddInv, Bound
  <2> QED  BY <1>2, <1>3, <2>1, <2>2 DEF AddInv, Bound, Id
<1>7. Housed'
  BY <1>2, <1>3 DEF AddInv, Housed, OneAfterTheOther
<1> QED  BY <1>2, <1>3, <1>4, <1>5, <1>6, <1>7, Acts

\* A command ends with an error.
LEMMA Ends ==
  ASSUME AddInv, NEW c \in Commands, Runs(c), UNCHANGED onDisk,
         NEW result \in {"refused", "failed", "killed"}, Finish(c, result)
  PROVE  AddInv'
<1> DEFINE s == [command[c] EXCEPT !.pc = "end", !.result = result]
<1>1. command \in [Commands -> CommandState] /\ Each(c)
  BY DEF AddInv, AddTypeOK
<1>2. /\ s \in CommandState /\ command' = [command EXCEPT ![c] = s]
      /\ s.pc = "end" /\ s.result = result /\ s.alone = command[c].alone
      /\ s.request = command[c].request /\ s.mode = command[c].mode
  BY <1>1 DEF Finish, CommandState
<1> HIDE DEF s
<1>3. command'[c] = s
  BY <1>1, <1>2
<1>4. Each(c)'
  BY <1>1, <1>2, <1>3 DEF Each, Runs, onDisk, Upgrading, Provided, Furnishing, Chosen, Repo
<1>5. UNCHANGED onDisk
  OBVIOUS
<1> QED  BY <1>2, <1>4, <1>5, Looks

\* A command goes on.
LEMMA Goes ==
  ASSUME AddInv, NEW c \in Commands, Runs(c), UNCHANGED onDisk,
         NEW pc \in {"choose", "preflight", "snapshot", "temporary", "prepare", "clone",
                     "furnish", "register"},
         NEW s \in CommandState, s.pc = pc, s.alone = command[c].alone, s.request = command[c].request,
         s.result = command[c].result,
         command' = [command EXCEPT ![c] = s],
         pc = "temporary" => policy.kind = "whole" /\ policy.repo = Repo(c),
         pc \in Chosen /\ s.mode = "plain" => Id(c) = Plain,
         s.mode = "completed" => project.kind = "whole" /\ project.repo = Repo(c),
         pc \in {"clone", "furnish", "register"} /\ Id(c) # Plain => policy.kind = "whole" /\ policy.repo = Repo(c),
         s.alone /\ pc \in {"snapshot", "temporary"} => project.kind = "absent",
         s.alone /\ (s.found \/ pc \in Furnishing) => OriginFits(c)
  PROVE  AddInv'
<1>1. command \in [Commands -> CommandState] /\ Each(c)
  BY DEF AddInv, AddTypeOK
<1>2. command'[c] = s
  BY <1>1
<1>3. UNCHANGED <<policy, workspace, project, temporary>>
  BY DEF onDisk
<1>4. Repo(c)' = Repo(c) /\ Id(c)' = Id(c)
  BY <1>2 DEF Repo, Id
<1>5. OriginFits(c) => OriginFits(c)'
  BY <1>3, <1>4 DEF OriginFits
<1>6. command[c].pc # "idle" /\ command[c].request \in Requests
  BY <1>1 DEF Runs, Each
<1>7. s.pc # "doctor" /\ (s.result = "ok" => project.kind = "whole" /\ project.repo = Repo(c))
  BY <1>1 DEF Each
<1>8. Each(c)'
  BY <1>2, <1>3, <1>4, <1>5, <1>6, <1>7 DEF Each, Upgrading, Provided, Chosen
<1> QED  BY <1>8, Looks

LEMMA ChooseStep ==
  ASSUME AddInv, NEW c \in Commands, LookAtWorkspace(c) \/ ChooseMode(c) \/ Preflight(c)
  PROVE  AddInv'
<1>0. /\ command \in [Commands -> CommandState] /\ command[c] \in CommandState /\ Each(c)
      /\ UNCHANGED onDisk
  BY DEF AddInv, AddTypeOK, LookAtWorkspace, ChooseMode, Preflight
<1>1. Runs(c) /\ command[c].pc \in {"look", "choose", "preflight"}
  BY DEF LookAtWorkspace, ChooseMode, Preflight, Doing, Runs
<1>2. CASE RefuseAdd(c)
  BY <1>0, <1>1, <1>2, Ends DEF RefuseAdd
<1>3. CASE command[c].pc = "look" /\ (\/ Proceed(c, "choose")
                                      \/ OriginFits(c) /\ command' = [command EXCEPT ![c].pc = "choose", ![c].found = TRUE])
  <2>1. \E s \in CommandState :
          /\ command' = [command EXCEPT ![c] = s] /\ s.pc = "choose" /\ s.alone = command[c].alone
          /\ s.request = command[c].request /\ s.mode = command[c].mode /\ s.result = command[c].result
          /\ s.found => command[c].found \/ OriginFits(c)
    <3>1. CASE Proceed(c, "choose")
      <4> DEFINE s == [command[c] EXCEPT !.pc = "choose"]
      <4>1. s \in CommandState /\ command' = [command EXCEPT ![c] = s]
        BY <1>0, <3>1 DEF Proceed, CommandState
      <4>2. s.pc = "choose" /\ s.alone = command[c].alone /\ s.request = command[c].request
            /\ s.mode = command[c].mode /\ s.result = command[c].result /\ s.found = command[c].found
        BY <1>0 DEF CommandState
      <4> HIDE DEF s
      <4> QED  BY <4>1, <4>2
    <3>2. CASE OriginFits(c) /\ command' = [command EXCEPT ![c].pc = "choose", ![c].found = TRUE]
      <4> DEFINE s == [command[c] EXCEPT !.pc = "choose", !.found = TRUE]
      <4>1. s \in CommandState /\ command' = [command EXCEPT ![c] = s]
        BY <1>0, <3>2 DEF CommandState
      <4>2. s.pc = "choose" /\ s.alone = command[c].alone /\ s.request = command[c].request
            /\ s.mode = command[c].mode /\ s.result = command[c].result
        BY <1>0 DEF CommandState
      <4> HIDE DEF s
      <4> QED  BY <3>2, <4>1, <4>2
    <3> QED  BY <1>3, <3>1, <3>2
  <2>2. PICK s \in CommandState :
          /\ command' = [command EXCEPT ![c] = s] /\ s.pc = "choose" /\ s.alone = command[c].alone
          /\ s.request = command[c].request /\ s.mode = command[c].mode /\ s.result = command[c].result
          /\ s.found => command[c].found \/ OriginFits(c)
    BY <2>1
  <2>3. /\ s.mode = "completed" => project.kind = "whole" /\ project.repo = Repo(c)
        /\ s.alone /\ s.found => OriginFits(c)
    BY <1>0, <1>1, <2>2 DEF Each
  <2>4. "choose" \notin Chosen /\ "choose" \notin Furnishing
    BY DEF Chosen, Upgrading, Provided, Furnishing
  <2> QED  BY <1>0, <1>1, <2>2, <2>3, <2>4, Goes
<1>4. CASE command[c].pc = "choose" /\ Mode(c) # "refused"
             /\ command' = [command EXCEPT ![c].pc = "preflight", ![c].mode = Mode(c)]
  <2> DEFINE s == [command[c] EXCEPT !.pc = "preflight", !.mode = Mode(c)]
  <2>1. /\ Mode(c) \in {"plain", "fresh", "present", "upgrade", "completed"}
        /\ Mode(c) = "plain" => Id(c) = Plain
        /\ Mode(c) = "completed" => project.kind = "whole" /\ project.repo = Repo(c)
    BY <1>4 DEF Mode
  <2>2. s \in CommandState /\ command' = [command EXCEPT ![c] = s] /\ s.pc = "preflight"
        /\ s.alone = command[c].alone /\ s.request = command[c].request /\ s.mode = Mode(c)
        /\ s.result = command[c].result /\ s.found = command[c].found
    BY <1>0, <1>4, <2>1 DEF CommandState
  <2> HIDE DEF s
  <2>3. s.alone /\ s.found => OriginFits(c)
    BY <1>0, <1>1, <2>2 DEF Each
  <2>4. "preflight" \notin Furnishing
    BY DEF Furnishing
  <2> QED  BY <1>0, <1>1, <2>1, <2>2, <2>3, <2>4, Goes
<1>5. CASE /\ command[c].pc = "preflight"
           /\ \/ Proceed(c, "prepare")
              \/ project.kind = "absent" /\ Proceed(c, "snapshot")
  <2>1. PICK pc \in {"prepare", "snapshot"} :
          Proceed(c, pc) /\ (pc = "snapshot" => project.kind = "absent")
    BY <1>5
  <2> DEFINE s == [command[c] EXCEPT !.pc = pc]
  <2>2. s \in CommandState /\ command' = [command EXCEPT ![c] = s] /\ s.pc = pc
        /\ s.alone = command[c].alone /\ s.request = command[c].request /\ s.mode = command[c].mode
        /\ s.result = command[c].result /\ s.found = command[c].found
    BY <1>0, <2>1 DEF CommandState, Proceed
  <2> HIDE DEF s
  <2>3. /\ s.alone /\ s.found => OriginFits(c)
        /\ s.mode = "completed" => project.kind = "whole" /\ project.repo = Repo(c)
        /\ s.mode = "plain" => Id(c) = Plain
    BY <1>0, <1>1, <1>5, <2>2 DEF Each, Chosen
  <2>4. pc \notin Furnishing
    BY DEF Furnishing
  <2> QED  BY <1>0, <1>1, <2>1, <2>2, <2>3, <2>4, Goes
<1> QED  BY <1>2, <1>3, <1>4, <1>5 DEF LookAtWorkspace, ChooseMode, Preflight, Doing

\* A step that touches the policy or its temporary file.
LEMMA Writes ==
  ASSUME AddInv, NEW c \in Commands, Runs(c), NEW s \in CommandState,
         UNCHANGED <<workspace, project>>,
         policy' \in [kind : {"absent", "torn", "whole"}, repo : Origins \cup {Unset},
                      id : Ids \cup {Legacy, Plain, Unset}],
         NEW kind \in {"absent", "torn", "whole"}, temporary' = [temporary EXCEPT ![c] = kind],
         command' = [command EXCEPT ![c] = s], s.pc \notin {"idle", "cloned"},
         s.alone = command[c].alone, s.request = command[c].request,
         s.pc = "write policy" => \A d \in Commands : d # c => command[d].pc # "write policy",
         Considerate(c), Each(c)'
  PROVE  AddInv'
<1>1. command \in [Commands -> CommandState] /\ temporary \in [Commands -> {"absent", "torn", "whole"}]
  BY DEF AddInv, AddTypeOK
<1>2. command'[c] = s /\ (\A d \in Commands : d # c => command'[d] = command[d])
      /\ \A d \in Commands : command'[d].request = command[d].request /\ command'[d].alone = command[d].alone
  BY <1>1
<1>4. AddTypeOK'
  BY <1>1 DEF AddInv, AddTypeOK
<1>6. Bound'
  <2>1. project.by # Unset => project.by \in Commands
    BY DEF AddInv, AddTypeOK
  <2>2. project.by # Unset => command'[project.by].pc # "idle"
    BY <1>1, <1>2, <2>1 DEF AddInv, Bound
  <2> QED  BY <1>2, <2>1, <2>2 DEF AddInv, Bound, Id, Considerate
<1>7. Housed'
  BY <1>2 DEF AddInv, Housed, OneAfterTheOther
<1> QED  BY <1>2, <1>4, <1>6, <1>7, Acts

LEMMA UpgradeStep ==
  ASSUME AddInv, NEW c \in Commands,
         SnapshotLegacy(c) \/ OpenTemporary(c) \/ WriteTemporary(c) \/ SnapshotAgain(c) \/ ReplacePolicy(c)
  PROVE  AddInv'
<1>0. /\ command \in [Commands -> CommandState] /\ command[c] \in CommandState /\ Each(c)
      /\ temporary \in [Commands -> {"absent", "torn", "whole"}]
      /\ policy \in [kind : {"absent", "torn", "whole"}, repo : Origins \cup {Unset},
                      id : Ids \cup {Legacy, Plain, Unset}]
      /\ UNCHANGED <<workspace, project>>
  BY DEF AddInv, AddTypeOK, SnapshotLegacy, OpenTemporary, WriteTemporary, SnapshotAgain, ReplacePolicy, onDisk
<1>1. Runs(c) /\ command[c].pc \in {"snapshot"} \cup Upgrading
  BY DEF SnapshotLegacy, OpenTemporary, WriteTemporary, SnapshotAgain, ReplacePolicy, Doing, Runs, Upgrading
<1>2. command[c].request \in Requests /\ Repo(c) \in Origins /\ Id(c) \in Ids \cup {Legacy, Plain}
  BY <1>0, <1>1, RequestAssumption DEF Each, Runs, Repo, Id, Origins, Request
<1>3. CASE SnapshotLegacy(c)
  <2>1. CASE RefuseAdd(c)
    BY <1>0, <1>1, <1>3, <2>1, Ends DEF SnapshotLegacy, RefuseAdd
  <2>2. CASE StillLegacy(c) /\ Proceed(c, "temporary")
    <3> DEFINE s == [command[c] EXCEPT !.pc = "temporary"]
    <3>1. s \in CommandState /\ command' = [command EXCEPT ![c] = s] /\ s.pc = "temporary"
          /\ s.alone = command[c].alone /\ s.request = command[c].request /\ s.mode = command[c].mode
          /\ s.result = command[c].result /\ s.found = command[c].found
      BY <1>0, <2>2 DEF CommandState, Proceed
    <3> HIDE DEF s
    <3>2. /\ s.alone /\ s.found => OriginFits(c)
          /\ s.mode = "completed" => project.kind = "whole" /\ project.repo = Repo(c)
          /\ s.mode = "plain" => Id(c) = Plain
          /\ s.alone => project.kind = "absent"
      BY <1>0, <1>1, <1>3, <3>1 DEF Each, Chosen, SnapshotLegacy, Doing
    <3>3. policy.kind = "whole" /\ policy.repo = Repo(c)
      BY <2>2 DEF StillLegacy, Policy
    <3>4. UNCHANGED onDisk /\ "temporary" \notin Furnishing
      BY <1>3 DEF SnapshotLegacy, Furnishing
    <3> QED  BY <1>1, <3>1, <3>2, <3>3, <3>4, Goes
  <2> QED  BY <1>3, <2>1, <2>2 DEF SnapshotLegacy
<1>4. ASSUME policy' = policy, NEW kind \in {"absent", "torn", "whole"},
             temporary' = [temporary EXCEPT ![c] = kind],
             NEW pc \in {"fill", "snapshot again", "replace"}, Proceed(c, pc),
             command[c].pc \in Upgrading, pc # "fill" => kind = "whole"
      PROVE  AddInv'
  <2> DEFINE s == [command[c] EXCEPT !.pc = pc]
  <2>1. s \in CommandState /\ command' = [command EXCEPT ![c] = s] /\ s.pc = pc
        /\ s.alone = command[c].alone /\ s.request = command[c].request /\ s.mode = command[c].mode
        /\ s.result = command[c].result /\ s.found = command[c].found
    BY <1>0, <1>4 DEF CommandState, Proceed
  <2> HIDE DEF s
  <2>2. command'[c] = s /\ temporary'[c] = kind
    BY <1>0, <1>4, <2>1
  <2>3. Repo(c)' = Repo(c) /\ Id(c)' = Id(c) /\ (OriginFits(c) => OriginFits(c)')
    BY <1>0, <2>1, <2>2 DEF Repo, Id, OriginFits
  <2>4. Each(c)'
    BY <1>0, <1>1, <1>4, <2>1, <2>2, <2>3 DEF Each, Upgrading, Provided, Furnishing, Chosen, Runs
  <2>5. Considerate(c)
    BY <1>0, <1>4 DEF Considerate
  <2> QED  BY <1>0, <1>1, <1>4, <2>1, <2>4, <2>5, Writes
<1>5. CASE OpenTemporary(c)
  BY <1>5, <1>4 DEF OpenTemporary, Doing, Upgrading
<1>6. CASE WriteTemporary(c)
  BY <1>6, <1>4 DEF WriteTemporary, Doing, Upgrading
<1>7. CASE SnapshotAgain(c)
  <2>1. CASE Proceed(c, "replace") /\ UNCHANGED temporary
    <3>1. temporary[c] = "whole" /\ command[c].pc \in Upgrading
      BY <1>0, <1>7 DEF Each, SnapshotAgain, Doing, Upgrading
    <3>2. temporary' = [temporary EXCEPT ![c] = "whole"] /\ policy' = policy
      BY <1>0, <1>7, <2>1, <3>1 DEF SnapshotAgain
    <3> QED  BY <2>1, <3>1, <3>2, <1>4
  <2>2. CASE RefuseAdd(c) /\ temporary' = [temporary EXCEPT ![c] = "absent"]
    <3> DEFINE s == [command[c] EXCEPT !.pc = "end", !.result = "refused"]
    <3>1. s \in CommandState /\ command' = [command EXCEPT ![c] = s] /\ s.pc = "end"
          /\ s.alone = command[c].alone /\ s.request = command[c].request /\ s.mode = command[c].mode
          /\ s.result = "refused"
      BY <1>0, <2>2 DEF CommandState, RefuseAdd, Finish
    <3> HIDE DEF s
    <3>2. command'[c] = s /\ policy' = policy
      BY <1>0, <1>7, <3>1 DEF SnapshotAgain
    <3>3. Each(c)'
      BY <1>0, <1>1, <1>2, <3>1, <3>2 DEF Each, Upgrading, Provided, Furnishing, Chosen, Runs, Repo
    <3>4. Considerate(c)
      BY <1>0, <2>2, <3>2 DEF Considerate
    <3> QED  BY <1>0, <1>1, <2>2, <3>1, <3>2, <3>3, <3>4, Writes
  <2> QED  BY <1>7, <2>1, <2>2 DEF SnapshotAgain
<1>8. CASE ReplacePolicy(c)
  <2>1. /\ temporary[c] = "whole" /\ policy.kind = "whole" /\ policy.repo = Repo(c)
        /\ command[c].pc = "replace"
    BY <1>0, <1>8 DEF Each, ReplacePolicy, Doing, Upgrading
  <2>2. /\ policy' = Policy(Repo(c), Id(c)) /\ policy'.kind = "whole" /\ policy'.repo = Repo(c)
        /\ policy' \in [kind : {"absent", "torn", "whole"}, repo : Origins \cup {Unset},
                        id : Ids \cup {Legacy, Plain, Unset}]
        /\ temporary' = [temporary EXCEPT ![c] = "absent"]
    BY <1>2, <1>8, <2>1 DEF ReplacePolicy, Wanted, Policy
  <2> DEFINE s == [command[c] EXCEPT !.pc = "prepare"]
  <2>3. s \in CommandState /\ command' = [command EXCEPT ![c] = s] /\ s.pc = "prepare"
        /\ s.alone = command[c].alone /\ s.request = command[c].request /\ s.mode = command[c].mode
        /\ s.result = command[c].result /\ s.found = command[c].found
    BY <1>0, <1>8 DEF CommandState, ReplacePolicy, Proceed
  <2> HIDE DEF s
  <2>4. command'[c] = s
    BY <1>0, <2>3
  <2>5. Repo(c)' = Repo(c) /\ Id(c)' = Id(c) /\ (OriginFits(c) => OriginFits(c)')
    BY <1>0, <2>3, <2>4 DEF Repo, Id, OriginFits
  <2>6. Each(c)'
    BY <1>0, <1>1, <1>2, <2>1, <2>3, <2>4, <2>5 DEF Each, Upgrading, Provided, Furnishing, Chosen, Runs
  <2>7. Considerate(c)
    BY <1>0, <2>1, <2>2 DEF Considerate
  <2> QED  BY <1>0, <1>1, <2>2, <2>3, <2>6, <2>7, Writes
<1> QED  BY <1>3, <1>5, <1>6, <1>7, <1>8

\* What every step of a running command may start from.
LEMMA Known ==
  ASSUME AddInv, NEW c \in Commands, Runs(c)
  PROVE  /\ command \in [Commands -> CommandState] /\ command[c] \in CommandState /\ Each(c)
         /\ temporary \in [Commands -> {"absent", "torn", "whole"}]
         /\ policy \in [kind : {"absent", "torn", "whole"}, repo : Origins \cup {Unset},
                        id : Ids \cup {Legacy, Plain, Unset}]
         /\ workspace \in [kind : {"absent", "partial", "whole"}, repo : Origins \cup {Unset}]
         /\ project \in [kind : {"absent", "torn", "whole"}, repo : Origins \cup {Unset},
                         by : Commands \cup {Unset}]
         /\ command[c].request \in Requests /\ Repo(c) \in Origins /\ Id(c) \in Ids \cup {Legacy, Plain}
         /\ temporary = [temporary EXCEPT ![c] = temporary[c]]
<1>1. Each(c) /\ command[c].request \in Requests
  BY DEF AddInv, Each, Runs
<1>2. Repo(c) \in Origins /\ Id(c) \in Ids \cup {Legacy, Plain}
  BY <1>1, RequestAssumption DEF Repo, Id, Origins, Request
<1> QED  BY <1>1, <1>2 DEF AddInv, AddTypeOK

\* A command that goes to another place and changes nothing else of itself.
LEMMA Proceeds ==
  ASSUME AddInv, NEW c \in Commands, Runs(c), UNCHANGED onDisk,
         NEW pc \in {"clone", "furnish", "register"}, Proceed(c, pc),
         Id(c) # Plain => policy.kind = "whole" /\ policy.repo = Repo(c),
         command[c].pc \in Chosen,
         command[c].alone /\ (command[c].found \/ pc # "clone") => OriginFits(c)
  PROVE  AddInv'
<1> DEFINE s == [command[c] EXCEPT !.pc = pc]
<1>1. /\ s \in CommandState /\ command' = [command EXCEPT ![c] = s] /\ s.pc = pc
      /\ s.alone = command[c].alone /\ s.request = command[c].request /\ s.mode = command[c].mode
      /\ s.result = command[c].result /\ s.found = command[c].found
  BY Known DEF CommandState, Proceed
<1> HIDE DEF s
<1>2. /\ s.mode = "plain" => Id(c) = Plain
      /\ s.mode = "completed" => project.kind = "whole" /\ project.repo = Repo(c)
  BY <1>1, Known DEF Each
<1>3. UNCHANGED onDisk
  OBVIOUS
<1>4. pc = "clone" => pc \notin Furnishing
  BY DEF Furnishing
<1>5. s.alone /\ (s.found \/ pc \in Furnishing) => OriginFits(c)
  BY <1>1, <1>4
<1> QED  BY <1>1, <1>2, <1>3, <1>5, Goes

LEMMA PolicyStep ==
  ASSUME AddInv, NEW c \in Commands, PreparePolicy(c) \/ WritePolicy(c)
  PROVE  AddInv'
<1>0. Runs(c) /\ command[c].pc \in {"prepare", "write policy"} /\ command[c].pc \in Chosen
      /\ UNCHANGED <<workspace, project, temporary>>
  BY DEF PreparePolicy, WritePolicy, Doing, Runs, Chosen
<1>a. command[c].alone /\ command[c].found => OriginFits(c)
  BY <1>0, Known DEF Each
<1>1. CASE UNCHANGED policy /\ RefuseAdd(c)
  BY <1>0, <1>1, Ends DEF RefuseAdd, onDisk
<1>2. CASE UNCHANGED policy /\ command[c].mode = "plain" /\ Proceed(c, "clone")
  <2>1. Id(c) = Plain
    BY <1>0, <1>2, Known DEF Each
  <2> QED  BY <1>0, <1>a, <1>2, <2>1, Proceeds DEF onDisk
<1>3. CASE UNCHANGED policy /\ policy = Wanted(c) /\ Proceed(c, "clone")
  <2>1. policy.kind = "whole" /\ policy.repo = Repo(c)
    BY <1>3 DEF Wanted, Policy
  <2> QED  BY <1>0, <1>a, <1>3, <2>1, Proceeds DEF onDisk
<1>4. ASSUME NEW pc \in {"write policy", "clone"}, Proceed(c, pc), Considerate(c),
             policy' \in [kind : {"absent", "torn", "whole"}, repo : Origins \cup {Unset},
                          id : Ids \cup {Legacy, Plain, Unset}],
             pc = "clone" => policy'.kind = "whole" /\ policy'.repo = Repo(c),
             pc = "write policy" => policy.kind = "absent" /\ policy'.kind = "torn"
      PROVE  AddInv'
  <2> DEFINE s == [command[c] EXCEPT !.pc = pc]
  <2>1. s \in CommandState /\ command' = [command EXCEPT ![c] = s] /\ s.pc = pc
        /\ s.alone = command[c].alone /\ s.request = command[c].request /\ s.mode = command[c].mode
        /\ s.result = command[c].result /\ s.found = command[c].found
    BY <1>0, <1>4, Known DEF CommandState, Proceed
  <2> HIDE DEF s
  <2>2. command'[c] = s
    BY <1>0, <2>1, Known
  <2>3. Repo(c)' = Repo(c) /\ Id(c)' = Id(c) /\ (OriginFits(c) => OriginFits(c)')
    BY <1>0, <2>1, <2>2 DEF Repo, Id, OriginFits
  <2>4. Each(c) /\ command[c].request \in Requests /\ project' = project
    BY <1>0, Known
  <2>5. Each(c)'
    BY <1>0, <1>a, <1>4, <2>1, <2>2, <2>3, <2>4 DEF Each, Upgrading, Provided, Furnishing, Chosen, Runs
  <2>6. pc = "write policy" => \A d \in Commands : d # c => command[d].pc # "write policy"
    BY <1>4 DEF AddInv, Each
  <2>7. temporary' = [temporary EXCEPT ![c] = temporary[c]] /\ temporary[c] \in {"absent", "torn", "whole"}
    BY <1>0, Known
  <2> QED  BY <1>0, <1>4, <2>1, <2>5, <2>6, <2>7, Writes
<1>5. CASE policy.kind = "absent" /\ policy' = TornPolicy /\ Proceed(c, "write policy")
  <2>1. policy' \in [kind : {"absent", "torn", "whole"}, repo : Origins \cup {Unset},
                     id : Ids \cup {Legacy, Plain, Unset}] /\ policy'.kind = "torn"
    BY <1>5 DEF TornPolicy, NoPolicy
  <2>2. Considerate(c)
    BY <1>0, <1>5 DEF Considerate
  <2> QED  BY <1>4, <1>5, <2>1, <2>2
<1>6. CASE WritePolicy(c)
  <2>1. /\ policy' \in [kind : {"absent", "torn", "whole"}, repo : Origins \cup {Unset},
                        id : Ids \cup {Legacy, Plain, Unset}]
        /\ policy'.kind = "whole" /\ policy'.repo = Repo(c) /\ Proceed(c, "clone")
    BY <1>0, <1>6, Known DEF WritePolicy, Wanted, Policy
  <2>2. policy.kind = "torn" /\ command[c].pc = "write policy"
    BY <1>0, <1>6, Known DEF WritePolicy, Doing, Each
  <2>3. Considerate(c)
    BY <1>0, <2>2 DEF Considerate
  <2> QED  BY <1>4, <2>1, <2>3
<1> QED  BY <1>0, <1>1, <1>2, <1>3, <1>5, <1>6 DEF PreparePolicy

LEMMA CloneStep ==
  ASSUME AddInv, NEW c \in Commands, StartClone(c) \/ CloneEnds(c) \/ ValidateClone(c)
  PROVE  AddInv'
<1>0. Runs(c) /\ command[c].pc \in {"clone", "cloned", "validate"} /\ command[c].pc \in Chosen
      /\ UNCHANGED <<policy, project, temporary>>
  BY DEF StartClone, CloneEnds, EndClone, ValidateClone, Doing, Runs, Chosen, Provided, onDisk
<1>a. command[c].alone /\ command[c].found => OriginFits(c)
  BY <1>0, Known DEF Each
<1>b. Id(c) # Plain => policy.kind = "whole" /\ policy.repo = Repo(c)
  BY <1>0, Known DEF Each, Provided
<1>1. CASE UNCHANGED workspace /\ \E result \in {"refused", "failed"} : Finish(c, result)
  BY <1>0, <1>1, Ends DEF onDisk
<1>2. CASE UNCHANGED workspace /\ Proceed(c, "furnish") /\ (command[c].found \/ OriginFits(c))
  BY <1>0, <1>a, <1>b, <1>2, Proceeds DEF onDisk
<1>3. ASSUME NEW pc \in {"cloned", "validate"}, NEW cloning \in BOOLEAN, ~command[c].found,
             command' = [command EXCEPT ![c].pc = pc, ![c].cloning = cloning],
             workspace' \in [kind : {"absent", "partial", "whole"}, repo : Origins \cup {Unset}],
             workspace' # workspace /\ OneAfterTheOther => project.kind # "whole",
             pc = "cloned" /\ cloning /\ OneAfterTheOther => project.kind # "whole"
      PROVE  AddInv'
  <2> DEFINE s == [command[c] EXCEPT !.pc = pc, !.cloning = cloning]
  <2>1. s \in CommandState /\ command' = [command EXCEPT ![c] = s] /\ s.pc = pc
        /\ s.alone = command[c].alone /\ s.request = command[c].request /\ s.mode = command[c].mode
        /\ s.result = command[c].result /\ s.found = command[c].found /\ s.cloning = cloning
    BY <1>0, <1>3, Known DEF CommandState
  <2> HIDE DEF s
  <2>2. command'[c] = s /\ (\A d \in Commands : d # c => command'[d] = command[d])
        /\ \A d \in Commands : command'[d].request = command[d].request /\ command'[d].alone = command[d].alone
    BY <1>0, <2>1, Known
  <2>3. Repo(c)' = Repo(c) /\ Id(c)' = Id(c)
    BY <2>1, <2>2 DEF Repo, Id
  <2>4. Each(c) /\ command[c].request \in Requests
    BY <1>0, Known
  <2>5. Each(c)'
    BY <1>0, <1>3, <2>1, <2>2, <2>3, <2>4 DEF Each, Upgrading, Provided, Furnishing, Chosen
  <2>6. AddTypeOK'
    BY <1>0, <1>3, <2>1, Known DEF AddTypeOK
  <2>7. Bound'
    <3>1. project.by # Unset => project.by \in Commands
      BY DEF AddInv, AddTypeOK
    <3>2. project.by # Unset => command'[project.by].pc # "idle"
      BY <2>1, <2>2, <3>1 DEF AddInv, Bound
    <3> QED  BY <1>0, <2>2, <3>1, <3>2 DEF AddInv, Bound, Id
  <2>8. OneAfterTheOther' => OneAfterTheOther
    BY <2>2 DEF OneAfterTheOther
  <2>9. Housed'
    BY <1>0, <1>3, <2>1, <2>2, <2>8 DEF AddInv, Housed
  <2>10. Considerate(c)
    BY <1>0 DEF Considerate
  <2> QED  BY <1>0, <2>1, <2>5, <2>6, <2>7, <2>9, <2>10, Acts
<1>4. CASE StartClone(c) /\ ~command[c].found /\ ~RefuseAdd(c)
  <2>1. /\ command' = [command EXCEPT ![c].pc = "cloned", ![c].cloning = workspace.kind = "absent"]
        /\ workspace' = IF workspace.kind = "absent" THEN Record("partial", Repo(c)) ELSE workspace
    BY <1>4 DEF StartClone
  <2>2. workspace' \in [kind : {"absent", "partial", "whole"}, repo : Origins \cup {Unset}]
    BY <1>0, <2>1, Known DEF Record
  <2>3. workspace.kind = "absent" /\ OneAfterTheOther => project.kind # "whole"
    BY DEF AddInv, Housed
  <2> QED  BY <1>3, <1>4, <2>1, <2>2, <2>3
<1>5. CASE CloneEnds(c)
  <2>1. PICK end \in {Record("whole", Repo(c)), NoWorkspace} : EndClone(c, end)
    BY <1>5 DEF CloneEnds
  <2>2. /\ command' = [command EXCEPT ![c].pc = "validate", ![c].cloning = FALSE]
        /\ workspace' = IF command[c].cloning THEN end ELSE workspace
        /\ command[c].pc = "cloned"
    BY <2>1 DEF EndClone, Doing
  <2>3. workspace' \in [kind : {"absent", "partial", "whole"}, repo : Origins \cup {Unset}]
    BY <1>0, <2>2, Known DEF Record, NoWorkspace
  <2>4. command[c].cloning /\ OneAfterTheOther => project.kind # "whole"
    BY <2>2 DEF AddInv, Housed
  <2>5. ~command[c].found
    BY <1>0, <2>2, Known DEF Each
  <2> QED  BY <1>3, <2>2, <2>3, <2>4, <2>5
<1>6. CASE StartClone(c)
  <2>1. CASE command[c].found
    BY <1>2, <1>6, <2>1 DEF StartClone
  <2>2. CASE ~command[c].found /\ RefuseAdd(c)
    <3>1. CASE UNCHANGED workspace
      BY <1>1, <2>2, <3>1 DEF RefuseAdd
    <3>2. CASE command' = [command EXCEPT ![c].pc = "cloned", ![c].cloning = workspace.kind = "absent"]
      <4>1. command'[c].pc = "cloned"
        BY <1>0, <3>2, Known DEF CommandState
      <4>2. command'[c].pc = "end"
        BY <1>0, <2>2, Known DEF CommandState, RefuseAdd, Finish
      <4> QED  BY <4>1, <4>2
    <3> QED  BY <1>6, <2>2, <3>1, <3>2 DEF StartClone
  <2> QED  BY <1>4, <1>6, <2>1, <2>2
<1>7. CASE ValidateClone(c)
  <2>1. UNCHANGED workspace
    BY <1>7 DEF ValidateClone, onDisk
  <2>2. CASE OriginFits(c) /\ Proceed(c, "furnish")
    BY <1>2, <2>1, <2>2
  <2>3. CASE \E result \in {"refused", "failed"} : Finish(c, result)
    BY <1>1, <2>1, <2>3
  <2> QED  BY <1>7, <2>2, <2>3 DEF ValidateClone
<1> QED  BY <1>5, <1>6, <1>7

\* A command ends well.
LEMMA Succeeds ==
  ASSUME AddInv, NEW c \in Commands, Runs(c), UNCHANGED onDisk, Finish(c, "ok"),
         project.kind = "whole", project.repo = Repo(c)
  PROVE  AddInv'
<1> DEFINE s == [command[c] EXCEPT !.pc = "end", !.result = "ok"]
<1>1. /\ s \in CommandState /\ command' = [command EXCEPT ![c] = s]
      /\ s.pc = "end" /\ s.result = "ok" /\ s.alone = command[c].alone
      /\ s.request = command[c].request /\ s.mode = command[c].mode
  BY Known DEF Finish, CommandState
<1> HIDE DEF s
<1>2. command'[c] = s
  BY <1>1, Known
<1>3. UNCHANGED onDisk /\ project' = project /\ command[c].request \in Requests
  BY Known DEF onDisk
<1>4. Repo(c)' = Repo(c)
  BY <1>1, <1>2 DEF Repo
<1>5. Each(c)'
  BY <1>1, <1>2, <1>3, <1>4 DEF Each, Runs, Upgrading, Provided, Furnishing, Chosen
<1> QED  BY <1>1, <1>3, <1>5, Looks

\* A command writes the project.
LEMMA Registers ==
  ASSUME AddInv, NEW c \in Commands, Runs(c), command[c].pc \in {"register", "record"},
         UNCHANGED <<policy, workspace, temporary>>,
         NEW pc \in {"record", "doctor", "end"}, NEW result \in {command[c].result, "ok"},
         command' = [command EXCEPT ![c].pc = pc, ![c].result = result],
         project' \in [kind : {"torn", "whole"}, repo : Origins \cup {Unset}, by : {c}],
         project.kind = "absent" \/ (project.kind = "torn" /\ project.by = c),
         IF pc = "record" THEN project'.kind = "torn" /\ result = command[c].result
         ELSE project'.kind = "whole" /\ project'.repo = Repo(c)
  PROVE  AddInv'
<1> DEFINE s == [command[c] EXCEPT !.pc = pc, !.result = result]
<1>1. result \in {"none", "ok", "refused", "failed", "killed"}
  <2>1. command[c] \in CommandState
    BY Known
  <2> QED  BY <2>1 DEF CommandState
<1>2. /\ s \in CommandState /\ command' = [command EXCEPT ![c] = s]
      /\ s.pc = pc /\ s.result = result /\ s.alone = command[c].alone
      /\ s.request = command[c].request /\ s.mode = command[c].mode /\ s.found = command[c].found
  <2>1. command[c] \in CommandState /\ command \in [Commands -> CommandState]
    BY Known
  <2> QED  BY <1>1, <2>1 DEF CommandState
<1> HIDE DEF s
<1>3. command'[c] = s /\ (\A d \in Commands : d # c => command'[d] = command[d])
      /\ \A d \in Commands : command'[d].request = command[d].request /\ command'[d].alone = command[d].alone
  BY <1>2, Known
<1>4. Repo(c)' = Repo(c) /\ Id(c)' = Id(c) /\ (OriginFits(c) => OriginFits(c)')
  BY <1>3 DEF Repo, Id, OriginFits
<1>5. /\ Each(c) /\ command[c].request \in Requests
      /\ command[c].mode # "completed" /\ command[c].result # "ok"
      /\ Id(c) # Plain => policy.kind = "whole" /\ policy.repo = Repo(c)
      /\ command[c].alone => OriginFits(c)
      /\ command[c].mode = "plain" => Id(c) = Plain
  BY Known DEF Each, Provided, Furnishing, Chosen
<1>6. Each(c)'
  BY <1>2, <1>3, <1>4, <1>5 DEF Each, Runs, Upgrading, Provided, Furnishing, Chosen
<1>7. AddTypeOK'
  <2>1. project' \in [kind : {"absent", "torn", "whole"}, repo : Origins \cup {Unset},
                      by : Commands \cup {Unset}]
    OBVIOUS
  <2> QED  BY <1>2, <2>1, Known DEF AddTypeOK
<1>8. Bound'
  BY <1>2, <1>3, <1>4, <1>5 DEF Bound
<1>9. Housed'
  <2> SUFFICES ASSUME OneAfterTheOther' PROVE Housed'
    BY DEF Housed
  <2>1. \A d \in Commands : command[d].alone
    BY <1>3 DEF OneAfterTheOther
  <2>2. \A d \in Commands : command'[d].pc # "cloned"
    BY <1>2, <1>3, <2>1 DEF AddInv, Apart, Runs
  <2>3. project'.kind = "whole" => workspace'.kind # "absent" /\ workspace'.repo = project'.repo
    BY <1>5, <2>1 DEF OriginFits
  <2> QED  BY <2>2, <2>3 DEF Housed
<1>10. Considerate(c)
  BY DEF Considerate
<1> QED  BY <1>2, <1>6, <1>7, <1>8, <1>9, <1>10, Acts

LEMMA RecordStep ==
  ASSUME AddInv, NEW c \in Commands,
         Furnish(c) \/ Register(c) \/ WriteRecord(c) \/ \E result \in {"ok", "failed"} : Diagnose(c, result)
  PROVE  AddInv'
<1>0. Runs(c) /\ command[c].pc \in Furnishing
  BY DEF Furnish, Register, WriteRecord, Diagnose, Doing, Runs, Furnishing
<1>1. /\ Each(c) /\ Repo(c) \in Origins /\ command[c] \in CommandState
      /\ command \in [Commands -> CommandState]
      /\ command[c].alone => OriginFits(c)
      /\ command[c].pc # "doctor" /\ Id(c) # Plain => policy.kind = "whole" /\ policy.repo = Repo(c)
  BY <1>0, Known DEF Each, Furnishing, Provided
<1>2. CASE Furnish(c)
  <2>1. UNCHANGED onDisk /\ command[c].pc = "furnish" /\ command[c].pc \in Chosen
    BY <1>2 DEF Furnish, Doing, Chosen, Provided
  <2>2. CASE command[c].mode = "completed" /\ Finish(c, "ok")
    <3>1. project.kind = "whole" /\ project.repo = Repo(c)
      BY <1>1, <2>2 DEF Each
    <3> QED  BY <1>0, <2>1, <2>2, <3>1, Succeeds
  <2>3. CASE Proceed(c, "register")
    BY <1>0, <1>1, <2>1, <2>3, Proceeds
  <2> QED  BY <1>2, <2>2, <2>3 DEF Furnish
<1>3. CASE Register(c)
  <2>1. /\ command[c].pc = "register" /\ UNCHANGED <<policy, workspace, temporary>>
    BY <1>3 DEF Register, Doing
  <2>2. CASE RefuseAdd(c) /\ UNCHANGED project
    BY <1>0, <2>1, <2>2, Ends DEF RefuseAdd, onDisk
  <2>3. CASE project.kind = "absent" /\ project' = [kind |-> "torn", repo |-> Unset, by |-> c]
             /\ Proceed(c, "record")
    <3>1. command' = [command EXCEPT ![c].pc = "record", ![c].result = command[c].result]
      BY <1>1, <2>3 DEF Proceed, CommandState
    <3>2. project' \in [kind : {"torn", "whole"}, repo : Origins \cup {Unset}, by : {c}]
          /\ project'.kind = "torn"
      BY <2>3
    <3> QED  BY <1>0, <2>1, <2>3, <3>1, <3>2, Registers
  <2> QED  BY <1>3, <2>2, <2>3 DEF Register
<1>4. CASE WriteRecord(c)
  <2>1. /\ command[c].pc = "record" /\ UNCHANGED <<policy, workspace, temporary>>
        /\ project' = [kind |-> "whole", repo |-> Repo(c), by |-> c]
    BY <1>4 DEF WriteRecord, Doing
  <2>2. project.kind = "torn" /\ project.by = c
    BY <1>1, <2>1 DEF Each
  <2>3. project' \in [kind : {"torn", "whole"}, repo : Origins \cup {Unset}, by : {c}]
        /\ project'.kind = "whole" /\ project'.repo = Repo(c)
    BY <1>1, <2>1
  <2>4. CASE Proceed(c, "doctor")
    <3>1. command' = [command EXCEPT ![c].pc = "doctor", ![c].result = command[c].result]
      BY <1>1, <2>4 DEF Proceed, CommandState
    <3> QED  BY <1>0, <2>1, <2>2, <2>3, <3>1, Registers
  <2>5. CASE Finish(c, "ok")
    <3>1. command' = [command EXCEPT ![c].pc = "end", ![c].result = "ok"]
      BY <2>5 DEF Finish
    <3> QED  BY <1>0, <2>1, <2>2, <2>3, <3>1, Registers
  <2> QED  BY <1>4, <2>4, <2>5 DEF WriteRecord
<1>5. ASSUME NEW result \in {"ok", "failed"}, Diagnose(c, result) PROVE AddInv'
  <2>1. UNCHANGED onDisk /\ command[c].pc = "doctor" /\ Finish(c, result)
    BY <1>5 DEF Diagnose, Doing
  <2>2. project.kind = "whole" /\ project.repo = Repo(c)
    BY <1>1, <2>1 DEF Each
  <2>3. CASE result = "ok"
    BY <1>0, <2>1, <2>2, <2>3, Succeeds
  <2>4. CASE result = "failed"
    BY <1>0, <2>1, <2>4, Ends
  <2> QED  BY <2>3, <2>4
<1> QED  BY <1>2, <1>3, <1>4, <1>5

LEMMA StopStep ==
  ASSUME AddInv, NEW c \in Commands, AddFails(c) \/ AddKilled(c)
  PROVE  AddInv'
<1>1. CASE AddKilled(c)
  BY <1>1, Ends DEF AddKilled
<1>2. CASE AddFails(c)
  <2>0. Runs(c) /\ UNCHANGED <<policy, workspace, project>> /\ Finish(c, "failed")
        /\ temporary' = [temporary EXCEPT ![c] = "absent"]
    BY <1>2 DEF AddFails
  <2> DEFINE s == [command[c] EXCEPT !.pc = "end", !.result = "failed"]
  <2>1. /\ s \in CommandState /\ command' = [command EXCEPT ![c] = s]
        /\ s.pc = "end" /\ s.result = "failed" /\ s.alone = command[c].alone
        /\ s.request = command[c].request /\ s.mode = command[c].mode
    BY <2>0, Known DEF Finish, CommandState
  <2> HIDE DEF s
  <2>2. command'[c] = s
    BY <2>0, <2>1, Known
  <2>3. Each(c) /\ command[c].request \in Requests
    BY <2>0, Known
  <2>4. Repo(c)' = Repo(c)
    BY <2>1, <2>2 DEF Repo
  <2>5. Each(c)'
    BY <2>0, <2>1, <2>2, <2>3, <2>4 DEF Each, Runs, Upgrading, Provided, Furnishing, Chosen
  <2>6. Considerate(c)
    BY <2>0, Known DEF Considerate
  <2>7. policy' \in [kind : {"absent", "torn", "whole"}, repo : Origins \cup {Unset},
                     id : Ids \cup {Legacy, Plain, Unset}]
    BY <2>0, Known
  <2> QED  BY <2>0, <2>1, <2>5, <2>6, <2>7, Writes
<1> QED  BY <1>1, <1>2

LEMMA BeginStep ==
  ASSUME AddInv, NEW c \in Commands, NEW request \in Requests, BeginAdd(c, request)
  PROVE  AddInv'
<1> DEFINE others == {d \in Commands : Runs(d)}
           s == [Waiting EXCEPT !.pc = "look", !.request = request, !.alone = others = {}]
           Kept(d) == [command[d] EXCEPT !.alone = @ /\ d \notin others]
<1>0. /\ command[c].pc = "idle" /\ UNCHANGED <<policy, workspace, project, temporary>>
      /\ command' = [d \in Commands |-> IF d = c THEN s ELSE Kept(d)]
  BY DEF BeginAdd, Doing, onDisk
<1>1. command \in [Commands -> CommandState] /\ \A d \in Commands : Each(d)
  BY DEF AddInv, AddTypeOK
<1>2. /\ s \in CommandState /\ s.pc = "look" /\ s.request = request /\ (s.alone <=> others = {})
      /\ ~s.found /\ s.mode = "plain" /\ s.result = "none"
  BY DEF CommandState, Waiting
<1>3. ASSUME NEW d \in Commands
      PROVE  /\ Kept(d) \in CommandState /\ Kept(d).pc = command[d].pc
             /\ Kept(d).request = command[d].request /\ Kept(d).found = command[d].found
             /\ Kept(d).mode = command[d].mode /\ Kept(d).cloning = command[d].cloning
             /\ Kept(d).result = command[d].result
             /\ Kept(d).alone <=> command[d].alone /\ ~Runs(d)
  BY <1>1 DEF CommandState
<1> HIDE DEF s, Kept
<1>4. command'[c] = s /\ \A d \in Commands : d # c => command'[d] = Kept(d)
  BY <1>0
<1>5. ~Runs(c) /\ command[c].alone
  BY <1>0, <1>1 DEF Runs, Each
<1>6. AddTypeOK'
  <2>1. command' \in [Commands -> CommandState]
    BY <1>0, <1>2, <1>3
  <2> QED  BY <1>0, <2>1 DEF AddInv, AddTypeOK
<1>7. Each(c)'
  BY <1>2, <1>4 DEF Each, Runs, Upgrading, Provided, Furnishing, Chosen
<1>8. ASSUME NEW d \in Commands, d # c PROVE Each(d)'
  <2>1. /\ command'[d].pc = command[d].pc /\ command'[d].request = command[d].request
        /\ command'[d].found = command[d].found /\ command'[d].mode = command[d].mode
        /\ command'[d].result = command[d].result
        /\ command'[d].alone <=> command[d].alone /\ ~Runs(d)
    BY <1>3, <1>4, <1>8
  <2>2. Repo(d)' = Repo(d) /\ Id(d)' = Id(d) /\ Runs(d)' = Runs(d)
    BY <2>1 DEF Repo, Id, Runs
  <2>3. OriginFits(d)' = OriginFits(d)
    BY <1>0, <2>2 DEF OriginFits
  <2>4. Each(d) /\ (command[d].pc = "idle" => ~Runs(d))
    BY <1>1 DEF Runs
  <2> QED  BY <1>0, <2>1, <2>2, <2>3, <2>4 DEF Each
<1>9. Apart'
  <2>1. \A d \in Commands : d # c => (Runs(d)' <=> Runs(d)) /\ (Runs(d) => ~command'[d].alone)
    BY <1>3, <1>4 DEF Runs
  <2>2. \A d \in Commands : d # c /\ Runs(d) => ~s.alone
    BY <1>2
  <2>3. \A d, e \in Commands : d # e /\ Runs(d)' /\ Runs(e)' => ~command'[d].alone
    BY <1>4, <2>1, <2>2
  <2>4. \A d \in Commands : command'[d].pc = "write policy" => command[d].pc = "write policy"
    BY <1>2, <1>3, <1>4
  <2>5. \A d, e \in Commands : d # e /\ command'[d].pc = "write policy" => command'[e].pc # "write policy"
    BY <2>4 DEF AddInv, Apart
  <2> QED  BY <2>3, <2>5 DEF Apart
<1>10. Bound'
  <2>1. project.by # Unset => project.by \in Commands /\ project.by # c
    BY <1>0 DEF AddInv, AddTypeOK, Bound
  <2>2. project.by # Unset => command'[project.by].pc = command[project.by].pc
                              /\ command'[project.by].request = command[project.by].request
    BY <1>3, <1>4, <2>1
  <2> QED  BY <1>0, <2>2 DEF AddInv, Bound, Id
<1>11. Housed'
  <2>1. OneAfterTheOther' => OneAfterTheOther
    BY <1>3, <1>4, <1>5 DEF OneAfterTheOther
  <2>2. \A d \in Commands : command'[d].pc = "cloned" /\ command'[d].cloning
                            => command[d].pc = "cloned" /\ command[d].cloning
    BY <1>2, <1>3, <1>4
  <2> QED  BY <1>0, <2>1, <2>2 DEF AddInv, Housed
<1> QED  BY <1>6, <1>7, <1>8, <1>9, <1>10, <1>11 DEF AddInv

LEMMA AddStepInv == AddInv /\ [AddNext]_addVars => AddInv'
<1> SUFFICES ASSUME AddInv, [AddNext]_addVars PROVE AddInv'
  OBVIOUS
<1>1. CASE UNCHANGED addVars
  <2>1. UNCHANGED <<policy, workspace, project, temporary, command>>
    BY <1>1 DEF addVars, onDisk
  <2>2. AddTypeOK'
    BY <2>1 DEF AddInv, AddTypeOK
  <2>3. \A c \in Commands : Each(c)'
    BY <2>1 DEF AddInv, Each, Repo, Id, Runs, OriginFits
  <2>4. Apart' /\ Bound' /\ Housed'
    BY <2>1 DEF AddInv, Apart, Bound, Housed, OneAfterTheOther, Runs, Id
  <2> QED  BY <2>2, <2>3, <2>4 DEF AddInv
<1>2. ASSUME NEW c \in Commands, Add(c) PROVE AddInv'
  <2>1. CASE \E request \in Requests : BeginAdd(c, request)
    BY <2>1, BeginStep
  <2>2. CASE LookAtWorkspace(c) \/ ChooseMode(c) \/ Preflight(c)
    BY <2>2, ChooseStep
  <2>3. CASE SnapshotLegacy(c) \/ OpenTemporary(c) \/ WriteTemporary(c) \/ SnapshotAgain(c) \/ ReplacePolicy(c)
    BY <2>3, UpgradeStep
  <2>4. CASE PreparePolicy(c) \/ WritePolicy(c)
    BY <2>4, PolicyStep
  <2>5. CASE StartClone(c) \/ CloneEnds(c) \/ ValidateClone(c)
    BY <2>5, CloneStep
  <2>6. CASE Furnish(c) \/ Register(c) \/ WriteRecord(c) \/ \E result \in {"ok", "failed"} : Diagnose(c, result)
    BY <2>6, RecordStep
  <2>7. CASE AddFails(c) \/ AddKilled(c)
    BY <2>7, StopStep
  <2> QED  BY <1>2, <2>1, <2>2, <2>3, <2>4, <2>5, <2>6, <2>7 DEF Add
<1> QED  BY <1>1, <1>2 DEF AddNext

\* What a command relies on holds whatever other commands do (_add_project).
THEOREM AddInvariant == AddSpec => []AddInv
BY AddInitInv, AddStepInv, PTL DEF AddSpec

\* A registered project is usable and has a policy of its repository, and where commands ran
\* one after the other a workspace of it, for any number of commands and requests
\* (_add_project, ProjectRecord.write).
THEOREM RegisteredFitsAlways == AddSpec => []RegisteredFits
<1>1. AddInv => RegisteredFits
  <2> SUFFICES ASSUME AddInv PROVE RegisteredFits
    OBVIOUS
  <2>1. \A c \in Commands : command[c].result = "ok" => project.kind = "whole" /\ project.repo = Repo(c)
    BY DEF AddInv, Each
  <2> QED  BY <2>1 DEF AddInv, Bound, Housed, RegisteredFits
<1> QED  BY <1>1, AddInvariant, PTL

\* A policy that can be read stays readable and of its repository, and the one of a registered
\* project the very same where commands ran one after the other
\* (upgrade_legacy_broker_policy, write_broker_policy).
THEOREM PoliciesEndure == AddSpec => PolicyEndures
<1> DEFINE A == policy.kind = "whole" =>
       /\ policy'.kind = "whole" /\ policy'.repo = policy.repo
       /\ project.kind # "absent" /\ OneAfterTheOther => policy' = policy
<1>1. AddInv /\ [AddNext]_addVars => [A]_addVars
  <2> SUFFICES ASSUME AddInv, policy.kind = "whole", NEW c \in Commands, Add(c) PROVE A
    BY DEF AddNext
  <2>1. CASE policy' = policy
    BY <2>1
  <2>2. CASE ReplacePolicy(c)
    <3>1. command[c].pc = "replace" /\ Each(c)
      BY <2>2 DEF ReplacePolicy, Doing, AddInv
    <3>2. /\ policy.repo = Repo(c) /\ temporary[c] = "whole"
          /\ command[c].alone => project.kind = "absent"
      BY <3>1 DEF Each, Upgrading
    <3>3. policy'.kind = "whole" /\ policy'.repo = policy.repo
      BY <2>2, <3>2 DEF ReplacePolicy, Wanted, Policy
    <3> QED  BY <3>2, <3>3 DEF OneAfterTheOther
  <2>3. CASE PreparePolicy(c)
    BY <2>3 DEF PreparePolicy
  <2>4. CASE WritePolicy(c)
    BY <2>4 DEF WritePolicy, Doing, AddInv, Each
  <2>5. Add(c) => policy' = policy \/ ReplacePolicy(c) \/ PreparePolicy(c) \/ WritePolicy(c)
    BY DEF Add, BeginAdd, LookAtWorkspace, ChooseMode, Preflight, SnapshotLegacy, OpenTemporary,
       WriteTemporary, SnapshotAgain, StartClone, CloneEnds, EndClone, ValidateClone, Furnish,
       Register, WriteRecord, Diagnose, AddFails, AddKilled, onDisk
  <2> QED  BY <2>1, <2>2, <2>3, <2>4, <2>5
<1> QED  BY <1>1, AddInvariant, PTL DEF AddSpec, PolicyEndures

-----------------------------------------------------------------------------
(* The credential: what is found unchanged later was in place together.    *)

Signing == {"sign", "names", "key name", "contents", "key contents", "exchange"}

\* Every writing is older than the next one, and so is every inode.
Numbered ==
  /\ \A i \in Inodes : disk[i].writing < installs + 2
  /\ \A which \in {"app", "key"} : installed[which] < installs + 3
  /\ approval.app.file.writing < installs + 2 /\ approval.key.file.writing < installs + 2
  /\ approval.app.inode < installs + 3 /\ approval.key.inode < installs + 3
  /\ <<disk[installed["app"]].writing, disk[installed["key"]].writing>> \in together

Same(opened) == opened.inode \in Inodes /\ disk[opened.inode] = opened.file
Paired == <<approval.app.file.writing, approval.key.file.writing>> \in together

\* What is still to be looked at, if it is found unchanged, was in place together with what
\* has been looked at.
Proven ==
  /\ approval.pc \in {"open key"} \cup Signing =>
       approval.app.inode \in Inodes /\ approval.app.file.app \in Apps
  /\ approval.pc \in Signing => approval.key.inode \in Inodes
  /\ approval.pc = "key name" =>
       (installed["key"] = approval.key.inode /\ Same(approval.app) /\ Same(approval.key) => Paired)
  /\ approval.pc = "contents" => (Same(approval.app) /\ Same(approval.key) => Paired)
  /\ approval.pc = "key contents" => (Same(approval.key) => Paired)
  /\ approval.pc = "exchange" => Paired

\* The token of the inventory stays in the cache until it ages.
Tied ==
  /\ approval.pc \in {"inventory", "issue"} => cached \in Tokens
  /\ cached \in Tokens /\ ~approval.aged => cached.fresh
  /\ approval.pc = "issue" => approval.use = "issue"
  /\ approval.use = "issue" \/ approval.pc = "recheck" => approval.verified \in Nat
  /\ approval.verified \in Nat /\ ~approval.aged =>
       cached \in Tokens /\ cached.serial = approval.verified /\ approval.pc \notin Signing
  /\ approval.sent # Nothing =>
       /\ approval.pc \in {"created", "unknown"} /\ approval.verified \in Nat
       /\ approval.sent = approval.verified \/ approval.aged

CredentialInv == CredentialTypeOK /\ Numbered /\ Proven /\ Tied

USE CredentialAssumption

LEMMA CredentialInitInv == CredentialInit => CredentialInv
<1> SUFFICES ASSUME CredentialInit PROVE CredentialInv
  OBVIOUS
<1>1. PICK a \in Apps : disk = [i \in Inodes |-> File(IF i \in {1, 2} THEN 1 ELSE 0, a)]
  BY DEF CredentialInit
<1>2. /\ disk \in [Inodes -> [writing : Nat, app : Apps]] /\ {1, 2} \subseteq Inodes
      /\ \A i \in Inodes : disk[i].writing \in {0, 1}
      /\ disk[1].writing = 1 /\ disk[2].writing = 1
  BY <1>1 DEF File, Inodes
<1>3. NoFile \in OpenedFile /\ NoFile.file.writing = 0 /\ NoFile.inode = 0
  BY DEF NoFile, File, OpenedFile
<1>4. CredentialTypeOK
  BY <1>2, <1>3 DEF CredentialInit, CredentialTypeOK, ApprovalState
<1>5. Numbered
  BY <1>2, <1>3 DEF CredentialInit, Numbered
<1>6. Proven /\ Tied
  BY DEF CredentialInit, Proven, Tied, Signing
<1> QED  BY <1>4, <1>5, <1>6 DEF CredentialInv

\* A file comes: nothing that was read before it is found unchanged where it came.
LEMMA PutStep ==
  ASSUME CredentialInv, NEW which \in {"app", "key"}, NEW app \in Apps,
         ReplaceFile(which, app) \/ RewriteFile(which, app)
  PROVE  CredentialInv'
<1> DEFINE inode == installed'[which]
<1>1. /\ installs \in Nat /\ installs' = installs + 1 /\ installs < MaxInstalls
      /\ inode \in Inodes /\ inode < installs' + 3 /\ (inode = installs + 3 \/ installed' = installed)
      /\ installed' = [installed EXCEPT ![which] = inode]
      /\ disk' = [disk EXCEPT ![inode] = File(installs + 2, app)]
      /\ together' = together \cup {<<disk'[installed'["app"]].writing, disk'[installed'["key"]].writing>>}
      /\ UNCHANGED <<reach, binding, cached, approval>>
  <2>1. PICK i : /\ Put(which, i, app) /\ i \in {installs + 3, installed[which]}
    BY DEF ReplaceFile, RewriteFile
  <2>2. installs \in Nat /\ installs < MaxInstalls /\ installed \in [{"app", "key"} -> Inodes]
        /\ installed[which] < installs + 3
    BY <2>1 DEF Put, Installing, CredentialInv, CredentialTypeOK, Numbered
  <2>3. i \in Inodes /\ inode = i /\ i < installs + 4
    BY <2>1, <2>2 DEF Put, Inodes
  <2>4. i = installs + 3 \/ installed' = installed
    BY <2>1, <2>2 DEF Put
  <2>5. together' = together \cup {<<disk'[installed'["app"]].writing, disk'[installed'["key"]].writing>>}
    BY <2>1 DEF Put
  <2>6. installed' = [installed EXCEPT ![which] = inode] /\ disk' = [disk EXCEPT ![inode] = File(installs + 2, app)]
    BY <2>1, <2>3 DEF Put
  <2>7. installs' = installs + 1 /\ UNCHANGED <<reach, binding, cached, approval>>
    BY <2>1 DEF Put, Installing
  <2>8. inode < installs' + 3
    BY <2>2, <2>3, <2>7
  <2> HIDE DEF inode
  <2> QED  BY <2>2, <2>3, <2>4, <2>5, <2>6, <2>7, <2>8
<1> HIDE DEF inode
<1>2. /\ disk' \in [Inodes -> [writing : Nat, app : Apps]] /\ disk'[inode].writing = installs + 2
      /\ \A i \in Inodes \ {inode} : disk'[i] = disk[i]
      /\ installed' \in [{"app", "key"} -> Inodes] /\ installs' \in 0..MaxInstalls
  BY <1>1 DEF CredentialInv, CredentialTypeOK, File
<1>3. together' \subseteq Nat \X Nat /\ together \subseteq together'
  BY <1>1, <1>2 DEF CredentialInv, CredentialTypeOK
<1>4. CredentialTypeOK'
  BY <1>1, <1>2, <1>3 DEF CredentialInv, CredentialTypeOK
<1>5. approval.app.file.writing \in Nat /\ approval.key.file.writing \in Nat
      /\ approval.app.inode \in Nat /\ approval.key.inode \in Nat
  <2>1. approval.app \in OpenedFile /\ approval.key \in OpenedFile
    BY DEF CredentialInv, CredentialTypeOK, ApprovalState
  <2> QED  BY <2>1 DEF OpenedFile
<1>6. Numbered'
  <2>1. \A i \in Inodes : disk'[i].writing < installs' + 2
    BY <1>1, <1>2 DEF CredentialInv, CredentialTypeOK, Numbered
  <2>2. \A w \in {"app", "key"} : installed'[w] < installs' + 3
    BY <1>1, <1>2 DEF CredentialInv, CredentialTypeOK, Numbered, Inodes
  <2>3. /\ approval.app.file.writing < installs' + 2 /\ approval.key.file.writing < installs' + 2
        /\ approval.app.inode < installs' + 3 /\ approval.key.inode < installs' + 3
    BY <1>1, <1>5 DEF CredentialInv, Numbered
  <2> QED  BY <1>1, <2>1, <2>2, <2>3 DEF Numbered
<1>7. ASSUME NEW opened \in {approval.app, approval.key}, Same(opened)'
      PROVE  Same(opened)
  <2>1. opened.inode # inode
    BY <1>1, <1>2, <1>5, <1>7 DEF Same, CredentialInv, Numbered
  <2> QED  BY <1>2, <1>7, <2>1 DEF Same
<1>8. installed'["key"] = approval.key.inode => installed["key"] = approval.key.inode
  BY <1>1, <1>5 DEF CredentialInv, CredentialTypeOK, Numbered
<1>9. Proven'
  <2>1. Same(approval.app)' => Same(approval.app)
    BY <1>1, <1>7 DEF Same
  <2>2. Same(approval.key)' => Same(approval.key)
    BY <1>1, <1>7 DEF Same
  <2>3. Paired => Paired'
    BY <1>1, <1>3 DEF Paired
  <2> QED  BY <1>1, <1>8, <2>1, <2>2, <2>3 DEF CredentialInv, Proven
<1>10. Tied'
  BY <1>1 DEF CredentialInv, Tied
<1> QED  BY <1>4, <1>6, <1>9, <1>10 DEF CredentialInv

\* What else others do.
LEMMA OtherStep ==
  ASSUME CredentialInv,
         \/ \E app \in Apps, repositories \in SUBSET Repositories : SelectRepositories(app, repositories)
         \/ \E r \in Repositories : Rebind(r)
         \/ Age
  PROVE  CredentialInv'
<1>1. CASE \/ \E app \in Apps, repositories \in SUBSET Repositories : SelectRepositories(app, repositories)
           \/ \E r \in Repositories : Rebind(r)
  <2>1. /\ installs' = installs + 1 /\ installs < MaxInstalls
        /\ UNCHANGED <<disk, installed, together, cached, approval>>
    BY <1>1 DEF SelectRepositories, Rebind, Installing
  <2>2. reach' \in [Apps -> SUBSET Repositories] /\ binding' \in Repositories
    BY <1>1 DEF SelectRepositories, Rebind, CredentialInv, CredentialTypeOK
  <2>3. CredentialTypeOK'
    BY <2>1, <2>2 DEF CredentialInv, CredentialTypeOK
  <2>4. Numbered'
    <3>1. /\ approval.app \in OpenedFile /\ approval.key \in OpenedFile
          /\ \A i \in Inodes : disk[i].writing \in Nat
          /\ \A which \in {"app", "key"} : installed[which] \in Nat
          /\ installs \in Nat
      <4>1. approval \in ApprovalState /\ installs \in Nat
        BY DEF CredentialInv, CredentialTypeOK
      <4>2. /\ \A i \in Inodes : disk[i].writing \in Nat
            /\ \A which \in {"app", "key"} : installed[which] \in Nat
        BY DEF CredentialInv, CredentialTypeOK, Inodes
      <4> QED  BY <4>1, <4>2 DEF ApprovalState
    <3> QED  BY <2>1, <3>1 DEF CredentialInv, Numbered, OpenedFile
  <2>5. Proven' /\ Tied'
    BY <2>1 DEF CredentialInv, Proven, Tied, Same, Paired
  <2> QED  BY <2>3, <2>4, <2>5 DEF CredentialInv
<1>2. CASE Age
  <2>1. /\ approval \in ApprovalState /\ approval' = [approval EXCEPT !.aged = TRUE]
        /\ UNCHANGED outsiders /\ cached \in Tokens /\ cached' = [cached EXCEPT !.fresh = FALSE]
    BY <1>2 DEF Age, CredentialInv, CredentialTypeOK
  <2>2. approval' \in ApprovalState /\ cached' \in Tokens
    BY <2>1 DEF ApprovalState, Tokens
  <2>3. /\ approval'.aged /\ approval'.app = approval.app /\ approval'.key = approval.key
        /\ approval'.pc = approval.pc /\ approval'.use = approval.use
        /\ approval'.verified = approval.verified /\ approval'.sent = approval.sent
    BY <2>1 DEF ApprovalState
  <2>4. CredentialTypeOK' /\ Numbered' /\ Proven'
    <3>1. CredentialTypeOK'
      BY <2>1, <2>2 DEF outsiders, CredentialInv, CredentialTypeOK
    <3>2. Numbered'
      BY <2>1, <2>3 DEF outsiders, CredentialInv, Numbered
    <3>3. Proven'
      <4>1. UNCHANGED <<disk, installed, together>>
        BY <2>1 DEF outsiders
      <4>2. (Same(approval.app)' <=> Same(approval.app)) /\ (Same(approval.key)' <=> Same(approval.key))
        BY <2>3, <4>1 DEF Same
      <4>3. Paired' <=> Paired
        BY <2>3, <4>1 DEF Paired
      <4> QED  BY <2>3, <4>1, <4>2, <4>3 DEF CredentialInv, Proven
    <3> QED  BY <3>1, <3>2, <3>3
  <2>5. Tied'
    BY <2>2, <2>3 DEF CredentialInv, Tied
  <2> QED  BY <2>4, <2>5 DEF CredentialInv
<1> QED  BY <1>1, <1>2

\* The provider: the opening of the two files and the signature.
LEMMA OpenStep ==
  ASSUME CredentialInv, OpenApp \/ OpenKey \/ SignToken
  PROVE  CredentialInv'
<1>0. /\ approval \in ApprovalState /\ cached \in Tokens \cup {Nothing}
      /\ installed \in [{"app", "key"} -> Inodes] /\ disk \in [Inodes -> [writing : Nat, app : Apps]]
      /\ UNCHANGED <<disk, installed, reach, binding, installs, cached>>
  BY DEF CredentialInv, CredentialTypeOK, OpenApp, OpenKey, SignToken, outsiders
<1>1. Opened("app") \in OpenedFile /\ Opened("key") \in OpenedFile
      /\ Opened("app").inode \in Inodes /\ Opened("key").inode \in Inodes
      /\ Opened("app").file.app \in Apps
      /\ Opened("app").inode < installs + 3 /\ Opened("key").inode < installs + 3
      /\ Opened("app").file.writing < installs + 2 /\ Opened("key").file.writing < installs + 2
  BY <1>0 DEF Opened, OpenedFile, Inodes, CredentialInv, Numbered
<1>2. CASE OpenApp
  <2>1. /\ approval' \in ApprovalState /\ approval'.pc = "open key" /\ approval'.app = Opened("app")
        /\ approval'.key = approval.key /\ approval'.use = approval.use /\ approval'.sent = approval.sent
        /\ approval'.verified = approval.verified /\ approval'.aged = approval.aged
        /\ approval.pc = "open app" /\ together' = together
    BY <1>0, <1>1, <1>2 DEF OpenApp, OnTurn, ApprovalState, outsiders
  <2>2. CredentialTypeOK'
    BY <1>0, <2>1 DEF CredentialInv, CredentialTypeOK
  <2>3. Numbered' /\ Proven'
    BY <1>0, <1>1, <2>1 DEF CredentialInv, Numbered, Proven, Signing
  <2>4. Tied'
    BY <1>0, <2>1 DEF CredentialInv, Tied, Signing
  <2> QED  BY <2>2, <2>3, <2>4 DEF CredentialInv
<1>3. CASE OpenKey
  <2>1. /\ approval' \in ApprovalState /\ approval'.key = Opened("key")
        /\ approval'.app = approval.app /\ approval'.use = approval.use /\ approval'.sent = approval.sent
        /\ approval'.verified = approval.verified /\ approval'.aged = approval.aged
        /\ approval.pc = "open key" /\ together' = together
        /\ approval'.pc \in {"inventory", "issue", "sign"}
        /\ approval'.pc = "sign" <=> ~(cached \in Tokens /\ cached.fresh)
        /\ approval'.pc # "sign" => approval'.pc = approval.use
    BY <1>0, <1>1, <1>3 DEF OpenKey, OnTurn, ApprovalState, outsiders
  <2>2. CredentialTypeOK'
    BY <1>0, <2>1 DEF CredentialInv, CredentialTypeOK
  <2>3. Numbered' /\ Proven'
    BY <1>0, <1>1, <2>1 DEF CredentialInv, Numbered, Proven, Signing
  <2>4. Tied'
    BY <1>0, <2>1 DEF CredentialInv, Tied, Signing
  <2> QED  BY <2>2, <2>3, <2>4 DEF CredentialInv
<1>4. CASE SignToken
  <2>1. /\ approval' \in ApprovalState /\ approval'.pc = "names" /\ approval.pc = "sign"
        /\ approval'.key = approval.key
        /\ approval'.app = approval.app /\ approval'.use = approval.use /\ approval'.sent = approval.sent
        /\ approval'.verified = approval.verified /\ approval'.aged = approval.aged
        /\ together' = {<<disk[installed["app"]].writing, disk[installed["key"]].writing>>}
    BY <1>0, <1>4 DEF SignToken, OnTurn, GoTo, ApprovalState
  <2>2. CredentialTypeOK'
    BY <1>0, <2>1 DEF CredentialInv, CredentialTypeOK
  <2>3. Numbered' /\ Proven'
    BY <1>0, <2>1 DEF CredentialInv, Numbered, Proven, Signing
  <2>4. Tied'
    BY <1>0, <2>1 DEF CredentialInv, Tied, Signing
  <2> QED  BY <2>2, <2>3, <2>4 DEF CredentialInv
<1> QED  BY <1>2, <1>3, <1>4

\* A step of the approval that opens nothing: where it goes, what it keeps.
LEMMA TurnStep ==
  ASSUME CredentialInv, UNCHANGED outsiders, approval' \in ApprovalState,
         cached' \in Tokens \cup {Nothing},
         approval'.app = approval.app, approval'.key = approval.key, Proven', Tied'
  PROVE  CredentialInv'
<1>1. CredentialTypeOK' /\ Numbered'
  BY DEF outsiders, CredentialInv, CredentialTypeOK, Numbered
<1> QED  BY <1>1 DEF CredentialInv

\* The second look, and the exchange of what was signed for a token.
LEMMA VerifyStep ==
  ASSUME CredentialInv,
         VerifyNames \/ VerifyKeyName \/ VerifyContents \/ VerifyKeyContents
  PROVE  CredentialInv'
<1>0. /\ approval \in ApprovalState /\ cached' = cached /\ cached \in Tokens \cup {Nothing}
      /\ UNCHANGED outsiders
  BY DEF CredentialInv, CredentialTypeOK, VerifyNames, VerifyKeyName, VerifyContents, VerifyKeyContents
<1>1. PICK pc \in {"key name", "contents", "key contents", "exchange", "denied", "pending"} :
        approval' = [approval EXCEPT !.pc = pc]
  BY DEF VerifyNames, VerifyKeyName, VerifyContents, VerifyKeyContents, GoTo, NoToken
<1>2. /\ approval' \in ApprovalState /\ approval'.pc = pc
      /\ approval'.key = approval.key /\ approval'.app = approval.app /\ approval'.use = approval.use
      /\ approval'.sent = approval.sent /\ approval'.verified = approval.verified
      /\ approval'.aged = approval.aged /\ approval.pc \in {"names", "key name", "contents", "key contents"}
  BY <1>0, <1>1 DEF ApprovalState, VerifyNames, VerifyKeyName, VerifyContents, VerifyKeyContents, OnTurn
<1>5. \/ pc \in {"denied", "pending"}
      \/ pc = "key name" /\ approval.pc = "names" /\ SameName("app", approval.app)
      \/ pc = "contents" /\ approval.pc = "key name" /\ SameName("key", approval.key)
      \/ pc = "key contents" /\ approval.pc = "contents" /\ SameContents(approval.app)
      \/ pc = "exchange" /\ approval.pc = "key contents" /\ SameContents(approval.key)
  BY <1>0, <1>1, <1>2
  DEF VerifyNames, VerifyKeyName, VerifyContents, VerifyKeyContents, GoTo, NoToken, OnTurn,
      ApprovalState
<1>3. Proven'
  <2>1. CASE pc \in {"denied", "pending"}
    BY <1>2, <2>1 DEF Proven, Signing
  <2>2. CASE pc = "key name"
    <3>1. SameName("app", approval.app) /\ approval.pc = "names"
      BY <1>5, <2>2
    <3>2. <<disk[installed["app"]].writing, disk[installed["key"]].writing>> \in together
      BY DEF CredentialInv, Numbered
    <3>3. installed["key"] = approval.key.inode /\ Same(approval.app) /\ Same(approval.key) => Paired
      BY <3>1, <3>2 DEF SameName, Same, Paired
    <3> QED  BY <1>0, <1>2, <2>2, <3>1, <3>3 DEF CredentialInv, Proven, Same, Paired, Signing, outsiders
  <2>3. CASE pc = "contents"
    <3>1. SameName("key", approval.key) /\ approval.pc = "key name"
      BY <1>5, <2>3
    <3> QED  BY <1>0, <1>2, <2>3, <3>1 DEF CredentialInv, Proven, Signing, Same, SameName, Paired, outsiders
  <2>4. CASE pc = "key contents"
    <3>1. SameContents(approval.app) /\ approval.pc = "contents"
      BY <1>5, <2>4
    <3> QED  BY <1>0, <1>2, <2>4, <3>1 DEF CredentialInv, Proven, Signing, Same, SameContents, Paired, outsiders
  <2>5. CASE pc = "exchange"
    <3>1. SameContents(approval.key) /\ approval.pc = "key contents"
      BY <1>5, <2>5
    <3> QED  BY <1>0, <1>2, <2>5, <3>1 DEF CredentialInv, Proven, Signing, Same, SameContents, Paired, outsiders
  <2> QED  BY <2>1, <2>2, <2>3, <2>4, <2>5
<1>4. Tied'
  BY <1>0, <1>2 DEF CredentialInv, Tied, Signing
<1> QED  BY <1>0, <1>2, <1>3, <1>4, TurnStep

LEMMA ExchangeStep == ASSUME CredentialInv, ExchangeToken  PROVE CredentialInv'
<1>0. approval \in ApprovalState /\ cached \in Tokens \cup {Nothing} /\ UNCHANGED outsiders
      /\ approval.pc = "exchange"
  BY DEF CredentialInv, CredentialTypeOK, ExchangeToken, OnTurn
<1>1. /\ approval' \in ApprovalState
      /\ approval'.key = approval.key /\ approval'.app = approval.app /\ approval'.use = approval.use
      /\ approval'.sent = approval.sent /\ approval'.verified = approval.verified
      /\ approval'.aged = approval.aged
      /\ \/ approval'.pc = approval.use /\ cached' \in Tokens /\ cached'.fresh
         \/ approval'.pc \in {"denied", "pending"} /\ cached' = cached
  <2>1. CASE approval.app.file.app = approval.key.file.app
    <3>1. approval.app.file.app \in Apps
      BY <1>0 DEF CredentialInv, Proven, Signing
    <3>2. cached' = [app |-> approval.app.file.app, serial |-> approval.issued + 1, fresh |-> TRUE]
      BY <2>1 DEF ExchangeToken
    <3>3. approval.issued \in Nat
      BY <1>0 DEF ApprovalState
    <3>4. cached' \in Tokens /\ cached'.fresh
      BY <3>1, <3>2, <3>3 DEF Tokens
    <3>5. \E n \in Nat : approval' = [approval EXCEPT !.pc = approval.use, !.issued = n]
      <4> DEFINE n == approval.issued + 1
      <4>1. n \in Nat
        BY <3>3
      <4>2. approval' = [approval EXCEPT !.pc = approval.use, !.issued = n]
        BY <2>1 DEF ExchangeToken
      <4> HIDE DEF n
      <4> QED  BY <4>1, <4>2
    <3>6. /\ approval' \in ApprovalState /\ approval'.pc = approval.use
          /\ approval'.key = approval.key /\ approval'.app = approval.app /\ approval'.use = approval.use
          /\ approval'.sent = approval.sent /\ approval'.verified = approval.verified
          /\ approval'.aged = approval.aged
      BY <1>0, <3>5 DEF ApprovalState
    <3> QED  BY <3>4, <3>6
  <2>2. CASE NoToken /\ UNCHANGED cached
    BY <1>0, <2>2 DEF NoToken, GoTo, ApprovalState
  <2> QED  BY <2>1, <2>2 DEF ExchangeToken
<1>2. Proven'
  BY <1>0, <1>1 DEF Proven, Signing, ApprovalState
<1>3. Tied'
  BY <1>0, <1>1 DEF CredentialInv, Tied, Signing, ApprovalState
<1> QED  BY <1>0, <1>1, <1>2, <1>3, TurnStep

\* The approval.
LEMMA ApprovalStep ==
  ASSUME CredentialInv,
         ShowBinding \/ BeginPreflight \/ VerifyInventory \/ BeginSending \/ PostIssue \/ ApprovalFails
  PROVE  CredentialInv'
<1>0. approval \in ApprovalState /\ cached' = cached /\ cached \in Tokens \cup {Nothing}
      /\ UNCHANGED outsiders /\ binding \in Repositories
  BY DEF CredentialInv, CredentialTypeOK, ShowBinding, BeginPreflight, VerifyInventory, BeginSending,
         PostIssue, ApprovalFails
<1>1. approval.pc \in {"inventory", "issue"} => cached \in Tokens /\ cached.serial \in Nat
  BY <1>0 DEF CredentialInv, Tied, Tokens
<1>2. /\ approval' \in ApprovalState /\ approval'.key = approval.key /\ approval'.app = approval.app
      /\ approval'.aged = approval.aged
  <2>1. CASE ShowBinding
    <3>1. approval' = [approval EXCEPT !.pc = "confirmed", !.shown = binding]
      BY <2>1 DEF ShowBinding
    <3> QED  BY <1>0, <3>1 DEF ApprovalState
  <2>2. CASE VerifyInventory
    <3>1. \/ approval' = [approval EXCEPT !.pc = "recheck", !.verified = cached.serial]
          \/ approval' = [approval EXCEPT !.pc = "denied"]
      BY <2>2 DEF VerifyInventory, GoTo
    <3> QED  BY <1>0, <1>1, <2>2, <3>1 DEF ApprovalState, VerifyInventory, OnTurn
  <2>3. CASE BeginSending
    <3>1. \E pc \in {"open app", "denied"} :
            approval' = [approval EXCEPT !.pc = pc, !.use = "issue"]
      BY <2>3 DEF BeginSending
    <3> QED  BY <1>0, <3>1 DEF ApprovalState
  <2>4. CASE PostIssue \/ ApprovalFails \/ BeginPreflight
    <3>1. \/ \E pc \in {"open app", "denied", "pending"} : approval' = [approval EXCEPT !.pc = pc]
          \/ \E pc \in {"created", "unknown"} :
                approval.pc = "issue" /\ approval' = [approval EXCEPT !.pc = pc, !.sent = cached.serial]
      BY <2>4 DEF PostIssue, ApprovalFails, BeginPreflight, NoToken, GoTo, OnTurn
    <3> QED  BY <1>0, <1>1, <3>1 DEF ApprovalState
  <2> QED  BY <2>1, <2>2, <2>3, <2>4
<1>3. approval'.pc \in {"confirmed", "open app", "denied", "pending", "recheck", "created", "unknown"}
  BY <1>0 DEF ApprovalState, ShowBinding, BeginPreflight, VerifyInventory, BeginSending,
         PostIssue, ApprovalFails, NoToken, GoTo, OnTurn
<1>4. Proven'
  BY <1>3 DEF Proven, Signing
<1>5. Tied'
  <2>1. CASE ShowBinding \/ BeginPreflight
    <3>1. approval'.use = approval.use /\ approval'.sent = approval.sent
          /\ approval'.verified = approval.verified /\ approval'.pc # "recheck"
          /\ approval.pc \in {"preview", "confirmed"}
      BY <1>0, <2>1 DEF ApprovalState, ShowBinding, BeginPreflight, GoTo, OnTurn
    <3> QED  BY <1>0, <1>2, <1>3, <3>1 DEF CredentialInv, Tied, Signing
  <2>2. CASE VerifyInventory
    <3>1. approval'.use = approval.use /\ approval'.sent = approval.sent /\ approval.pc = "inventory"
          /\ \/ approval'.pc = "recheck" /\ approval'.verified = cached.serial
             \/ approval'.pc = "denied" /\ approval'.verified = approval.verified
      BY <1>0, <2>2 DEF ApprovalState, VerifyInventory, GoTo, OnTurn
    <3> QED  BY <1>0, <1>1, <1>2, <1>3, <3>1 DEF CredentialInv, Tied, Signing
  <2>3. CASE BeginSending
    <3>1. approval'.use = "issue" /\ approval'.sent = approval.sent /\ approval.pc = "recheck"
          /\ approval'.pc \in {"open app", "denied"} /\ approval'.verified = approval.verified
      BY <1>0, <2>3 DEF ApprovalState, BeginSending, OnTurn
    <3> QED  BY <1>0, <1>2, <1>3, <3>1 DEF CredentialInv, Tied, Signing
  <2>4. CASE PostIssue \/ ApprovalFails
    <3>1. /\ approval'.use = approval.use /\ approval'.verified = approval.verified
          /\ \/ /\ approval'.sent = cached.serial /\ approval.pc = "issue"
                /\ approval'.pc \in {"created", "unknown"}
             \/ /\ approval'.sent = approval.sent /\ approval'.pc \in {"denied", "pending"}
                /\ approval.pc \notin {"created", "unknown"}
      BY <1>0, <2>4 DEF ApprovalState, PostIssue, ApprovalFails, NoToken, GoTo, OnTurn
    <3> QED  BY <1>0, <1>1, <1>2, <1>3, <3>1 DEF CredentialInv, Tied, Signing
  <2> QED  BY <2>1, <2>2, <2>3, <2>4
<1> QED  BY <1>0, <1>2, <1>4, <1>5, TurnStep

LEMMA CredentialStepInv == CredentialInv /\ [CredentialNext]_credentialVars => CredentialInv'
<1> SUFFICES ASSUME CredentialInv, [CredentialNext]_credentialVars PROVE CredentialInv'
  OBVIOUS
<1>1. CASE UNCHANGED credentialVars
  BY <1>1 DEF credentialVars, outsiders, CredentialInv, CredentialTypeOK, Numbered, Proven, Same,
              Paired, Tied
<1> QED
  BY <1>1, PutStep, OtherStep, OpenStep, VerifyStep, ExchangeStep, ApprovalStep
  DEF CredentialNext, Operate, Approve

\* What an approval may still conclude from what it opened, and which token it holds
\* (FamilyOpenSSLSigner.sign, FamilyInstallationTokenProvider), hold in every state.
THEOREM CredentialInvariant == CredentialSpec => []CredentialInv
BY CredentialInitInv, CredentialStepInv, PTL DEF CredentialSpec

\* The App ID and the key a token is asked for with were installed together, however the
\* operator replaces the two files while they are read and signed with.
THEOREM PairsWereInstalled == CredentialSpec => []SignedPairWasInstalled
<1>1. CredentialInv => SignedPairWasInstalled
  BY DEF CredentialInv, Proven, Paired, SignedPairWasInstalled, OnTurn
<1> QED  BY <1>1, CredentialInvariant, PTL

\* The body is sent with the very token whose repository inventory was looked at, unless that
\* token ran out in between (FamilyIssueCreator.create).
THEOREM SentTokensAreVerified == CredentialSpec => []SentTokenWasVerified
<1>1. CredentialInv => SentTokenWasVerified
  BY DEF CredentialInv, Tied, SentTokenWasVerified
<1> QED  BY <1>1, CredentialInvariant, PTL

-----------------------------------------------------------------------------
(* The replay window: TypeOK and WindowExact are inductive together, and give *)
(* both that no number is consumed twice and that no late number is lost.  *)

USE WindowAssumption, SequenceAssumption

IInv == TypeOK /\ WindowExact

\* At the start the window is empty and so is the history.
LEMMA InitIInv == Init => IInv
<1> SUFFICES ASSUME Init PROVE IInv
  OBVIOUS
<1>1. closed \in BOOLEAN /\ WindowExact
  BY Zenon DEF Init, WindowExact
<1> QED  BY <1>1 DEF Init, IInv, TypeOK

\* What an age of the moved window stands for is what the same number stood for before.
LEMMA AdvanceExact ==
  ASSUME IInv, NEW n \in Numbers, n > highest, Advance(n), consumed' = consumed \cup {n}
  PROVE  WindowExact' /\ seen' \subseteq Ages /\ highest' = n
<1> DEFINE advance == n - highest
<1>1. highest' = n
  BY DEF Advance
<1>2. highest \in Nat /\ n \in Nat /\ advance \in Nat \ {0} /\ consumed \subseteq Nat
  BY DEF IInv, TypeOK, Numbers
<1>3. seen' \subseteq Ages
  BY DEF Advance, Ages
<1>4. \A m \in consumed' : m <= highest'
  BY <1>1, <1>2 DEF IInv, WindowExact
<1>5. ASSUME NEW a \in Ages
      PROVE  a \in seen' <=> highest' - a \in consumed'
  <2>1. a = 0 => a \in seen' /\ highest' - a \in consumed'
    BY <1>1, <1>2 DEF Advance, Ages
  <2>2. CASE a > 0 /\ a < advance
    <3>1. a \notin seen'
      <4>1. \A b \in seen : b + advance # a
        BY <2>2, <1>2 DEF IInv, TypeOK, Ages
      <4> QED  BY <4>1, <2>2 DEF Advance
    <3>2. n - a > highest /\ n - a # n
      BY <2>2, <1>2 DEF Ages
    <3>3. n - a \notin consumed
      BY <3>2, <1>2 DEF IInv, WindowExact, Ages
    <3> QED  BY <3>1, <3>2, <3>3, <1>1
  <2>3. CASE a > 0 /\ a >= advance
    <3>1. advance < Window
      BY <2>3, <1>2 DEF Ages
    <3>2. a - advance \in Ages
      BY <2>3, <1>2 DEF Ages
    <3>3. a \in seen' <=> a - advance \in seen
      <4>1. seen' = ({b + advance : b \in seen} \cup {0}) \cap Ages
        BY <3>1, <1>2 DEF Advance
      <4>2. \A b \in seen : b + advance = a <=> b = a - advance
        BY <2>3, <1>2 DEF IInv, TypeOK, Ages
      <4> QED  BY <4>1, <4>2, <2>3, <1>2
    <3>4. highest - (a - advance) = n - a /\ n - a # n
      BY <2>3, <1>2 DEF Ages
    <3>5. a - advance \in seen <=> n - a \in consumed
      BY <3>2, <3>4 DEF IInv, WindowExact
    <3> QED  BY <3>3, <3>4, <3>5, <1>1
  <2> QED  BY <2>1, <2>2, <2>3, <1>2 DEF Ages
<1> QED  BY <1>1, <1>3, <1>4, <1>5 DEF WindowExact

\* A number of the window that is filled in sets the bit of its own age and no other.
LEMMA FillExact ==
  ASSUME IInv, NEW n \in Numbers, n <= highest, highest - n < Window,
         seen' = seen \cup {highest - n}, highest' = highest, consumed' = consumed \cup {n}
  PROVE  WindowExact' /\ seen' \subseteq Ages
<1>1. highest \in Nat /\ n \in Nat /\ highest - n \in Ages
  BY DEF IInv, TypeOK, Numbers, Ages
<1>2. \A a \in Ages : a = highest - n <=> highest - a = n
  BY <1>1 DEF Ages
<1> QED  BY <1>1, <1>2 DEF IInv, TypeOK, WindowExact

\* Each step of the adapter and of the session keeps the window exact.
LEMMA NextIInv == IInv /\ [Next]_vars => IInv'
<1> SUFFICES ASSUME IInv, [Next]_vars PROVE IInv'
  OBVIOUS
<1>1. CASE Draw
  BY <1>1 DEF Draw, IInv, TypeOK, WindowExact
<1>2. CASE Deactivate
  BY <1>2 DEF Deactivate, IInv, TypeOK, WindowExact
<1>3. ASSUME NEW n \in Numbers, Send(n) PROVE IInv'
  BY <1>3 DEF Send, IInv, TypeOK, WindowExact, Numbers
<1>4. ASSUME NEW n \in Numbers, Authorize(n) PROVE IInv'
  <2>1. consumed' = consumed \cup {n} /\ next' = next /\ sent' = sent /\ closed' = closed
    BY <1>4 DEF Authorize
  <2>2. CASE n > highest
    <3>1. Advance(n)
      BY <1>4, <2>2 DEF Authorize, MarkSeen
    <3>2. WindowExact' /\ seen' \subseteq Ages /\ highest' = n
      BY <3>1, <2>1, <2>2, AdvanceExact
    <3> QED  BY <3>2, <2>1, <1>4 DEF IInv, TypeOK, Numbers, Authorize
  <2>3. CASE ~(n > highest)
    <3>1. seen' = seen \cup {highest - n} /\ highest' = highest
      BY <1>4, <2>3 DEF Authorize, MarkSeen
    <3>2. n <= highest /\ highest - n < Window
      BY <1>4, <2>3 DEF Authorize, Fresh, IInv, TypeOK, Numbers
    <3>3. WindowExact' /\ seen' \subseteq Ages
      BY <3>1, <3>2, <2>1, FillExact
    <3> QED  BY <3>1, <3>3, <2>1, <1>4 DEF IInv, TypeOK, Numbers, Authorize
  <2> QED  BY <2>2, <2>3
<1>5. CASE UNCHANGED vars
  BY <1>5 DEF vars, IInv, TypeOK, WindowExact
<1>6. ASSUME NEW n \in Numbers, Refuse(n) PROVE IInv'
  BY <1>5, <1>6 DEF Refuse
<1> QED  BY <1>1, <1>2, <1>3, <1>4, <1>5, <1>6 DEF Next

\* The inductive invariant holds in every state of every behaviour.
THEOREM WindowInvariant == Spec => []IInv
<1> QED  BY InitIInv, NextIInv, PTL DEF Spec

\* The set of ages is exactly the set of recent numbers that were consumed (authorize).
THEOREM WindowIsExact == Spec => []WindowExact
<1>1. IInv => WindowExact
  BY DEF IInv
<1> QED  BY <1>1, WindowInvariant, PTL

\* No number is ever authorized twice, though the session forgets all but Window of them.
THEOREM NumbersAreUsedOnce == Spec => []NeverTwice
<1>1. IInv => NeverTwice
  <2> SUFFICES ASSUME IInv, NEW n \in consumed PROVE ~Fresh(n)
    BY DEF NeverTwice
  <2>1. n \in Nat /\ highest \in Nat /\ n <= highest
    BY DEF IInv, TypeOK, WindowExact
  <2>2. highest - n < Window => highest - n \in Ages /\ highest - (highest - n) = n
    BY <2>1 DEF Ages
  <2> QED  BY <2>1, <2>2 DEF Fresh, IInv, WindowExact
<1> QED  BY <1>1, WindowInvariant, PTL

\* A number that was overtaken by fewer than Window others, some denied, is still accepted.
THEOREM LateNumbersAreFresh == Spec => []LateIsFresh
<1>1. IInv => LateIsFresh
  <2> SUFFICES ASSUME IInv, NEW n \in 1..next, n \notin consumed, highest - n < Window,
                      ~(n > highest)
               PROVE  highest - n \notin seen
    BY DEF LateIsFresh, Fresh
  <2>1. n \in Nat /\ highest \in Nat /\ highest - n \in Ages /\ highest - (highest - n) = n
    BY DEF IInv, TypeOK, Ages
  <2> QED  BY <2>1 DEF IInv, WindowExact
<1> QED  BY <1>1, WindowInvariant, PTL

\* The session with its window implements the session that remembers every number: it starts as
\* that one does, and every step is one of its steps or changes nothing it knows of.
THEOREM ImplementsOnce == Spec => ImplementsAcceptOnce
<1>1. Init => Once!Init
  BY DEF Init, Once!Init
<1>2. IInv /\ [Next]_vars => [Once!Next]_<<consumed, grants, closed>>
  <2> SUFFICES ASSUME IInv, [Next]_vars PROVE [Once!Next]_<<consumed, grants, closed>>
    OBVIOUS
  <2>1. CASE Deactivate
    BY <2>1 DEF Deactivate, Once!Next, Once!Close
  <2>2. ASSUME NEW n \in Numbers, Authorize(n) PROVE Once!Next
    <3>1. n \notin consumed
      <4>1. n \in consumed /\ highest - n < Window => highest - n \in seen
        <5>1. n \in Nat /\ highest \in Nat /\ highest - (highest - n) = n
          BY DEF IInv, TypeOK, Numbers
        <5>2. n \in consumed /\ highest - n < Window => highest - n \in Ages
          BY <5>1 DEF IInv, WindowExact, Ages
        <5> QED  BY <5>1, <5>2 DEF IInv, WindowExact
      <4> QED  BY <2>2, <4>1 DEF Authorize, Fresh, IInv, TypeOK, WindowExact, Numbers
    <3>2. Once!Consume(n)
      BY <2>2, <3>1 DEF Authorize, Once!Consume
    <3> QED  BY <3>2 DEF Once!Next
  <2>3. CASE Draw \/ (\E n \in Numbers : Send(n) \/ Refuse(n)) \/ UNCHANGED vars
    BY <2>3 DEF Draw, Send, Refuse, vars
  <2> QED  BY <2>1, <2>2, <2>3 DEF Next
<1> QED  BY <1>1, <1>2, WindowInvariant, PTL
         DEF Spec, ImplementsAcceptOnce, Once!Spec

=============================================================================
