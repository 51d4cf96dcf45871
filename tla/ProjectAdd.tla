----------------------------- MODULE ProjectAdd -----------------------------
(***************************************************************************)
(* agentctl project add (_add_project) and step 4 and 5 of bin/setup.sh:   *)
(* a command makes a project out of three things on the host, the GitHub   *)
(* broker's policy, the workspace and project.json, and looks at each of   *)
(* them at other times than it makes them.                                 *)
(*                                                                         *)
(* Commands run one after the other or at once, fail at any step and are   *)
(* killed between any two, so that the next one finds what they left: a    *)
(* policy or a project.json that was created and not written, a workspace  *)
(* whose clone never ended, a policy of the older format that a command    *)
(* upgrades by writing another file and renaming it.                       *)
(*                                                                         *)
(* One project, one hand-over root and one set of branches: a policy is    *)
(* its repository and its repository ID.  The credentials, the image, the  *)
(* profile and the plug-ins are things whose step may fail.                *)
(***************************************************************************)
EXTENDS FiniteSets

CONSTANTS
  Commands,   \* one call of project add each
  Requests,   \* what a command may be asked for, see Request
  Ids,        \* GitHub repository IDs
  Legacy,     \* no ID: --github-broker without --github-repository-id, or a policy without one
  Plain,      \* without --github-broker
  Unset

Request == [repo : {r.repo : r \in Requests}, id : Ids \cup {Legacy, Plain}, setup : BOOLEAN]
Origins == {r.repo : r \in Requests}

ASSUME RequestAssumption == \A r \in Requests : r \in Request /\ (r.setup => r.id = Plain)
ASSUME IdAssumption == Legacy \notin Ids /\ Plain \notin Ids /\ Legacy # Plain

VARIABLES
  policy,      \* github-broker.json
  workspace,   \* the workspace, partial while its clone has not ended
  project,     \* project.json, and the command that wrote it
  temporary,   \* [Commands -> the upgrade's temporary file]
  command      \* [Commands -> their state]

onDisk == <<policy, workspace, project, temporary>>
addVars == <<onDisk, command>>

NoPolicy == [kind |-> "absent", repo |-> Unset, id |-> Unset]
TornPolicy == [NoPolicy EXCEPT !.kind = "torn"]
Policy(repo, id) == [kind |-> "whole", repo |-> repo, id |-> id]

Record(kind, repo) == [kind |-> kind, repo |-> repo]
NoWorkspace == Record("absent", Unset)
NoProject == [kind |-> "absent", repo |-> Unset, by |-> Unset]

Waiting == [pc |-> "idle", request |-> Unset, found |-> FALSE, mode |-> "plain",
            cloning |-> FALSE, alone |-> TRUE, result |-> "none"]

\* Unset, what an interrupted registration of an earlier version left, or a project
\* such a version completed.
AddInit ==
  /\ \E r \in Origins :
       \/ policy = NoPolicy /\ workspace = NoWorkspace /\ project = NoProject
       \/ policy = Policy(r, Legacy) /\ workspace = NoWorkspace /\ project = NoProject
       \/ /\ policy = Policy(r, Legacy) /\ workspace = Record("whole", r)
          /\ project = [kind |-> "whole", repo |-> r, by |-> Unset]
  /\ temporary = [c \in Commands |-> "absent"]
  /\ command = [c \in Commands |-> Waiting]

-----------------------------------------------------------------------------
(* A command's steps                                                       *)

Runs(c) == command[c].pc \notin {"idle", "end"}
Doing(c, pc) == command[c].pc = pc
Repo(c) == command[c].request.repo
Id(c) == command[c].request.id

Proceed(c, pc) == command' = [command EXCEPT ![c].pc = pc]
Finish(c, result) == command' = [command EXCEPT ![c].pc = "end", ![c].result = result]
RefuseAdd(c) == Finish(c, "refused")

BeginAdd(c, request) ==
  /\ Doing(c, "idle")
  /\ LET others == {d \in Commands : Runs(d)} IN
     command' = [d \in Commands |->
       IF d = c THEN [Waiting EXCEPT !.pc = "look", !.request = request, !.alone = others = {}]
       ELSE [command[d] EXCEPT !.alone = @ /\ d \notin others]]
  /\ UNCHANGED onDisk

\* validate_workspace and validate_workspace_origin: any repository with this origin will do.
OriginFits(c) == workspace.kind # "absent" /\ workspace.repo = Repo(c)

\* What is found here decides much later whether to clone.
LookAtWorkspace(c) ==
  /\ Doing(c, "look")
  /\ IF workspace.kind = "absent" THEN Proceed(c, "choose")
     ELSE IF OriginFits(c)
       THEN command' = [command EXCEPT ![c].pc = "choose", ![c].found = TRUE]
       ELSE RefuseAdd(c)
  /\ UNCHANGED onDisk

\* The policy the command was asked for; expected_legacy is the same without the ID.
Wanted(c) == Policy(Repo(c), Id(c))

Mode(c) ==
  IF Id(c) = Plain THEN "plain"
  ELSE IF Id(c) = Legacy
    THEN IF /\ command[c].found /\ policy = Wanted(c)
            /\ project.kind = "whole" /\ project.repo = Repo(c)
           THEN "completed" ELSE "refused"
  ELSE IF policy.kind = "absent" THEN "fresh"
  ELSE IF policy = Wanted(c) THEN "present"
  ELSE IF policy = Policy(Repo(c), Legacy) /\ project.kind = "absent" /\ ~command[c].found
    THEN "upgrade"
  ELSE "refused"

ChooseMode(c) ==
  /\ Doing(c, "choose")
  /\ IF Mode(c) = "refused" THEN RefuseAdd(c)
     ELSE command' = [command EXCEPT ![c].pc = "preflight", ![c].mode = Mode(c)]
  /\ UNCHANGED onDisk

\* _podman_preflight; an upgrade looks once more at what has to be absent.
Preflight(c) ==
  /\ Doing(c, "preflight")
  /\ IF command[c].mode # "upgrade" THEN Proceed(c, "prepare")
     ELSE IF project.kind = "absent" /\ workspace.kind = "absent" THEN Proceed(c, "snapshot")
     ELSE RefuseAdd(c)
  /\ UNCHANGED onDisk

-----------------------------------------------------------------------------
(* upgrade_legacy_broker_policy                                            *)

StillLegacy(c) == policy = Policy(Repo(c), Legacy)

SnapshotLegacy(c) ==
  /\ Doing(c, "snapshot")
  /\ IF StillLegacy(c) THEN Proceed(c, "temporary") ELSE RefuseAdd(c)
  /\ UNCHANGED onDisk

OpenTemporary(c) ==
  /\ Doing(c, "temporary")
  /\ temporary' = [temporary EXCEPT ![c] = "torn"]
  /\ Proceed(c, "fill")
  /\ UNCHANGED <<policy, workspace, project>>

WriteTemporary(c) ==
  /\ Doing(c, "fill")
  /\ temporary' = [temporary EXCEPT ![c] = "whole"]
  /\ Proceed(c, "snapshot again")
  /\ UNCHANGED <<policy, workspace, project>>

\* Body and identity are those of the first snapshot; otherwise the temporary is unlinked.  No
\* command writes a legacy policy, so one that is there now is the file of the first snapshot.
SnapshotAgain(c) ==
  /\ Doing(c, "snapshot again")
  /\ IF StillLegacy(c)
       THEN Proceed(c, "replace") /\ UNCHANGED temporary
       ELSE RefuseAdd(c) /\ temporary' = [temporary EXCEPT ![c] = "absent"]
  /\ UNCHANGED <<policy, workspace, project>>

\* Mutant: the policy is opened for writing and written like a new one.
ReplacePolicy_InPlace(c) ==
  /\ Doing(c, "replace")
  /\ policy' = TornPolicy
  /\ temporary' = [temporary EXCEPT ![c] = "absent"]
  /\ Proceed(c, "write policy")
  /\ UNCHANGED <<workspace, project>>

\* os.replace takes whatever the policy is by now.
ReplacePolicy(c) ==
  /\ Doing(c, "replace")
  /\ policy' = IF temporary[c] = "whole" THEN Wanted(c) ELSE TornPolicy
  /\ temporary' = [temporary EXCEPT ![c] = "absent"]
  /\ Proceed(c, "prepare")
  /\ UNCHANGED <<workspace, project>>

-----------------------------------------------------------------------------
(* The policy, the workspace, the record                                   *)

\* write_broker_policy creates with O_EXCL; any other mode loads what is there and compares.
PreparePolicy(c) ==
  /\ Doing(c, "prepare")
  /\ \/ command[c].mode = "plain" /\ Proceed(c, "clone") /\ UNCHANGED policy
     \/ /\ command[c].mode = "fresh"
        /\ IF policy.kind = "absent"
             THEN policy' = TornPolicy /\ Proceed(c, "write policy")
             ELSE RefuseAdd(c) /\ UNCHANGED policy
     \/ /\ command[c].mode \in {"present", "upgrade", "completed"}
        /\ IF policy = Wanted(c) THEN Proceed(c, "clone") ELSE RefuseAdd(c)
        /\ UNCHANGED policy
  /\ UNCHANGED <<workspace, project, temporary>>

WritePolicy(c) ==
  /\ Doing(c, "write policy")
  /\ policy' = Wanted(c)
  /\ Proceed(c, "clone")
  /\ UNCHANGED <<workspace, project, temporary>>

\* UploadPackBrokerRuntime.create, which loads the policy again, and git clone in the
\* container, which leaves a directory that is not empty alone.
StartClone(c) ==
  /\ Doing(c, "clone")
  /\ IF command[c].found THEN Proceed(c, "furnish") /\ UNCHANGED workspace
     ELSE IF Id(c) # Plain /\ (policy.kind # "whole" \/ policy.repo # Repo(c))
       THEN RefuseAdd(c) /\ UNCHANGED workspace
     ELSE /\ workspace' = IF workspace.kind = "absent"
                            THEN Record("partial", Repo(c)) ELSE workspace
          /\ command' = [command EXCEPT ![c].pc = "cloned",
                                        ![c].cloning = workspace.kind = "absent"]
  /\ UNCHANGED <<policy, project, temporary>>

\* git removes what it made when the clone fails.
EndClone(c, end) ==
  /\ Doing(c, "cloned")
  /\ workspace' = IF command[c].cloning THEN end ELSE workspace
  /\ command' = [command EXCEPT ![c].pc = "validate", ![c].cloning = FALSE]
  /\ UNCHANGED <<policy, project, temporary>>

CloneEnds(c) ==
  /\ command[c].request # Unset
  /\ \E end \in {Record("whole", Repo(c)), NoWorkspace} : EndClone(c, end)

\* Mutant: the clone ended, so there is a workspace.
ValidateClone_Trusting(c) ==
  /\ Doing(c, "validate") /\ Proceed(c, "furnish")
  /\ UNCHANGED onDisk

\* The exit status of the clone is not looked at: this is.
ValidateClone(c) ==
  /\ Doing(c, "validate")
  /\ IF OriginFits(c) THEN Proceed(c, "furnish")
     ELSE Finish(c, IF workspace.kind = "absent" THEN "failed" ELSE "refused")
  /\ UNCHANGED onDisk

\* _seed_project_codex_home and _install_superpowers.
Furnish(c) ==
  /\ Doing(c, "furnish")
  /\ IF command[c].mode = "completed" THEN Finish(c, "ok") ELSE Proceed(c, "register")
  /\ UNCHANGED onDisk

\* ProjectRecord.write: open("x"), then the contents and the mode that readers insist on.
Register(c) ==
  /\ Doing(c, "register")
  /\ IF project.kind = "absent"
       THEN /\ project' = [kind |-> "torn", repo |-> Unset, by |-> c]
            /\ Proceed(c, "record")
       ELSE RefuseAdd(c) /\ UNCHANGED project
  /\ UNCHANGED <<policy, workspace, temporary>>

WriteRecord(c) ==
  /\ Doing(c, "record")
  /\ project' = [kind |-> "whole", repo |-> Repo(c), by |-> c]
  /\ IF command[c].request.setup THEN Proceed(c, "doctor") ELSE Finish(c, "ok")
  /\ UNCHANGED <<policy, workspace, temporary>>

\* setup.sh, step 5: agentctl doctor changes nothing.
Diagnose(c, result) ==
  /\ Doing(c, "doctor") /\ Finish(c, result)
  /\ UNCHANGED onDisk

\* An I/O error or a failing program.
AddFails(c) ==
  /\ Runs(c) /\ ~Doing(c, "doctor") /\ Finish(c, "failed")
  /\ temporary' = [temporary EXCEPT ![c] = "absent"]
  /\ UNCHANGED <<policy, workspace, project>>

AddKilled(c) == Runs(c) /\ Finish(c, "killed") /\ UNCHANGED onDisk

Add(c) ==
  \/ \E request \in Requests : BeginAdd(c, request)
  \/ LookAtWorkspace(c) \/ ChooseMode(c) \/ Preflight(c)
  \/ SnapshotLegacy(c) \/ OpenTemporary(c) \/ WriteTemporary(c) \/ SnapshotAgain(c)
  \/ ReplacePolicy(c) \/ PreparePolicy(c) \/ WritePolicy(c)
  \/ StartClone(c) \/ CloneEnds(c) \/ ValidateClone(c)
  \/ Furnish(c) \/ Register(c) \/ WriteRecord(c)
  \/ \E result \in {"ok", "failed"} : Diagnose(c, result)
  \/ AddFails(c) \/ AddKilled(c)

AddNext == \E c \in Commands : Add(c)

AddSpec == AddInit /\ [][AddNext]_addVars

-----------------------------------------------------------------------------
(* Properties                                                              *)

CommandState ==
  [pc : {"idle", "look", "choose", "preflight", "snapshot", "temporary", "fill", "snapshot again",
         "replace", "prepare", "write policy", "clone", "cloned", "validate", "furnish",
         "register", "record", "doctor", "end"},
   request : Requests \cup {Unset}, found : BOOLEAN,
   mode : {"plain", "fresh", "present", "upgrade", "completed"},
   cloning : BOOLEAN, alone : BOOLEAN,
   result : {"none", "ok", "refused", "failed", "killed"}]

\* The shape of what is on disk and of a command.
AddTypeOK ==
  /\ policy \in [kind : {"absent", "torn", "whole"}, repo : Origins \cup {Unset},
                 id : Ids \cup {Legacy, Plain, Unset}]
  /\ workspace \in [kind : {"absent", "partial", "whole"}, repo : Origins \cup {Unset}]
  /\ project \in [kind : {"absent", "torn", "whole"}, repo : Origins \cup {Unset},
                  by : Commands \cup {Unset}]
  /\ temporary \in [Commands -> {"absent", "torn", "whole"}]
  /\ command \in [Commands -> CommandState]

OneAfterTheOther == \A c \in Commands : command[c].alone

\* A policy that can be read stays readable and keeps its repository, wherever an upgrade of
\* it fails or is killed and however many run (upgrade_legacy_broker_policy); and where the
\* commands ran one after the other, a registered project keeps the very policy it has.
PolicyEndures ==
  [][policy.kind = "whole" =>
       /\ policy'.kind = "whole" /\ policy'.repo = policy.repo
       /\ project.kind # "absent" /\ OneAfterTheOther => policy' = policy]_addVars

\* A registered project is usable, and stays so: a command that said ok registered it for
\* its repository; a command with a broker registered it with a policy of its repository, even
\* among other commands; and where they ran one after the other there is a workspace of it,
\* although nobody looks at the exit status of git clone.
RegisteredFits ==
  /\ \A c \in Commands :
       command[c].result = "ok" => project.kind = "whole" /\ project.repo = Repo(c)
  /\ project.kind = "whole" =>
       /\ project.by # Unset /\ Id(project.by) # Plain =>
            policy.kind = "whole" /\ policy.repo = project.repo
       /\ OneAfterTheOther => workspace.kind # "absent" /\ workspace.repo = project.repo

\* README.md says of bin/setup.sh that the same command can be run again when it stopped on
\* the way: a setup that runs after others like it is not refused for what they left.
SetupCanBeRerun ==
  \A c \in Commands :
    command[c].alone /\ command[c].request # Unset /\ command[c].request.setup
      /\ project.by \in Commands =>
      command[c].result # "refused"

=============================================================================
