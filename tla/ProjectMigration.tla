-------------------------- MODULE ProjectMigration --------------------------
(***************************************************************************)
(* agentctl migrate claude (migration.py): a migrator looks at a Claude    *)
(* configuration on the host, plans which of its entries to copy, copies   *)
(* them into a stage beside the project's claude-config, and publishes the *)
(* stage under that name with one rename that replaces nothing.            *)
(*                                                                         *)
(* The source is somebody's live configuration: it changes between the     *)
(* plan and the copy.  Another migrator, or the first run of the project,  *)
(* may make claude-config first, somebody may move the stage away and put  *)
(* something else under its name, and a migrator may fail or be killed     *)
(* anywhere.                                                               *)
(*                                                                         *)
(* Paths are members of small sets; their bytes are left out but for       *)
(* settings.json, whose bytes decide whether it may be copied.  Steps that *)
(* only read the source root or open a directory are part of the step that *)
(* follows them, and their errors are MigrationFails.                      *)
(***************************************************************************)
EXTENDS Integers, FiniteSets

CONSTANTS
  Migrators,    \* processes that run migrate --apply
  Settings,     \* settings.json
  Directories,  \* DEFAULT_DIRECTORIES
  Versions,     \* versions of the selected plugin, each with its cache directory
  Children,     \* entries of the directories and of the cache directories
  Holder,       \* [Children -> Directories \cup Versions]
  Denied,       \* the children whose name is in DENIED_TOP_LEVEL
  Nothing,
  MaxChanges    \* bound: changes somebody else makes

Tops == {Settings} \cup Directories \cup Versions
Paths == Tops \cup Children

ASSUME TreeAssumption ==
  /\ Holder \in [Children -> Directories \cup Versions]
  /\ Denied \subseteq Children
  /\ Children \cap Tops = {} /\ Versions \cap ({Settings} \cup Directories) = {}
ASSUME NothingAssumption ==
  Nothing \notin Paths \cup Migrators \cup {"run"} /\ "run" \notin Migrators

VARIABLES
  source,       \* [Paths -> Kinds], the live configuration
  settings,     \* what settings.json holds
  installed,    \* the version installed_plugins.json names, or Nothing
  target,       \* claude-config: who made it, its entries, metadata and settings
  mig,          \* [Migrators -> their state]
  stage,        \* [Migrators -> what they staged, and what is at the stage's name]
  changes       \* how much somebody else has changed

outside == <<source, settings, installed, changes>>
migrationVars == <<outside, target, mig, stage>>

\* A link, a socket or a device is "other"; settings.json with a secret in it, or one that is not
\* the JSON it should be, is "refused".
Kinds == {"absent", "dir", "file", "exec", "other"}
Bodies == {"clean", "refused", "none"}
Entries == [path : Paths, kind : {"dir", "file", "exec"}]

NoTarget == [by |-> Nothing, entries |-> {}, version |-> Nothing, body |-> "none"]
NoStage == [name |-> "absent", full |-> FALSE, entries |-> {}, version |-> Nothing, body |-> "none"]
Idle == [pc |-> "idle", plugin |-> FALSE, todo |-> {}, plan |-> {}, version |-> Nothing,
         left |-> {}, published |-> FALSE, result |-> "none"]

\* A configuration with one plugin installed, nothing in it that the planning refuses.
MigrationInit ==
  /\ source = [p \in Paths |-> IF p \in Directories \cup Versions THEN "dir" ELSE "file"]
  /\ settings = "clean"
  /\ installed \in Versions
  /\ target = NoTarget
  /\ mig = [m \in Migrators |-> Idle]
  /\ stage = [m \in Migrators |-> NoStage]
  /\ changes = 0

-----------------------------------------------------------------------------
(* Everybody else                                                          *)

Changing == changes < MaxChanges /\ changes' = changes + 1

\* The owner edits the configuration; the children of a directory go with it.
EditSource(p, kind) ==
  /\ Changing /\ source[p] # kind
  /\ p \in Children => source[Holder[p]] = "dir"
  /\ source' = [q \in Paths |->
                  IF q = p THEN kind
                  ELSE IF q \in Children /\ Holder[q] = p THEN "absent" ELSE source[q]]
  /\ UNCHANGED <<settings, installed, target, mig, stage>>

EditSettings(body) ==
  /\ Changing /\ settings # body /\ settings' = body
  /\ UNCHANGED <<source, installed, target, mig, stage>>

UpdatePlugin(v) ==
  /\ Changing /\ installed # v /\ installed' = v
  /\ UNCHANGED <<source, settings, target, mig, stage>>

\* The first run --agent claude of the project makes an empty claude-config.
FirstRun ==
  /\ Changing /\ target.by = Nothing
  /\ target' = [NoTarget EXCEPT !.by = "run"]
  /\ UNCHANGED <<source, settings, installed, mig, stage>>

\* Somebody moves the stage away, and perhaps puts a directory of theirs in its place.
SwapStage(m, name) ==
  /\ Changing /\ stage[m].name = "ours"
  /\ stage' = [stage EXCEPT ![m].name = name]
  /\ UNCHANGED <<source, settings, installed, target, mig>>

-----------------------------------------------------------------------------
(* Planning: plan_claude_migration and add_plugin_entries                  *)

Stands(m, pc) == mig[m].pc = pc

Become(m, state) == mig' = [mig EXCEPT ![m] = state]
Goto(m, pc) == Become(m, [mig[m] EXCEPT !.pc = pc])

\* The command ends with an error; what it planned is of no more use to anybody.
Give(m, pc, result) ==
  mig' = [mig EXCEPT ![m] = [Idle EXCEPT !.pc = pc, !.result = result,
                             !.plan = IF mig[m].published THEN mig[m].plan ELSE {},
                             !.version = IF mig[m].published THEN mig[m].version ELSE Nothing,
                             !.published = mig[m].published]]

BeginPlan(m, plugin) ==
  /\ Stands(m, "idle")
  /\ IF target.by # Nothing
       THEN Give(m, "end", "exists")
       ELSE Become(m, [mig[m] EXCEPT !.pc = "plan", !.plugin = plugin,
                                     !.todo = {Settings} \cup Directories])
  /\ UNCHANGED <<outside, target, stage>>

\* _entry_for_path: a regular file or a directory, and nothing reached through a link.
Copyable(kind) == kind \in {"dir", "file", "exec"}
Planned(p) == [path |-> p, kind |-> source[p]]
Listed(d) == {c \in Children : Holder[c] = d /\ source[c] # "absent"}

\* What a path the planning looks at may be.
Acceptable(p) ==
  /\ Copyable(source[p])
  /\ p = Settings => source[p] # "dir" /\ settings = "clean"
  /\ p \in Directories \cup Versions => source[p] = "dir"

\* Mutant: the denied names are denied at the top of the configuration only.
Look_AllChildren(m, p) ==
  /\ Stands(m, "plan") /\ p \in mig[m].todo
  /\ LET rest == mig[m].todo \ {p} IN
     IF p \in Directories \cup {Settings} /\ source[p] = "absent"
       THEN Become(m, [mig[m] EXCEPT !.todo = rest])
     ELSE IF Acceptable(p)
       THEN Become(m, [mig[m] EXCEPT !.todo = rest \cup Listed(p), !.plan = @ \cup {Planned(p)}])
     ELSE Give(m, "end", "refused")
  /\ UNCHANGED <<outside, target, stage>>

\* One path of the plan: a top of the allow list that is not there, or a name that is denied
\* at any depth, is passed over; a directory adds what it lists; anything else that is not
\* acceptable, or that vanished after it was listed, ends the command.
Look(m, p) ==
  /\ Stands(m, "plan") /\ p \in mig[m].todo
  /\ LET rest == mig[m].todo \ {p} IN
     IF p \in Denied \/ (p \in Directories \cup {Settings} /\ source[p] = "absent")
       THEN Become(m, [mig[m] EXCEPT !.todo = rest])
     ELSE IF Acceptable(p)
       THEN Become(m, [mig[m] EXCEPT !.todo = rest \cup Listed(p), !.plan = @ \cup {Planned(p)}])
     ELSE Give(m, "end", "refused")
  /\ UNCHANGED <<outside, target, stage>>

\* The selected plugin: the version the metadata names now, whose cache is walked next.
AddPlugin(m) ==
  /\ Stands(m, "plan") /\ mig[m].todo = {} /\ mig[m].plugin /\ mig[m].version = Nothing
  /\ IF installed \in Versions
       THEN Become(m, [mig[m] EXCEPT !.version = installed, !.todo = {installed}])
       ELSE Give(m, "end", "refused")
  /\ UNCHANGED <<outside, target, stage>>

-----------------------------------------------------------------------------
(* Applying: apply_claude_migration                                        *)

BeginApply(m) ==
  /\ Stands(m, "plan") /\ mig[m].todo = {}
  /\ mig[m].plugin => mig[m].version # Nothing
  /\ IF target.by # Nothing THEN Give(m, "end", "exists") ELSE Goto(m, "make")
  /\ UNCHANGED <<outside, target, stage>>

\* The mkdir of _create_outer_stage; the name is random and new.
MakeStage(m) ==
  /\ Stands(m, "make")
  /\ stage' = [stage EXCEPT ![m] = [NoStage EXCEPT !.name = "ours"]]
  /\ Goto(m, "verify")
  /\ UNCHANGED <<outside, target>>

\* The stat after it, outside any try block, the opening and the payload inside. The identity is
\* that of whatever is at the name by now: a guest put there already is the stage from here on.
VerifyStage(m) ==
  /\ Stands(m, "verify")
  /\ IF stage[m].name = "absent"
       THEN Give(m, "spoiled", "failed") /\ UNCHANGED stage
       ELSE /\ stage' = [stage EXCEPT ![m] = [NoStage EXCEPT !.name = "ours", !.full = TRUE]]
            /\ Become(m, [mig[m] EXCEPT !.pc = "copy", !.left = mig[m].plan])
  /\ UNCHANGED <<outside, target>>

\* The error path and the clean-up of a published stage are the same steps.
Abandon(m, result) ==
  Become(m, [mig[m] EXCEPT !.pc = "stat", !.left = {}, !.result = result])

\* _validate_planned_source_entry: the type and the executable bit are those of the plan.
Unmoved(e) == source[e.path] = e.kind

Staged(m, e) ==
  stage' = [stage EXCEPT ![m].entries = @ \cup {e},
                         ![m].body = IF e.path = Settings THEN settings ELSE @]

\* One entry; the bytes of settings.json are checked as they are read and before they are written.
Copy(m, e) ==
  /\ Stands(m, "copy") /\ e \in mig[m].left
  /\ IF Unmoved(e) /\ (e.path = Settings => settings = "clean")
       THEN Staged(m, e) /\ Become(m, [mig[m] EXCEPT !.left = @ \ {e}])
       ELSE Abandon(m, "refused") /\ UNCHANGED stage
  /\ UNCHANGED <<outside, target>>

\* The generated metadata, written from the plan, and the second look at the destination.
Generate(m) ==
  /\ Stands(m, "copy") /\ mig[m].left = {}
  /\ stage' = [stage EXCEPT ![m].version = mig[m].version]
  /\ IF target.by # Nothing THEN Abandon(m, "exists") ELSE Goto(m, "publish")
  /\ UNCHANGED <<outside, target>>

Published(m) ==
  [by |-> m, entries |-> stage[m].entries, version |-> stage[m].version, body |-> stage[m].body]

\* Mutant: a plain rename after the check.
PublishStage_Replacing(m) ==
  /\ Stands(m, "publish")
  /\ target' = Published(m)
  /\ stage' = [stage EXCEPT ![m].full = FALSE]
  /\ Become(m, [mig[m] EXCEPT !.pc = "stat", !.published = TRUE, !.result = "ok"])
  /\ UNCHANGED <<outside>>

\* _rename_noreplace, from the stage's descriptor, whatever its name is by now.
PublishStage(m) ==
  /\ Stands(m, "publish")
  /\ IF target.by # Nothing
       THEN Abandon(m, "exists") /\ UNCHANGED <<target, stage>>
       ELSE /\ target' = Published(m)
            /\ stage' = [stage EXCEPT ![m].full = FALSE]
            /\ Become(m, [mig[m] EXCEPT !.pc = "stat", !.published = TRUE, !.result = "ok"])
  /\ UNCHANGED <<outside>>

-----------------------------------------------------------------------------
(* _remove_known_stage, one system call after the other                    *)

StatStage(m) ==
  /\ Stands(m, "stat")
  /\ IF stage[m].name = "ours" THEN Goto(m, "clear") ELSE Goto(m, "leave")
  /\ UNCHANGED <<outside, target, stage>>

\* Mutant: the stage is emptied through its name.
ClearStage_ByName(m) ==
  /\ Stands(m, "clear")
  /\ stage' = [stage EXCEPT ![m].full = IF stage[m].name = "ours" THEN FALSE ELSE @,
                           ![m].name = IF @ = "theirs" THEN "empty" ELSE @]
  /\ Goto(m, "stat-again")
  /\ UNCHANGED <<outside, target>>

\* Through the descriptor, which is the stage's own wherever it was moved to.
ClearStage(m) ==
  /\ Stands(m, "clear")
  /\ stage' = [stage EXCEPT ![m].full = FALSE]
  /\ Goto(m, "stat-again")
  /\ UNCHANGED <<outside, target>>

StatAgain(m) ==
  /\ Stands(m, "stat-again")
  /\ IF stage[m].name = "ours" THEN Goto(m, "rmdir") ELSE Goto(m, "leave")
  /\ UNCHANGED <<outside, target, stage>>

\* By name: rmdir removes an empty directory and no other.
RemoveStage(m) ==
  /\ Stands(m, "rmdir")
  /\ stage' = [stage EXCEPT ![m].name =
                 IF @ = "empty" \/ (@ = "ours" /\ ~stage[m].full) THEN "absent" ELSE @]
  /\ Goto(m, "leave")
  /\ UNCHANGED <<outside, target>>

Leave(m) ==
  /\ Stands(m, "leave")
  /\ Give(m, "end", mig[m].result)
  /\ UNCHANGED <<outside, target, stage>>

\* An I/O error: before the stage exists the command just ends, and so it does at the first look
\* at the stage, which stays where it is; later the stage is removed, and in the removal an error
\* is swallowed.
MigrationFails(m) ==
  /\ mig[m].pc \notin {"idle", "leave", "end", "spoiled"}
  /\ CASE mig[m].pc \in {"plan", "make"} -> Give(m, "end", "failed")
       [] mig[m].pc = "verify" -> Give(m, "spoiled", "failed")
       [] mig[m].pc \in {"copy", "publish"} -> Abandon(m, "failed")
       [] mig[m].pc \in {"stat", "clear", "stat-again", "rmdir"} -> Give(m, "spoiled", mig[m].result)
  /\ UNCHANGED <<outside, target, stage>>

\* The process is killed; an interrupt that comes after the publication does the same.
MigrationKilled(m) ==
  /\ mig[m].pc \notin {"idle", "end", "spoiled"}
  /\ Give(m, "end", "killed")
  /\ UNCHANGED <<outside, target, stage>>

Migrate(m) ==
  \/ \E plugin \in BOOLEAN : BeginPlan(m, plugin)
  \/ \E p \in Paths : Look(m, p)
  \/ AddPlugin(m) \/ BeginApply(m) \/ MakeStage(m) \/ VerifyStage(m)
  \/ \E e \in Entries : Copy(m, e)
  \/ Generate(m) \/ PublishStage(m)
  \/ StatStage(m) \/ ClearStage(m) \/ StatAgain(m) \/ RemoveStage(m) \/ Leave(m)
  \/ MigrationFails(m) \/ MigrationKilled(m)

Meddle ==
  \/ \E p \in Paths, kind \in Kinds : EditSource(p, kind)
  \/ \E body \in Bodies \ {"none"} : EditSettings(body)
  \/ \E v \in Versions \cup {Nothing} : UpdatePlugin(v)
  \/ FirstRun
  \/ \E m \in Migrators, name \in {"absent", "empty", "theirs"} : SwapStage(m, name)

MigrationNext == Meddle \/ \E m \in Migrators : Migrate(m)

MigrationSpec == MigrationInit /\ [][MigrationNext]_migrationVars

-----------------------------------------------------------------------------
(* Properties                                                              *)

TargetState ==
  [by : Migrators \cup {"run", Nothing}, entries : SUBSET Entries,
   version : Versions \cup {Nothing}, body : Bodies]

MigratorState ==
  [pc : {"idle", "plan", "make", "verify", "copy", "publish", "stat", "clear", "stat-again",
         "rmdir", "leave", "end", "spoiled"},
   plugin : BOOLEAN, todo : SUBSET Paths, plan : SUBSET Entries,
   version : Versions \cup {Nothing}, left : SUBSET Entries, published : BOOLEAN,
   result : {"none", "ok", "refused", "exists", "failed", "killed"}]

StageState ==
  [name : {"absent", "ours", "empty", "theirs"}, full : BOOLEAN, entries : SUBSET Entries,
   version : Versions \cup {Nothing}, body : Bodies]

\* The shape of the configuration, of a migrator and of its stage.
MigrationTypeOK ==
  /\ source \in [Paths -> Kinds] /\ settings \in Bodies \ {"none"}
  /\ installed \in Versions \cup {Nothing} /\ changes \in Nat
  /\ target \in TargetState
  /\ mig \in [Migrators -> MigratorState] /\ stage \in [Migrators -> StageState]

\* claude-config appears whole: every entry that was planned and shown to the user with the
\* type it had then, nothing denied at any depth, and plugin metadata that names the version
\* whose files came with it, and settings.json without a secret, whatever happened to the
\* source after it was checked for the plan and while it was copied.
PublishedIsPlan ==
  target.by \in Migrators =>
    /\ target.entries = mig[target.by].plan
    /\ target.version = mig[target.by].version
    /\ target.body \in {"clean", "none"}
    /\ \A e \in target.entries :
         /\ e.path \notin Denied
         /\ e.path \in Versions => e.path = target.version
         /\ e.path \in Children => [path |-> Holder[e.path], kind |-> "dir"] \in target.entries

\* What the command says is so and stays so: it names the destination only when it published
\* it, whoever came between its two checks and the rename, an error means that it did not, and
\* unless it was killed, or its first look at the stage or its clean-up met an error, it leaves
\* no stage behind.
AnswerIsTrue ==
  \A m \in Migrators :
    /\ mig[m].result = "ok" => target.by = m
    /\ mig[m].result \in {"refused", "exists", "failed"} => target.by # m
    /\ Stands(m, "end") /\ mig[m].result # "killed" => stage[m].name # "ours"

\* What somebody put in a stage's place after the migrator has looked who is there is neither
\* emptied nor removed by the clean-up.
GuestIsSafe ==
  [][\A m \in Migrators : stage[m].name = "theirs" /\ ~Stands(m, "verify")
                           => stage'[m].name = "theirs"]_migrationVars

=============================================================================
