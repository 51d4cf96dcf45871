-------------------------- MODULE HostFiles_proofs --------------------------
(***************************************************************************)
(* The three ways this program makes files on the host that others read:   *)
(* a family binding is replaced, a project's state is copied and renamed   *)
(* into place, a handover is published in a shared directory.  For any     *)
(* number of writers, names and entries, with a crash at any step: what    *)
(* becomes visible is whole, what was answered is so, and nothing of       *)
(* somebody else is replaced or removed.                                   *)
(***************************************************************************)
EXTENDS FamilyBinding, ProjectMigration, HandoverWriter, TLAPS

-----------------------------------------------------------------------------
(* A family binding: an invariant of each writer alone.                    *)

\* A writer that has not written its file has none under its temporary name, and one that
\* read a file was asked to replace it.
Spared == \A w \in Binders :
  /\ writer[w].pc \in {"idle", "snapshot", "write"} => spare[w] = Vacant
  /\ writer[w].original # Vacant => w \in Replacing

BindingInv == BindingTypeOK /\ Spared

LEMMA BindingInitInv == BindingInit => BindingInv
BY InodeAssumption DEF BindingInit, BindingInv, BindingTypeOK, WriterState, Spared, Inodes

\* A step that moves one writer and its temporary file.
LEMMA WriterMoves ==
  ASSUME BindingInv, NEW w \in Binders,
         NEW s \in WriterState,
         NEW f \in Inodes \cup {Vacant},
         writer' = [writer EXCEPT ![w] = s], spare' = [spare EXCEPT ![w] = f],
         binding' \in Inodes \cup {Vacant}, holder' \in Binders \cup {Vacant}, unused' = unused,
         s.pc \in {"idle", "snapshot", "write"} => f = Vacant,
         s.original # Vacant => w \in Replacing
  PROVE  BindingInv'
<1>1. BindingTypeOK'
  BY DEF BindingInv, BindingTypeOK
<1>2. Spared'
  BY DEF BindingInv, BindingTypeOK, Spared
<1> QED  BY <1>1, <1>2 DEF BindingInv

\* The names of a step of a writer: only its own temporary name and the binding change, and
\* a file that is gone was the writer's or the one it had read.
Harmless(w) ==
  \A f \in Files \ Files' : f = w \/ (f = writer[w].original /\ w \in Replacing)

LEMMA WriterStep ==
  ASSUME BindingInv, NEW w \in Binders, Write(w)
  PROVE  BindingInv' /\ Harmless(w)
<1> USE DEF BindingInv, WriterState
<1>0. /\ writer \in [Binders -> WriterState]
      /\ spare \in [Binders -> Inodes \cup {Vacant}]
      /\ binding \in Inodes \cup {Vacant} /\ holder \in Binders \cup {Vacant}
      /\ w \in Inodes
  BY DEF BindingTypeOK, Inodes
<1> DEFINE s == writer'[w]
           f == spare'[w]
<1>1. CASE Lock(w) \/ Snapshot(w) \/ CheckOriginal(w) \/ LookAtReplaced(w) \/ SyncParent(w)
            \/ WriteFails(w) \/ WriterKilled(w)
  <2>1. binding' = binding /\ spare' = spare /\ unused' = unused /\ holder' \in Binders \cup {Vacant}
    BY <1>0, <1>1 DEF Lock, Snapshot, CheckOriginal, LookAtReplaced, SyncParent, WriteFails, WriterKilled
  <2>2. /\ writer' = [writer EXCEPT ![w] = s] /\ s \in WriterState
        /\ s.pc \in {"idle", "snapshot", "write"} => writer[w].pc \in {"idle", "snapshot", "write"}
        /\ s.original # Vacant => w \in Replacing
    BY <1>0, <1>1 DEF Lock, Snapshot, CheckOriginal, LookAtReplaced, SyncParent, WriteFails,
                      WriterKilled, Works, Continue, Unwind, Spared
  <2>3. BindingInv'
    BY <1>0, <2>1, <2>2, WriterMoves DEF Spared
  <2> QED  BY <2>1, <2>3 DEF Harmless, Files
<1>2. CASE WriteSpare(w)
  <2>1. binding' = binding /\ spare' = [spare EXCEPT ![w] = w] /\ unused' = unused /\ holder' = holder
        /\ spare[w] = Vacant
    BY <1>2 DEF WriteSpare, Works, Spared
  <2>2. /\ writer' = [writer EXCEPT ![w] = s] /\ s \in WriterState
        /\ s.pc \notin {"idle", "snapshot", "write"} /\ s.original = writer[w].original
    BY <1>0, <1>2 DEF WriteSpare, Continue
  <2>3. BindingInv'
    BY <1>0, <2>1, <2>2, WriterMoves DEF Spared
  <2>4. Files \subseteq Files'
    BY <1>0, <2>1 DEF Files
  <2> QED  BY <2>3, <2>4 DEF Harmless
<1>3. CASE Link(w)
  <2>1. spare' = spare /\ unused' = unused /\ holder' = holder
        /\ binding' \in {binding, w} /\ (binding' # binding => binding = Vacant)
    BY <1>3 DEF Link
  <2>2. /\ writer' = [writer EXCEPT ![w] = s] /\ s \in WriterState
        /\ s.pc \notin {"idle", "snapshot", "write"}
        /\ s.original = writer[w].original
    BY <1>0, <1>3 DEF Link, Unwind
  <2>3. BindingInv'
    BY <1>0, <2>1, <2>2, WriterMoves DEF Spared
  <2>4. Files \subseteq Files'
    BY <1>0, <2>1 DEF Files
  <2> QED  BY <2>3, <2>4 DEF Harmless
<1>4. CASE Exchange(w) \/ ExchangeBack(w)
  <2>1. unused' = unused /\ holder' = holder
        /\ \/ binding' = binding /\ spare' = spare
           \/ binding' = spare[w] /\ spare' = [spare EXCEPT ![w] = binding]
    BY <1>4 DEF Exchange, ExchangeBack, Swap
  <2>2. /\ writer' = [writer EXCEPT ![w] = s] /\ s \in WriterState
        /\ s.pc \notin {"idle", "snapshot", "write"}
        /\ s.original = writer[w].original
    BY <1>0, <1>4 DEF Exchange, ExchangeBack, Unwind, Continue
  <2>3. f \in Inodes \cup {Vacant} /\ spare' = [spare EXCEPT ![w] = f] /\ binding' \in Inodes \cup {Vacant}
    BY <1>0, <2>1
  <2>4. BindingInv'
    BY <1>0, <2>1, <2>2, <2>3, WriterMoves DEF Spared
  <2>5. Files \subseteq Files'
    BY <1>0, <2>1 DEF Files
  <2> QED  BY <2>4, <2>5 DEF Harmless
<1>5. CASE UnlinkSpare(w) \/ Unlock(w)
  <2>1. /\ unused' = unused /\ holder' \in Binders \cup {Vacant} /\ binding' = binding
        /\ \/ spare' = spare
           \/ /\ spare' = [spare EXCEPT ![w] = Vacant]
              /\ \/ spare[w] = w
                 \/ spare[w] = writer[w].original /\ writer[w].original # Vacant
    BY <1>0, <1>5 DEF UnlinkSpare, Unlock, RemoveSpare
  <2>2. /\ writer' = [writer EXCEPT ![w] = s] /\ s \in WriterState
        /\ s.pc \notin {"idle", "snapshot", "write"}
        /\ s.original = writer[w].original
    BY <1>0, <1>5 DEF UnlinkSpare, Unlock, Continue
  <2>3. f \in Inodes \cup {Vacant} /\ spare' = [spare EXCEPT ![w] = f]
    BY <1>0, <2>1
  <2>4. BindingInv'
    BY <1>0, <2>1, <2>2, <2>3, WriterMoves DEF Spared
  <2>5. ASSUME NEW g \in Files \ Files'
        PROVE  g = spare[w] /\ spare' # spare
    BY <1>0, <2>1 DEF Files
  <2> QED  BY <2>1, <2>4, <2>5 DEF Harmless, Spared
<1> QED
  BY <1>1, <1>2, <1>3, <1>4, <1>5 DEF Write

LEMMA BindingStepInv == BindingInv /\ [BindingNext]_bindingVars => BindingInv'
<1> SUFFICES ASSUME BindingInv, [BindingNext]_bindingVars PROVE BindingInv'
  OBVIOUS
<1>1. CASE EditSomething
  <2>1. /\ UNCHANGED <<spare, holder, writer>> /\ unused' \subseteq unused
        /\ binding' \in Inodes \cup {Vacant}
    BY <1>1 DEF EditSomething, Edit, Remove, Inodes
  <2> QED  BY <2>1 DEF BindingInv, BindingTypeOK, Spared
<1>2. CASE UNCHANGED bindingVars
  BY <1>2 DEF bindingVars, BindingInv, BindingTypeOK, Spared
<1> QED  BY <1>1, <1>2, WriterStep DEF BindingNext

\* What a writer of a family binding may find under its temporary name, and that only one
\* asked to replace ever read a file (write_family_binding), hold in every state.
THEOREM BindingInvariant == BindingSpec => []BindingInv
BY BindingInitInv, BindingStepInv, PTL DEF BindingSpec

\* A file somebody else put there is never destroyed by a writer that did not read it and was
\* not asked to replace it, whatever comes between the system calls of
\* write_family_binding.
THEOREM EditsAreKept == BindingSpec => EditsSurvive
<1> DEFINE Kept == EditSomething \/ \A f \in Files \ Files' :
             \E w \in Binders : f = w \/ (f = writer[w].original /\ w \in Replacing)
<1>1. BindingInv /\ [BindingNext]_bindingVars => [Kept]_bindingVars
  BY WriterStep DEF BindingNext, Harmless
<1> QED  BY <1>1, BindingInvariant, PTL DEF BindingSpec, EditsSurvive

-----------------------------------------------------------------------------
(* A migration: what is planned, what is staged, and what is left.         *)

HolderPlanned(p, plan) == [path |-> Holder[p], kind |-> "dir"] \in plan

\* What is planned may be planned, and what is still to be looked at was reached through a
\* directory of the plan.
Planning(s) ==
  /\ \A e \in s.plan :
       /\ e.path \notin Denied
       /\ e.path \in Versions => e.path = s.version
       /\ e.path \in Children => HolderPlanned(e.path, s.plan)
  /\ s.pc = "plan" => \A p \in s.todo :
       (p \in Versions => p = s.version) /\ (p \in Children => HolderPlanned(p, s.plan))

\* The stage holds what has been copied of the plan.
Staging(s, g) ==
  /\ s.pc = "copy" => s.left \subseteq s.plan /\ g.entries = s.plan \ s.left
  /\ s.pc = "publish" => g.entries = s.plan /\ g.version = s.version
  /\ g.body \in {"clean", "none"}

\* What becomes of the stage's name, and what the result says of the publication.
Leaving(s, g) ==
  /\ s.pc \in {"idle", "plan", "make"} => g.name = "absent"
  /\ s.pc \in {"idle", "plan", "make", "verify", "copy", "publish"} => ~s.published /\ s.result = "none"
  /\ s.pc \in {"stat-again", "rmdir"} => ~g.full
  /\ s.pc = "leave" => g.name # "ours"
  /\ s.pc = "end" /\ s.result # "killed" => g.name # "ours"
  /\ s.result = "ok" => s.published
  /\ s.published => s.result \in {"ok", "killed"}

Fits(s, g) == Planning(s) /\ Staging(s, g) /\ Leaving(s, g)

MigrationInv ==
  /\ MigrationTypeOK
  /\ \A m \in Migrators :
       /\ Fits(mig[m], stage[m])
       /\ mig[m].published <=> target.by = m
       /\ target.by = m =>
            /\ target.entries = mig[m].plan /\ target.version = mig[m].version
            /\ target.body \in {"clean", "none"}

USE NothingAssumption

LEMMA MigrationInitInv == MigrationInit => MigrationInv
<1> SUFFICES ASSUME MigrationInit PROVE MigrationInv
  OBVIOUS
<1>1. Idle \in MigratorState /\ NoStage \in StageState /\ NoTarget \in TargetState
  BY DEF Idle, NoStage, NoTarget, MigratorState, StageState, TargetState, Bodies
<1>2. Fits(Idle, NoStage) /\ ~Idle.published /\ NoTarget.by \notin Migrators
  BY DEF Fits, Planning, Staging, Leaving, Idle, NoStage, NoTarget
<1>3. source \in [Paths -> Kinds] /\ settings \in Bodies \ {"none"}
  BY DEF MigrationInit, Kinds, Bodies
<1> QED  BY <1>1, <1>2, <1>3 DEF MigrationInit, MigrationInv, MigrationTypeOK

\* A step of one migrator that does not publish.
LEMMA Moves ==
  ASSUME MigrationInv, NEW m \in Migrators, NEW s \in MigratorState, NEW g \in StageState,
         mig' = [mig EXCEPT ![m] = s], stage' = [stage EXCEPT ![m] = g],
         UNCHANGED <<outside, target>>, Fits(s, g),
         s.published = mig[m].published,
         s.published => s.plan = mig[m].plan /\ s.version = mig[m].version
  PROVE  MigrationInv'
<1>1. MigrationTypeOK'
  BY DEF MigrationInv, MigrationTypeOK, outside
<1>2. ASSUME NEW n \in Migrators
      PROVE  /\ Fits(mig'[n], stage'[n])
             /\ mig'[n].published = mig[n].published
             /\ mig[n].published => mig'[n].plan = mig[n].plan /\ mig'[n].version = mig[n].version
  BY DEF MigrationInv, MigrationTypeOK
<1> QED  BY <1>1, <1>2 DEF MigrationInv

LEMMA Shapes ==
  ASSUME MigrationInv, NEW m \in Migrators
  PROVE  /\ mig[m] \in MigratorState /\ stage[m] \in StageState /\ Fits(mig[m], stage[m])
         /\ stage = [stage EXCEPT ![m] = stage[m]]
BY DEF MigrationInv, MigrationTypeOK

\* The command ends.
LEMMA Gives ==
  ASSUME MigrationInv, NEW m \in Migrators, NEW at \in {"end", "spoiled"},
         NEW result \in {"none", "ok", "refused", "exists", "failed", "killed"},
         Give(m, at, result), UNCHANGED <<outside, target, stage>>,
         at = "end" /\ result # "killed" => stage[m].name # "ours",
         result = "ok" => mig[m].published,
         mig[m].published => result \in {"ok", "killed"}
  PROVE  MigrationInv'
<1> DEFINE s == [Idle EXCEPT !.pc = at, !.result = result,
                             !.plan = IF mig[m].published THEN mig[m].plan ELSE {},
                             !.version = IF mig[m].published THEN mig[m].version ELSE Nothing,
                             !.published = mig[m].published]
<1>1. /\ mig[m] \in MigratorState /\ stage[m] \in StageState /\ Fits(mig[m], stage[m])
      /\ stage' = [stage EXCEPT ![m] = stage[m]] /\ mig' = [mig EXCEPT ![m] = s]
  BY Shapes DEF Give
<1>2. /\ s.pc = at /\ s.result = result /\ s.published = mig[m].published
      /\ mig[m].published => s.plan = mig[m].plan /\ s.version = mig[m].version
      /\ ~mig[m].published => s.plan = {}
      /\ s \in MigratorState
  BY <1>1 DEF Idle, MigratorState
<1>3. Planning(s)
  BY <1>1, <1>2 DEF Fits, Planning
<1>4. Staging(s, stage[m]) /\ Leaving(s, stage[m])
  BY <1>1, <1>2 DEF Fits, Staging, Leaving
<1> HIDE DEF s
<1>5. UNCHANGED <<outside, target>>
  OBVIOUS
<1> QED  BY <1>1, <1>2, <1>3, <1>4, <1>5, Moves DEF Fits

\* The planning.
LEMMA LookStep ==
  ASSUME MigrationInv, NEW m \in Migrators, NEW p \in Paths, Look(m, p)
  PROVE  MigrationInv'
<1>0. /\ mig[m] \in MigratorState /\ stage[m] \in StageState /\ Fits(mig[m], stage[m])
      /\ stage' = [stage EXCEPT ![m] = stage[m]] /\ mig[m].pc = "plan" /\ p \in mig[m].todo
      /\ UNCHANGED <<outside, target>>
  BY Shapes DEF Look, Stands
<1>1. CASE Give(m, "end", "refused")
  <2>1. UNCHANGED <<outside, target, stage>>
    BY DEF Look
  <2> QED  BY <1>0, <1>1, <2>1, Gives DEF Fits, Leaving
<1>2. CASE Become(m, [mig[m] EXCEPT !.todo = mig[m].todo \ {p}])
  <2> DEFINE s == [mig[m] EXCEPT !.todo = mig[m].todo \ {p}]
  <2>1. s \in MigratorState /\ Fits(s, stage[m])
    BY <1>0 DEF MigratorState, Fits, Planning, Staging, Leaving
  <2> QED  BY <1>0, <1>2, <2>1, Moves DEF Become, MigratorState
<1>3. CASE /\ p \notin Denied /\ Acceptable(p)
           /\ Become(m, [mig[m] EXCEPT !.todo = (mig[m].todo \ {p}) \cup Listed(p),
                                       !.plan = @ \cup {Planned(p)}])
  <2> DEFINE s == [mig[m] EXCEPT !.todo = (mig[m].todo \ {p}) \cup Listed(p),
                                 !.plan = @ \cup {Planned(p)}]
  <2>1. /\ Planned(p) \in Entries /\ Planned(p).path = p /\ Listed(p) \subseteq Children
        /\ \A c \in Listed(p) : Planned(p) = [path |-> Holder[c], kind |-> "dir"]
    BY <1>3, TreeAssumption DEF Planned, Listed, Acceptable, Copyable, Entries, Paths, Tops
  <2>2. s \in MigratorState /\ s.plan = mig[m].plan \cup {Planned(p)}
        /\ s.todo = (mig[m].todo \ {p}) \cup Listed(p) /\ s.pc = "plan" /\ s.version = mig[m].version
        /\ s.published = mig[m].published /\ s.result = mig[m].result
    BY <1>0, <2>1 DEF MigratorState, Paths
  <2> HIDE DEF s
  <2>3. ASSUME NEW e \in s.plan
        PROVE  /\ e.path \notin Denied /\ (e.path \in Versions => e.path = s.version)
               /\ e.path \in Children => HolderPlanned(e.path, s.plan)
    BY <1>0, <1>3, <2>1, <2>2 DEF Fits, Planning, HolderPlanned
  <2>4. ASSUME NEW q \in s.todo
        PROVE  (q \in Versions => q = s.version) /\ (q \in Children => HolderPlanned(q, s.plan))
    BY <1>0, <2>1, <2>2, TreeAssumption DEF Fits, Planning, HolderPlanned, Tops
  <2>5. Fits(s, stage[m])
    BY <1>0, <2>2, <2>3, <2>4 DEF Fits, Planning, Staging, Leaving
  <2>6. mig' = [mig EXCEPT ![m] = s]
    BY <1>3 DEF Become, s
  <2> QED  BY <1>0, <2>2, <2>5, <2>6, Moves DEF Fits, Leaving
<1> QED  BY <1>1, <1>2, <1>3 DEF Look

LEMMA PlanStep ==
  ASSUME MigrationInv, NEW m \in Migrators,
         (\E plugin \in BOOLEAN : BeginPlan(m, plugin)) \/ AddPlugin(m) \/ BeginApply(m)
  PROVE  MigrationInv'
<1>0. /\ mig[m] \in MigratorState /\ stage[m] \in StageState /\ Fits(mig[m], stage[m])
      /\ stage' = [stage EXCEPT ![m] = stage[m]] /\ mig[m].pc \in {"idle", "plan"}
      /\ UNCHANGED <<outside, target, stage>>
  BY Shapes DEF BeginPlan, AddPlugin, BeginApply, Stands
<1>1. CASE \E result \in {"exists", "refused"} : Give(m, "end", result)
  BY <1>0, <1>1, Gives DEF Fits, Leaving
<1>2. ASSUME NEW plugin \in BOOLEAN, mig[m].pc = "idle",
             Become(m, [mig[m] EXCEPT !.pc = "plan", !.plugin = plugin,
                                      !.todo = {Settings} \cup Directories])
      PROVE  MigrationInv'
  <2> DEFINE s == [mig[m] EXCEPT !.pc = "plan", !.plugin = plugin,
                                 !.todo = {Settings} \cup Directories]
  <2>1. s \in MigratorState
    BY <1>0 DEF MigratorState, Paths, Tops
  <2>2. /\ s.pc = "plan" /\ s.todo = {Settings} \cup Directories /\ s.plan = mig[m].plan
        /\ s.version = mig[m].version /\ s.published = mig[m].published /\ s.result = mig[m].result
    BY <1>0 DEF MigratorState
  <2> HIDE DEF s
  <2>3. Planning(s)
    BY <1>0, <2>2, TreeAssumption DEF Fits, Planning, Tops
  <2>4. Staging(s, stage[m]) /\ Leaving(s, stage[m])
    BY <1>0, <1>2, <2>2 DEF Fits, Staging, Leaving
  <2>5. mig' = [mig EXCEPT ![m] = s]
    BY <1>2 DEF Become, s
  <2> QED  BY <1>0, <2>1, <2>2, <2>3, <2>4, <2>5, Moves DEF Fits
<1>3. CASE /\ mig[m].pc = "plan" /\ mig[m].version = Nothing /\ installed \in Versions
           /\ Become(m, [mig[m] EXCEPT !.version = installed, !.todo = {installed}])
  <2> DEFINE s == [mig[m] EXCEPT !.version = installed, !.todo = {installed}]
  <2>1. s \in MigratorState
    BY <1>0, <1>3 DEF MigratorState, Paths, Tops
  <2>2. /\ s.pc = "plan" /\ s.todo = {installed} /\ s.plan = mig[m].plan
        /\ s.version = installed /\ s.published = mig[m].published /\ s.result = mig[m].result
    BY <1>0, <1>3 DEF MigratorState
  <2> HIDE DEF s
  <2>3. Planning(s)
    BY <1>0, <1>3, <2>2, TreeAssumption DEF Fits, Planning, Tops, Paths
  <2>4. Staging(s, stage[m]) /\ Leaving(s, stage[m]) /\ ~s.published
    BY <1>0, <1>3, <2>2 DEF Fits, Staging, Leaving
  <2>5. mig' = [mig EXCEPT ![m] = s]
    BY <1>3 DEF Become, s
  <2> QED  BY <1>0, <2>1, <2>2, <2>3, <2>4, <2>5, Moves DEF Fits
<1>4. CASE mig[m].pc = "plan" /\ Goto(m, "make")
  <2> DEFINE s == [mig[m] EXCEPT !.pc = "make"]
  <2>1. s \in MigratorState /\ Fits(s, stage[m])
    BY <1>0, <1>4 DEF MigratorState, Fits, Planning, Staging, Leaving
  <2>2. /\ mig' = [mig EXCEPT ![m] = s] /\ s.published = mig[m].published
        /\ s.plan = mig[m].plan /\ s.version = mig[m].version
    BY <1>0, <1>4 DEF Goto, Become, MigratorState
  <2> HIDE DEF s
  <2> QED  BY <1>0, <2>1, <2>2, Moves
<1> QED  BY <1>0, <1>1, <1>2, <1>3, <1>4 DEF BeginPlan, AddPlugin, BeginApply, Stands

\* The copying.
LEMMA Abandons ==
  ASSUME MigrationInv, NEW m \in Migrators, mig[m].pc \in {"copy", "publish"},
         NEW result \in {"refused", "exists", "failed"}, Abandon(m, result),
         UNCHANGED <<outside, target>>, NEW g \in StageState,
         stage' = [stage EXCEPT ![m] = g], g.body = stage[m].body
  PROVE  MigrationInv'
<1> DEFINE s == [mig[m] EXCEPT !.pc = "stat", !.left = {}, !.result = result]
<1>1. mig[m] \in MigratorState /\ Fits(mig[m], stage[m])
  BY Shapes
<1>2. s \in MigratorState /\ Fits(s, g)
  BY <1>1 DEF MigratorState, Fits, Planning, Staging, Leaving
<1>3. mig' = [mig EXCEPT ![m] = s]
  BY DEF Abandon, Become
<1>4. UNCHANGED <<outside, target>>
  OBVIOUS
<1>5. s.published = mig[m].published /\ s.plan = mig[m].plan /\ s.version = mig[m].version
  BY <1>1 DEF MigratorState
<1> QED  BY <1>2, <1>3, <1>4, <1>5, Moves

LEMMA CopyStep ==
  ASSUME MigrationInv, NEW m \in Migrators,
         MakeStage(m) \/ VerifyStage(m) \/ (\E e \in Entries : Copy(m, e)) \/ Generate(m)
  PROVE  MigrationInv'
<1>0. /\ mig[m] \in MigratorState /\ stage[m] \in StageState /\ Fits(mig[m], stage[m])
      /\ stage = [stage EXCEPT ![m] = stage[m]]
      /\ UNCHANGED <<outside, target>>
  BY Shapes DEF MakeStage, VerifyStage, Copy, Generate
<1>1. CASE MakeStage(m)
  <2> DEFINE s == [mig[m] EXCEPT !.pc = "verify"]
             g == [NoStage EXCEPT !.name = "ours"]
  <2>1. s \in MigratorState /\ g \in StageState /\ mig[m].pc = "make"
    BY <1>0, <1>1 DEF MigratorState, StageState, NoStage, Bodies, MakeStage, Stands
  <2>2. Fits(s, g)
    BY <1>0, <2>1 DEF MigratorState, Fits, Planning, Staging, Leaving, NoStage
  <2>3. mig' = [mig EXCEPT ![m] = s] /\ stage' = [stage EXCEPT ![m] = g]
    BY <1>1 DEF MakeStage, Goto, Become
  <2> QED  BY <1>0, <2>1, <2>2, <2>3, Moves DEF MigratorState
<1>4. CASE VerifyStage(m)
  <2> DEFINE s == [mig[m] EXCEPT !.pc = "copy", !.left = mig[m].plan]
             g == [NoStage EXCEPT !.name = "ours", !.full = TRUE]
  <2>0. mig[m].pc = "verify" /\ ~mig[m].published
    BY <1>0, <1>4 DEF VerifyStage, Stands, Fits, Leaving
  <2>1. CASE Give(m, "spoiled", "failed") /\ UNCHANGED stage
    BY <1>0, <2>0, <2>1, Gives
  <2>2. CASE stage[m].name # "absent"
    <3>1. s \in MigratorState /\ g \in StageState
      BY <1>0 DEF MigratorState, StageState, NoStage, Bodies
    <3>2. Fits(s, g)
      BY <1>0, <2>0, <3>1 DEF MigratorState, Fits, Planning, Staging, Leaving, NoStage
    <3>3. mig' = [mig EXCEPT ![m] = s] /\ stage' = [stage EXCEPT ![m] = g]
      BY <1>4, <2>2 DEF VerifyStage, Become
    <3> QED  BY <1>0, <3>1, <3>2, <3>3, Moves DEF MigratorState
  <2> QED  BY <1>4, <2>1, <2>2 DEF VerifyStage
<1>2. ASSUME NEW e \in Entries, Copy(m, e)  PROVE MigrationInv'
  <2>0. mig[m].pc = "copy" /\ e \in mig[m].left
    BY <1>2 DEF Copy, Stands
  <2>1. CASE Abandon(m, "refused") /\ UNCHANGED stage
    BY <1>0, <2>0, <2>1, Abandons
  <2>2. CASE /\ e.path = Settings => settings = "clean"
             /\ Staged(m, e) /\ Become(m, [mig[m] EXCEPT !.left = @ \ {e}])
    <3> DEFINE s == [mig[m] EXCEPT !.left = @ \ {e}]
               g == [stage[m] EXCEPT !.entries = @ \cup {e},
                                     !.body = IF e.path = Settings THEN settings ELSE @]
    <3>1. mig' = [mig EXCEPT ![m] = s] /\ stage' = [stage EXCEPT ![m] = g]
      <4>1. stage \in [Migrators -> StageState]
        BY DEF MigrationInv, MigrationTypeOK
      <4>2. stage' = [stage EXCEPT ![m] = g]
        BY <2>2, <4>1 DEF Staged, StageState
      <4> QED  BY <2>2, <4>2 DEF Become
    <3>2. s \in MigratorState /\ g \in StageState
      BY <1>0, <2>2 DEF MigratorState, StageState, Bodies
    <3>3. Staging(s, g)
      BY <1>0, <2>0, <2>2 DEF MigratorState, StageState, Fits, Staging
    <3>4. Planning(s) /\ Leaving(s, g)
      BY <1>0, <2>0 DEF MigratorState, StageState, Fits, Planning, Leaving
    <3> QED  BY <1>0, <3>1, <3>2, <3>3, <3>4, Moves DEF MigratorState, Fits
  <2> QED  BY <1>2, <2>1, <2>2 DEF Copy
<1>3. CASE Generate(m)
  <2> DEFINE g == [stage[m] EXCEPT !.version = mig[m].version]
  <2>1. /\ mig[m].pc = "copy" /\ mig[m].left = {} /\ stage' = [stage EXCEPT ![m] = g]
        /\ g \in StageState /\ g.body = stage[m].body /\ g.version = mig[m].version
        /\ g.entries = stage[m].entries /\ g.name = stage[m].name /\ g.full = stage[m].full
    BY <1>0, <1>3 DEF Generate, Stands, MigrationInv, MigrationTypeOK, StageState, MigratorState
  <2> HIDE DEF g
  <2>2. CASE Abandon(m, "exists")
    BY <1>0, <2>1, <2>2, Abandons
  <2>3. CASE Goto(m, "publish")
    <3> DEFINE s == [mig[m] EXCEPT !.pc = "publish"]
    <3>1. s \in MigratorState /\ Fits(s, g)
      BY <1>0, <2>1 DEF MigratorState, Fits, Planning, Staging, Leaving
    <3> QED  BY <1>0, <2>1, <2>3, <3>1, Moves DEF Goto, Become, MigratorState
  <2> QED  BY <1>3, <2>2, <2>3 DEF Generate
<1> QED  BY <1>1, <1>2, <1>3, <1>4

\* The publication, the one step that makes the destination a migrator's.
LEMMA PublishStageStep ==
  ASSUME MigrationInv, NEW m \in Migrators, PublishStage(m)
  PROVE  MigrationInv'
<1>0. /\ mig[m] \in MigratorState /\ stage[m] \in StageState /\ Fits(mig[m], stage[m])
      /\ stage = [stage EXCEPT ![m] = stage[m]]
      /\ UNCHANGED outside /\ mig[m].pc = "publish"
  BY Shapes DEF PublishStage, Stands
<1>1. CASE Abandon(m, "exists") /\ UNCHANGED <<target, stage>>
  BY <1>0, <1>1, Abandons
<1>2. CASE /\ target.by = Nothing /\ target' = Published(m)
           /\ stage' = [stage EXCEPT ![m].full = FALSE]
           /\ Become(m, [mig[m] EXCEPT !.pc = "stat", !.published = TRUE, !.result = "ok"])
  <2> DEFINE s == [mig[m] EXCEPT !.pc = "stat", !.published = TRUE, !.result = "ok"]
             g == [stage[m] EXCEPT !.full = FALSE]
  <2>1. mig' = [mig EXCEPT ![m] = s] /\ stage' = [stage EXCEPT ![m] = g]
    BY <1>2 DEF Become, MigrationInv, MigrationTypeOK, StageState
  <2>2. s \in MigratorState /\ g \in StageState /\ Fits(s, g) /\ s.published
        /\ s.plan = mig[m].plan /\ s.version = mig[m].version
    BY <1>0 DEF MigratorState, StageState, Fits, Planning, Staging, Leaving
  <2>3. /\ target'.by = m /\ target'.entries = mig[m].plan /\ target'.version = mig[m].version
        /\ target'.body \in {"clean", "none"} /\ target' \in TargetState
    BY <1>0, <1>2 DEF Published, Fits, Staging, StageState, TargetState
  <2> HIDE DEF s, g
  <2>4. MigrationTypeOK'
    BY <1>0, <2>1, <2>2, <2>3 DEF MigrationInv, MigrationTypeOK, outside
  <2>5. ASSUME NEW n \in Migrators
        PROVE  Fits(mig'[n], stage'[n]) /\ (mig'[n].published <=> target'.by = n)
    BY <1>2, <2>1, <2>2, <2>3 DEF MigrationInv, MigrationTypeOK
  <2>6. mig'[m].plan = mig[m].plan /\ mig'[m].version = mig[m].version
    BY <2>1, <2>2 DEF MigrationInv, MigrationTypeOK
  <2> QED  BY <2>3, <2>4, <2>5, <2>6 DEF MigrationInv
<1> QED  BY <1>1, <1>2 DEF PublishStage

\* The removal of the stage.
LEMMA CleanStep ==
  ASSUME MigrationInv, NEW m \in Migrators,
         StatStage(m) \/ ClearStage(m) \/ StatAgain(m) \/ RemoveStage(m)
  PROVE  MigrationInv'
<1>0. /\ mig[m] \in MigratorState /\ stage[m] \in StageState /\ Fits(mig[m], stage[m])
      /\ stage = [stage EXCEPT ![m] = stage[m]]
      /\ UNCHANGED <<outside, target>>
  BY Shapes DEF StatStage, ClearStage, StatAgain, RemoveStage
<1>1. \E at \in {"clear", "leave", "stat-again", "rmdir"}, g \in StageState :
        /\ mig' = [mig EXCEPT ![m] = [mig[m] EXCEPT !.pc = at]]
        /\ stage' = [stage EXCEPT ![m] = g] /\ g.body = stage[m].body
        /\ mig[m].pc \in {"stat", "clear", "stat-again", "rmdir"}
        /\ at \in {"stat-again", "rmdir"} => ~g.full
        /\ at = "leave" => g.name # "ours"
  <2>1. CASE StatStage(m) \/ StatAgain(m)
    <3>1. CASE stage[m].name = "ours"
      BY <1>0, <2>1, <3>1 DEF StatStage, StatAgain, Goto, Become, Stands, Fits, Leaving
    <3>2. CASE stage[m].name # "ours"
      BY <1>0, <2>1, <3>2 DEF StatStage, StatAgain, Goto, Become, Stands
    <3> QED  BY <3>1, <3>2
  <2>2. CASE ClearStage(m)
    <3> DEFINE g == [stage[m] EXCEPT !.full = FALSE]
    <3>1. g \in StageState /\ stage' = [stage EXCEPT ![m] = g] /\ g.body = stage[m].body /\ ~g.full
      BY <1>0, <2>2 DEF StageState, ClearStage, MigrationInv, MigrationTypeOK
    <3> QED  BY <2>2, <3>1 DEF ClearStage, Goto, Become, Stands
  <2>3. CASE RemoveStage(m)
    <3> DEFINE g == [stage[m] EXCEPT !.name = IF @ = "empty" \/ (@ = "ours" /\ ~stage[m].full)
                                                THEN "absent" ELSE @]
    <3>1. g \in StageState /\ stage' = [stage EXCEPT ![m] = g] /\ g.body = stage[m].body
          /\ mig[m].pc = "rmdir"
      BY <1>0, <2>3 DEF StageState, RemoveStage, Stands, MigrationInv, MigrationTypeOK
    <3>2. g.name # "ours"
      BY <1>0, <3>1 DEF Fits, Leaving, StageState
    <3> QED  BY <2>3, <3>1, <3>2 DEF RemoveStage, Goto, Become
  <2> QED  BY <2>1, <2>2, <2>3
<1>2. PICK at \in {"clear", "leave", "stat-again", "rmdir"}, g \in StageState :
        /\ mig' = [mig EXCEPT ![m] = [mig[m] EXCEPT !.pc = at]]
        /\ stage' = [stage EXCEPT ![m] = g] /\ g.body = stage[m].body
        /\ mig[m].pc \in {"stat", "clear", "stat-again", "rmdir"}
        /\ at \in {"stat-again", "rmdir"} => ~g.full
        /\ at = "leave" => g.name # "ours"
  BY <1>1
<1> DEFINE s == [mig[m] EXCEPT !.pc = at]
<1>3. s \in MigratorState /\ Fits(s, g)
  BY <1>0, <1>2 DEF MigratorState, Fits, Planning, Staging, Leaving
<1> QED  BY <1>0, <1>2, <1>3, Moves DEF MigratorState

LEMMA EndStep ==
  ASSUME MigrationInv, NEW m \in Migrators, Leave(m) \/ MigrationFails(m) \/ MigrationKilled(m)
  PROVE  MigrationInv'
<1>0. /\ mig[m] \in MigratorState /\ stage[m] \in StageState /\ Fits(mig[m], stage[m])
      /\ stage' = [stage EXCEPT ![m] = stage[m]]
      /\ UNCHANGED <<outside, target, stage>>
  BY Shapes DEF Leave, MigrationFails, MigrationKilled
<1>1. CASE Leave(m)
  <2>1. mig[m].pc = "leave" /\ Give(m, "end", mig[m].result)
    BY <1>1 DEF Leave, Stands
  <2>2. mig[m].result \in {"none", "ok", "refused", "exists", "failed", "killed"}
    BY <1>0 DEF MigratorState
  <2> QED  BY <1>0, <2>1, <2>2, Gives DEF Fits, Leaving
<1>2. CASE MigrationKilled(m)
  <2>1. Give(m, "end", "killed")
    BY <1>2 DEF MigrationKilled
  <2> QED  BY <1>0, <2>1, Gives
<1>3. CASE MigrationFails(m)
  <2>1. CASE mig[m].pc \in {"plan", "make"}
    <3>1. Give(m, "end", "failed")
      BY <1>3, <2>1 DEF MigrationFails
    <3> QED  BY <1>0, <2>1, <3>1, Gives DEF Fits, Leaving
  <2>2. CASE mig[m].pc \in {"copy", "publish"}
    <3>1. Abandon(m, "failed")
      BY <1>3, <2>2 DEF MigrationFails
    <3> QED  BY <1>0, <2>2, <3>1, Abandons
  <2>3. CASE mig[m].pc \in {"stat", "clear", "stat-again", "rmdir"}
    <3>1. Give(m, "spoiled", mig[m].result)
      BY <1>3, <2>3 DEF MigrationFails
    <3>2. mig[m].result \in {"none", "ok", "refused", "exists", "failed", "killed"}
      BY <1>0 DEF MigratorState
    <3> QED  BY <1>0, <3>1, <3>2, Gives DEF Fits, Leaving
  <2>4. CASE mig[m].pc = "verify"
    <3>1. Give(m, "spoiled", "failed")
      BY <1>3, <2>4 DEF MigrationFails
    <3> QED  BY <1>0, <2>4, <3>1, Gives DEF Fits, Leaving
  <2> QED  BY <1>0, <1>3, <2>1, <2>2, <2>3, <2>4 DEF MigrationFails, MigratorState
<1> QED  BY <1>1, <1>2, <1>3

\* Everybody else.
LEMMA MeddleStep == ASSUME MigrationInv, Meddle  PROVE MigrationInv'
<1>1. CASE \/ \E p \in Paths, kind \in Kinds : EditSource(p, kind)
           \/ \E body \in Bodies \ {"none"} : EditSettings(body)
           \/ \E v \in Versions \cup {Nothing} : UpdatePlugin(v)
  <2>1. UNCHANGED <<target, mig, stage>>
    BY <1>1 DEF EditSource, EditSettings, UpdatePlugin
  <2>2. source' \in [Paths -> Kinds] /\ settings' \in Bodies \ {"none"}
        /\ installed' \in Versions \cup {Nothing} /\ changes' \in Nat
    BY <1>1 DEF EditSource, EditSettings, UpdatePlugin, Changing, MigrationInv, MigrationTypeOK, Kinds
  <2> QED  BY <2>1, <2>2 DEF MigrationInv, MigrationTypeOK
<1>2. CASE FirstRun
  <2>1. UNCHANGED <<source, settings, installed, mig, stage>> /\ changes' \in Nat
        /\ target.by = Nothing /\ target'.by = "run" /\ target' \in TargetState
    BY <1>2 DEF FirstRun, Changing, MigrationInv, MigrationTypeOK, NoTarget, TargetState, Bodies
  <2> QED  BY <2>1 DEF MigrationInv, MigrationTypeOK
<1>3. ASSUME NEW m \in Migrators, NEW guest \in {"absent", "empty", "theirs"}, SwapStage(m, guest)
      PROVE  MigrationInv'
  <2> DEFINE g == [stage[m] EXCEPT !.name = guest]
  <2>0. mig[m] \in MigratorState /\ stage[m] \in StageState /\ Fits(mig[m], stage[m])
    BY Shapes
  <2>1. UNCHANGED <<source, settings, installed, target, mig>> /\ changes' \in Nat
        /\ stage' = [stage EXCEPT ![m] = g] /\ stage[m].name = "ours"
    BY <1>3 DEF SwapStage, Changing, MigrationInv, MigrationTypeOK, StageState
  <2>2. g \in StageState /\ Fits(mig[m], g)
    BY <2>0, <2>1 DEF StageState, Fits, Planning, Staging, Leaving
  <2> QED  BY <2>1, <2>2 DEF MigrationInv, MigrationTypeOK
<1> QED  BY <1>1, <1>2, <1>3 DEF Meddle

LEMMA MigrationStepInv == MigrationInv /\ [MigrationNext]_migrationVars => MigrationInv'
<1> SUFFICES ASSUME MigrationInv, [MigrationNext]_migrationVars PROVE MigrationInv'
  OBVIOUS
<1>1. ASSUME NEW m \in Migrators, Migrate(m)  PROVE MigrationInv'
  BY <1>1, LookStep, PlanStep, CopyStep, PublishStageStep, CleanStep, EndStep DEF Migrate
<1>2. CASE UNCHANGED migrationVars
  BY <1>2 DEF migrationVars, outside, MigrationInv, MigrationTypeOK
<1> QED  BY <1>1, <1>2, MeddleStep DEF MigrationNext

\* What a migration knows of its plan, its stage and the destination (apply_claude_migration)
\* holds in every state, whoever else migrates or meddles.
THEOREM MigrationInvariant == MigrationSpec => []MigrationInv
BY MigrationInitInv, MigrationStepInv, PTL DEF MigrationSpec

\* What _rename_noreplace renames to the destination is the plan, whole, with nothing denied in
\* it and the settings cleaned, for any tree and any number of migrations.
THEOREM PlansArePublished == MigrationSpec => []PublishedIsPlan
<1>1. MigrationInv => PublishedIsPlan
  BY DEF MigrationInv, PublishedIsPlan, Fits, Planning, HolderPlanned
<1> QED  BY <1>1, MigrationInvariant, PTL

\* A migration that answers ok made the destination, one that fails did not, and one that was not
\* killed and met no error at the stat of its new stage (_create_outer_stage) or in the removal of
\* it (_remove_known_stage) leaves no stage.
THEOREM AnswersAreTrue == MigrationSpec => []AnswerIsTrue
<1>1. MigrationInv => AnswerIsTrue
  BY DEF MigrationInv, AnswerIsTrue, Fits, Leaving, Stands
<1> QED  BY <1>1, MigrationInvariant, PTL

\* _remove_known_stage leaves what somebody else put under the stage's name, other than an
\* empty directory, once _create_outer_stage has taken the stage's identity.
THEOREM GuestsAreSafe == MigrationSpec => GuestIsSafe
<1> DEFINE Safe == \A m \in Migrators : stage[m].name = "theirs" /\ ~Stands(m, "verify")
                                           => stage'[m].name = "theirs"
<1>1. MigrationInv /\ [MigrationNext]_migrationVars => [Safe]_migrationVars
  <2> SUFFICES ASSUME MigrationInv, MigrationNext, NEW m \in Migrators,
                      stage[m].name = "theirs", ~Stands(m, "verify")
               PROVE  stage'[m].name = "theirs"
    OBVIOUS
  <2>1. stage \in [Migrators -> StageState]
    BY DEF MigrationInv, MigrationTypeOK
  <2>2. mig[m].pc # "make"
    BY DEF MigrationInv, Fits, Leaving
  <2>3. CASE Meddle
    BY <2>1, <2>3 DEF Meddle, EditSource, EditSettings, UpdatePlugin, FirstRun, SwapStage, StageState
  <2>4. ASSUME NEW n \in Migrators, Migrate(n)  PROVE stage'[m].name = "theirs"
    <3>1. CASE MakeStage(n) \/ VerifyStage(n)
      BY <2>1, <2>2, <3>1 DEF MakeStage, VerifyStage, Stands, StageState
    <3>2. CASE RemoveStage(n)
      BY <2>1, <3>2 DEF RemoveStage, StageState
    <3>3. CASE \E e \in Entries : Copy(n, e)
      BY <2>1, <3>3 DEF Copy, Staged, StageState
    <3>4. CASE Generate(n) \/ PublishStage(n) \/ ClearStage(n)
      BY <2>1, <3>4 DEF Generate, PublishStage, ClearStage, StageState
    <3>5. CASE UNCHANGED stage
      BY <3>5
    <3> QED
      BY <2>4, <3>1, <3>2, <3>3, <3>4, <3>5 DEF Migrate, BeginPlan, Look, AddPlugin, BeginApply,
         StatStage, StatAgain, Leave, MigrationFails, MigrationKilled
  <2> QED  BY <2>3, <2>4 DEF MigrationNext
<1> QED  BY <1>1, MigrationInvariant, PTL DEF MigrationSpec, GuestIsSafe

-----------------------------------------------------------------------------
(* Handovers: the invariant says who owns an entry of the directory (Owned), *)
(* what a call that owns one has done (Owning), and that whatever a crash may *)
(* leave in the directory is on disk (Durable).                            *)

USE GuardedAssumption, EntryAssumption, AttemptsAssumption

Stages == \A w \in Writers :
  /\ pc[w] \in {"linked", "unlinked", "ok"} => published[w]
  /\ published[w] => pc[w] \in {"linked", "unlinked", "rollback", "sweep", "ok", "error"}
  /\ pc[w] = "error" => w \notin temps \/ broken[w]
  /\ pc[w] = "attempt" => w \notin temps
  /\ pc[w] = "unlinked" => w \notin temps
  /\ pc[w] \in {"publish", "retry"} \/ published[w] => w \in synced

\* A call between its link and its end owns the name it drew.
Owning == \A w \in Writers :
  (published[w] /\ pc[w] \in {"linked", "unlinked", "rollback"} /\ ~crashed)
    => entries[name[w]] = w

\* An entry belongs to a call that linked it and has not taken it back.
Owned == \A n \in Names : \A w \in Writers :
  (entries[n] = w /\ ~crashed) =>
    /\ name[w] = n /\ published[w]
    /\ pc[w] \in {"linked", "unlinked", "rollback", "ok"} \/ broken[w]

Durable ==
  /\ \A n \in Names : maybe[n] \cap Writers \subseteq synced
  /\ \A w \in Writers : pc[w] = "ok" => maybe[name[w]] = {w}

IInv == TypeOK /\ Stages /\ Owning /\ Owned /\ Durable

LEMMA InitIInv == Init => IInv
<1> SUFFICES ASSUME Init PROVE IInv
  OBVIOUS
<1> USE DEF Init
<1>1. TypeOK
  <2>1. maybe \in [Names -> SUBSET Entry] /\ entries \in [Names -> Entry]
    BY DEF Entry
  <2>2. \A n \in Names : entries[n] \in maybe[n]
    OBVIOUS
  <2>3. /\ pc \in [Writers -> Labels] /\ tries \in [Writers -> 0..MaxAttempts]
        /\ temps \subseteq Writers /\ synced \subseteq Writers
    BY DEF Labels
  <2>4. published \in [Writers -> BOOLEAN] /\ broken \in [Writers -> BOOLEAN]
        /\ revoked \in BOOLEAN /\ crashed \in BOOLEAN
    BY Zenon
  <2> QED  BY <2>1, <2>2, <2>3, <2>4 DEF TypeOK
<1>2. Stages /\ Owning /\ Owned
  BY DEF Stages, Owning, Owned
<1>3. Durable
  BY DEF Durable
<1> QED  BY <1>1, <1>2, <1>3 DEF IInv

\* A call that goes on without touching the directory keeps the invariant when the new
\* stage fits what it has published, left behind and synced.
LEMMA QuietStep ==
  ASSUME IInv, ~crashed, NEW w \in Writers, NEW label \in Labels, Move(w, label),
         UNCHANGED <<published, entries, maybe, revoked, crashed>>,
         tries' \in [Writers -> 0..MaxAttempts],
         name' \in [Writers -> Names],
         \A v \in Writers \ {w} : name'[v] = name[v],
         published[w] => name'[w] = name[w],
         temps' \in {temps, temps \cup {w}, temps \ {w}},
         synced' \in {synced, synced \cup {w}},
         broken' \in {broken, [broken EXCEPT ![w] = TRUE]},
         label \in {"linked", "unlinked", "ok"} => published[w],
         published[w] => label \in {"linked", "unlinked", "rollback", "sweep", "error"},
         published[w] /\ label \in {"linked", "unlinked", "rollback"} => pc[w] \in {"linked", "unlinked", "rollback"},
         published[w] /\ label \in {"sweep", "error"} => entries[name[w]] # w \/ broken'[w],
         label = "error" => w \notin temps' \/ broken'[w],
         label \in {"attempt", "unlinked"} => w \notin temps',
         label \in {"publish", "retry"} => w \in synced',
         label # "ok"
  PROVE  IInv'
<1> USE DEF IInv
<1>1. pc' = [pc EXCEPT ![w] = label] /\ pc' \in [Writers -> Labels]
  BY DEF Move, TypeOK
<1>2. pc'[w] = label /\ \A v \in Writers \ {w} : pc'[v] = pc[v]
  BY <1>1 DEF TypeOK
<1>3. broken' \in [Writers -> BOOLEAN]
  <2>1. [broken EXCEPT ![w] = TRUE] \in [Writers -> BOOLEAN]
    BY DEF TypeOK
  <2> QED  BY <2>1 DEF TypeOK
<1>4. \A v \in Writers \ {w} : broken'[v] = broken[v]
  BY DEF TypeOK
<1>5. broken[w] => broken'[w]
  BY DEF TypeOK
<1>6. TypeOK'
  BY <1>1, <1>3 DEF TypeOK
<1>7. Stages'
  BY <1>2, <1>4 DEF Stages
<1>8. Owning'
  BY <1>2 DEF Owning
<1>9. Owned'
  <2> SUFFICES ASSUME NEW n \in Names, NEW v \in Writers, entries[n] = v
               PROVE  /\ name'[v] = n /\ published[v]
                      /\ pc'[v] \in {"linked", "unlinked", "rollback", "ok"} \/ broken'[v]
    BY DEF Owned
  <2>1. name[v] = n /\ published[v] /\ (pc[v] \in {"linked", "unlinked", "rollback", "ok"} \/ broken[v])
    BY DEF Owned
  <2>2. CASE v # w
    BY <1>2, <1>4, <2>1, <2>2
  <2>3. CASE v = w
    BY <1>2, <1>5, <2>1, <2>3
  <2> QED  BY <2>2, <2>3
<1>10. Durable'
  BY <1>2 DEF Durable, Stages, TypeOK
<1> QED  BY <1>6, <1>7, <1>8, <1>9, <1>10

LEMMA PublishStep == ASSUME IInv, NEW w \in Writers, Publish(w) PROVE IInv'
<1> USE DEF IInv
<1>1. /\ ~crashed /\ pc[w] = "publish" /\ entries[name[w]] = Nobody /\ w \in synced
      /\ name[w] \in Names /\ w \in Entry
      /\ UNCHANGED <<tries, name, broken, temps, synced, revoked, crashed>>
  BY DEF Publish, At, Stages, TypeOK, Entry
<1>2. pc' = [pc EXCEPT ![w] = "linked"] /\ published' = [published EXCEPT ![w] = TRUE]
  BY DEF Publish, Move
<1>3. /\ entries' = [entries EXCEPT ![name[w]] = w]
      /\ maybe' = [maybe EXCEPT ![name[w]] = @ \cup {w}]
  BY DEF Publish, SetEntry
<1>4. TypeOK'
  <2>1. published' \in [Writers -> BOOLEAN]
    BY <1>2 DEF TypeOK
  <2>2. pc' \in [Writers -> Labels]
    BY <1>2 DEF TypeOK, Labels
  <2>3. entries' \in [Names -> Entry] /\ maybe' \in [Names -> SUBSET Entry]
        /\ \A n \in Names : entries'[n] \in maybe'[n]
    BY <1>1, <1>3 DEF TypeOK
  <2> QED  BY <1>1, <2>1, <2>2, <2>3 DEF TypeOK
<1>5. Stages'
  BY <1>1, <1>2 DEF Stages, TypeOK
<1>6. Owning'
  BY <1>1, <1>2, <1>3 DEF Owning, TypeOK
<1>7. Owned'
  BY <1>1, <1>2, <1>3 DEF Owned, TypeOK
<1>8. \A v \in Writers : pc[v] = "ok" => name[v] # name[w]
  <2> SUFFICES ASSUME NEW v \in Writers, pc[v] = "ok", name[v] = name[w] PROVE FALSE
    OBVIOUS
  <2>1. maybe[name[w]] = {v}
    BY DEF Durable
  <2> QED  BY <1>1, <2>1 DEF TypeOK
<1>9. Durable'
  BY <1>1, <1>2, <1>3, <1>8 DEF Durable, TypeOK
<1> QED  BY <1>4, <1>5, <1>6, <1>7, <1>9

LEMMA SyncDirectoryStep == ASSUME IInv, NEW w \in Writers, SyncDirectory(w) PROVE IInv'
<1> USE DEF IInv
<1>1. /\ ~crashed /\ pc[w] = "unlinked" /\ published[w] /\ entries[name[w]] = w /\ w \notin temps
      /\ UNCHANGED <<tries, name, published, broken, temps, synced, entries, revoked, crashed>>
  BY DEF SyncDirectory, At, Stages, Owning
<1>2. maybe' = [n \in Names |-> {entries[n]}]
  BY DEF SyncDirectory
<1>3. PICK label \in {"ok", "rollback"} : pc' = [pc EXCEPT ![w] = label]
  BY DEF SyncDirectory, Move
<1>4. TypeOK'
  <2>1. maybe' \in [Names -> SUBSET Entry] /\ \A n \in Names : entries'[n] \in maybe'[n]
    BY <1>1, <1>2 DEF TypeOK
  <2>2. pc' \in [Writers -> Labels]
    BY <1>3 DEF TypeOK, Labels
  <2> QED  BY <1>1, <2>1, <2>2 DEF TypeOK
<1>5. Stages' /\ Owning' /\ Owned'
  BY <1>1, <1>3 DEF Stages, Owning, Owned, TypeOK
<1>6. Durable'
  <2>1. \A n \in Names : maybe'[n] \subseteq maybe[n]
    BY <1>2 DEF TypeOK
  <2>2. \A v \in Writers : pc'[v] = "ok" => entries[name[v]] = v
    BY <1>1, <1>3 DEF Durable, TypeOK
  <2> QED  BY <1>1, <1>2, <2>1, <2>2 DEF Durable, TypeOK
<1> QED  BY <1>4, <1>5, <1>6

LEMMA RollBackFinalStep == ASSUME IInv, NEW w \in Writers, RollBackFinal(w) PROVE IInv'
<1> USE DEF IInv
<1>1. /\ ~crashed /\ pc[w] = "rollback" /\ Move(w, "sweep")
      /\ UNCHANGED <<tries, name, published, temps, synced, revoked, crashed>>
      /\ published[w] => entries[name[w]] = w
  BY DEF RollBackFinal, At, Owning
<1>2. CASE UNCHANGED <<entries, maybe>>
  <2>1. \/ ~published[w] /\ broken' = broken
        \/ broken' = [broken EXCEPT ![w] = TRUE]
        \/ published[w] /\ broken' = broken /\ entries' = [entries EXCEPT ![name[w]] = Nobody]
    BY DEF RollBackFinal, SetEntry
  <2>2. published[w] => entries[name[w]] # w \/ broken'[w]
    BY <1>2, <2>1 DEF TypeOK
  <2> QED  BY <1>1, <1>2, <2>1, <2>2, QuietStep DEF TypeOK, Labels
<1>3. CASE published[w] /\ SetEntry(name[w], Nobody) /\ UNCHANGED broken
  <2>1. /\ entries' = [entries EXCEPT ![name[w]] = Nobody]
        /\ maybe' = [maybe EXCEPT ![name[w]] = @ \cup {Nobody}]
        /\ name[w] \in Names /\ Nobody \in Entry
    BY <1>3 DEF SetEntry, TypeOK, Entry
  <2>2. pc' = [pc EXCEPT ![w] = "sweep"]
    BY <1>1 DEF Move
  <2>3. TypeOK'
    <3>1. entries' \in [Names -> Entry] /\ maybe' \in [Names -> SUBSET Entry]
          /\ \A n \in Names : entries'[n] \in maybe'[n]
      BY <2>1 DEF TypeOK
    <3>2. pc' \in [Writers -> Labels]
      BY <2>2 DEF TypeOK, Labels
    <3> QED  BY <1>1, <1>3, <3>1, <3>2 DEF TypeOK
  <2>4. Stages'
    BY <1>1, <1>3, <2>2 DEF Stages, TypeOK
  <2>5. \A v \in Writers \ {w} : entries[name[v]] = v => name[v] # name[w]
    BY <1>1, <1>3
  <2>6. Owning'
    BY <1>1, <2>1, <2>2, <2>5 DEF Owning, TypeOK
  <2>7. Owned'
    BY <1>1, <1>3, <2>1, <2>2 DEF Owned, TypeOK
  <2>8. \A v \in Writers : pc[v] = "ok" => name[v] # name[w]
    <3> SUFFICES ASSUME NEW v \in Writers, pc[v] = "ok", name[v] = name[w] PROVE FALSE
      OBVIOUS
    <3>1. maybe[name[w]] = {v} /\ v # w
      BY <1>1 DEF Durable
    <3> QED  BY <1>1, <1>3, <2>1, <3>1 DEF TypeOK
  <2>9. Durable'
    BY <1>1, <2>1, <2>2, <2>8 DEF Durable, TypeOK
  <2> QED  BY <2>3, <2>4, <2>6, <2>7, <2>9
<1> QED  BY <1>2, <1>3 DEF RollBackFinal

LEMMA CallStep == ASSUME IInv, NEW w \in Writers, Step(w) PROVE IInv'
<1> USE DEF IInv
<1>1. CASE BeginAttempt(w)
  <2>1. PICK n \in Names : name' = [name EXCEPT ![w] = n]
    BY <1>1 DEF BeginAttempt
  <2>2. /\ ~crashed /\ pc[w] = "attempt" /\ ~published[w] /\ w \notin temps
        /\ tries[w] < MaxAttempts /\ tries' = [tries EXCEPT ![w] = @ + 1]
        /\ UNCHANGED <<published, broken, synced, entries, maybe, revoked, crashed>>
    BY <1>1 DEF BeginAttempt, At, Stages
  <2>3. tries' \in [Writers -> 0..MaxAttempts]
    BY <2>2 DEF TypeOK
  <2>4. name' \in [Writers -> Names] /\ \A v \in Writers \ {w} : name'[v] = name[v]
    BY <2>1 DEF TypeOK
  <2>5. \/ Move(w, "write") /\ temps' = temps \cup {w}
        \/ Move(w, "error") /\ temps' = temps
    BY <1>1 DEF BeginAttempt
  <2> QED  BY <2>2, <2>3, <2>4, <2>5, QuietStep DEF Labels
<1>2. CASE GiveUp(w)
  <2>1. ~crashed /\ pc[w] = "attempt" /\ ~published[w] /\ w \notin temps
    BY <1>2 DEF GiveUp, At, Stages
  <2> QED  BY <1>2, <2>1, QuietStep DEF GiveUp, files, Labels, TypeOK
<1>3. CASE WriteDocument(w)
  <2>1. ~crashed /\ pc[w] = "write" /\ ~published[w]
    BY <1>3 DEF WriteDocument, At, Stages
  <2> QED  BY <1>3, <2>1, QuietStep DEF WriteDocument, Labels, TypeOK
<1>4. CASE Publish(w)
  BY <1>4, PublishStep
<1>5. CASE NameIsTaken(w) \/ PublishFails(w)
  <2>1. ~crashed /\ pc[w] = "publish" /\ ~published[w] /\ w \in synced
    BY <1>5 DEF NameIsTaken, PublishFails, At, Stages
  <2> QED  BY <1>5, <2>1, QuietStep DEF NameIsTaken, PublishFails, files, Labels, TypeOK
<1>6. CASE Retry(w)
  <2>1. ~crashed /\ pc[w] = "retry" /\ ~published[w]
    BY <1>6 DEF Retry, At, Stages
  <2>2. broken' = [broken EXCEPT ![w] = TRUE] => broken'[w]
    BY DEF TypeOK
  <2> QED  BY <1>6, <2>1, <2>2, QuietStep DEF Retry, Labels, TypeOK
<1>7. CASE UnlinkTemporary(w)
  <2>1. ~crashed /\ pc[w] = "linked" /\ published[w]
    BY <1>7 DEF UnlinkTemporary, At, Stages
  <2> QED  BY <1>7, <2>1, QuietStep DEF UnlinkTemporary, Labels, TypeOK
<1>8. CASE SyncDirectory(w)
  BY <1>8, SyncDirectoryStep
<1>9. CASE RollBackFinal(w)
  BY <1>9, RollBackFinalStep
<1>10. CASE SweepTemporary(w)
  <2>1. ~crashed /\ pc[w] = "sweep"
    BY <1>10 DEF SweepTemporary, At
  <2>2. broken' = [broken EXCEPT ![w] = TRUE] => broken'[w]
    BY DEF TypeOK
  <2>3. published[w] => entries[name[w]] # w \/ broken[w]
    BY <2>1 DEF Owned, TypeOK
  <2> QED  BY <1>10, <2>1, <2>2, <2>3, QuietStep DEF SweepTemporary, Labels, TypeOK
<1> QED
  BY <1>1, <1>2, <1>3, <1>4, <1>5, <1>6, <1>7, <1>8, <1>9, <1>10 DEF Step

\* A crash keeps a part of the directory; what was answered is not among what it may undo.
LEMMA CrashStep == ASSUME IInv, Crash PROVE IInv'
<1> USE DEF IInv
<1>1. PICK left \in [Names -> Entry] :
        /\ \A n \in Names : left[n] \in maybe[n]
        /\ entries' = left
        /\ maybe' = [n \in Names |-> {left[n]}]
  BY DEF Crash
<1>2. crashed' = TRUE /\ UNCHANGED <<calls, temps, synced, revoked>>
  BY DEF Crash
<1>3. TypeOK'
  BY <1>1, <1>2 DEF TypeOK, calls
<1>4. Stages' /\ Owning' /\ Owned'
  BY <1>2 DEF Stages, Owning, Owned, calls
<1>5. Durable'
  BY <1>1, <1>2 DEF Durable, calls, TypeOK
<1> QED  BY <1>3, <1>4, <1>5

LEMMA StepIInv == IInv /\ [Next]_vars => IInv'
<1> SUFFICES ASSUME IInv, [Next]_vars PROVE IInv'
  OBVIOUS
<1>1. CASE Deactivate \/ UNCHANGED vars
  <2>1. UNCHANGED <<pc, tries, name, published, broken, temps, synced, entries, maybe, crashed>>
    BY <1>1 DEF Deactivate, vars, calls, files
  <2>2. revoked' \in BOOLEAN
    BY <1>1, Zenon DEF Deactivate, vars, IInv, TypeOK
  <2>3. TypeOK'
    BY <2>1, <2>2 DEF IInv, TypeOK
  <2> QED  BY <2>1, <2>3 DEF IInv, Stages, Owning, Owned, Durable
<1>2. CASE Next
  BY <1>1, <1>2, CallStep, CrashStep DEF Next
<1> QED  BY <1>1, <1>2

\* What one step may do to an entry.
LEMMA EntryStep ==
  ASSUME IInv, Next, ~crashed', NEW n \in Names, entries'[n] # entries[n]
  PROVE  \E w \in Writers :
           \/ entries[n] = Nobody /\ entries'[n] = w /\ ~Refused(w)
           \/ entries[n] = w /\ entries'[n] = Nobody /\ pc[w] = "rollback"
<1> USE DEF IInv
<1>1. ~Deactivate /\ ~Crash
  BY DEF Deactivate, Crash, files
<1>2. PICK w \in Writers : Step(w)
  BY <1>1 DEF Next
<1>3. CASE Publish(w)
  <2>1. entries[name[w]] = Nobody /\ entries' = [entries EXCEPT ![name[w]] = w] /\ ~Refused(w)
    BY <1>3 DEF Publish, SetEntry
  <2> QED  BY <2>1 DEF TypeOK
<1>4. CASE RollBackFinal(w)
  <2>1. /\ ~crashed /\ pc[w] = "rollback" /\ published[w]
        /\ entries' = [entries EXCEPT ![name[w]] = Nobody]
    BY <1>4 DEF RollBackFinal, At, SetEntry
  <2>2. entries[name[w]] = w
    BY <2>1 DEF Owning
  <2> QED  BY <2>1, <2>2 DEF TypeOK
<1> QED
  BY <1>2, <1>3, <1>4 DEF Step, BeginAttempt, GiveUp, WriteDocument, NameIsTaken, PublishFails,
     Retry, UnlinkTemporary, SyncDirectory, SweepTemporary, files

\* The invariant that everything below rests on.
THEOREM WriterInvariant == Spec => []IInv
BY InitIInv, StepIInv, PTL DEF Spec

\* No partial document is ever visible, before or after a crash.
THEOREM VisibleIsWhole == Spec => []NoPartialDocument
<1>1. IInv => NoPartialDocument
  BY DEF IInv, TypeOK, Durable, NoPartialDocument
<1> QED  BY <1>1, WriterInvariant, PTL

\* A document that was answered for survives a crash.
THEOREM AnsweredIsKept == Spec => []AnswerIsDurable
<1>1. IInv => AnswerIsDurable
  BY DEF IInv, TypeOK, Durable, AnswerIsDurable
<1> QED  BY <1>1, WriterInvariant, PTL

\* A call that failed and could roll back has left nothing.
THEOREM FailedIsGone == Spec => []FailureLeavesNothing
<1>1. IInv => FailureLeavesNothing
  BY DEF IInv, TypeOK, Stages, Owned, FailureLeavesNothing
<1> QED  BY <1>1, WriterInvariant, PTL

\* Nobody replaces a document of somebody else.
THEOREM DocumentsAreKept == Spec => NoReplacement
<1> DEFINE Kept == \A n \in Names :
             (entries[n] # Nobody /\ entries'[n] # entries[n] /\ ~crashed')
               => entries'[n] = Nobody /\ entries[n] \in Writers /\ pc[entries[n]] = "rollback"
<1>1. IInv /\ [Next]_vars => [Kept]_vars
  <2> SUFFICES ASSUME IInv, Next PROVE Kept
    OBVIOUS
  <2> QED  BY EntryStep
<1> QED  BY <1>1, WriterInvariant, PTL DEF Spec, NoReplacement

\* A session that is closed publishes nothing more.
THEOREM RevokedIsQuiet == Spec => RevokedPublishesNothing
<1> DEFINE Quiet == revoked /\ ~crashed' =>
             \A n \in Names : entries'[n] # entries[n] => entries'[n] \notin Guarded
<1>1. IInv /\ [Next]_vars => [Quiet]_vars
  <2> SUFFICES ASSUME IInv, Next PROVE Quiet
    OBVIOUS
  <2> QED  BY EntryStep DEF Refused
<1> QED  BY <1>1, WriterInvariant, PTL DEF Spec, RevokedPublishesNothing

-----------------------------------------------------------------------------
(* The shelf: what a crash may leave under a name was put there by the call *)
(* that drew it, and a document from before stays alone (Remains).         *)

Remains ==
  \A n \in Names :
    /\ Earlier \in maybe[n] => maybe[n] = {Earlier}
    /\ \A w \in Writers : w \in maybe[n] => published[w] /\ name[w] = n

ShelfInv == IInv /\ Remains

LEMMA InitRemains == Init => Remains
BY DEF Init, Remains

LEMMA StepRemains == ASSUME ShelfInv, [Next]_vars PROVE Remains'
<1> USE DEF ShelfInv
<1>0. /\ \A n \in Names : entries[n] \in maybe[n] /\ maybe[n] \subseteq Entry
      /\ maybe \in [Names -> SUBSET Entry] /\ name \in [Writers -> Names]
      /\ published \in [Writers -> BOOLEAN]
  BY DEF IInv, TypeOK
<1>1. CASE UNCHANGED <<name, published, maybe>>
  BY <1>1 DEF Remains
<1>2. ASSUME Crash PROVE Remains'
  <2>1. PICK left \in [Names -> Entry] :
          /\ \A n \in Names : left[n] \in maybe[n]
          /\ maybe' = [n \in Names |-> {left[n]}]
    BY <1>2 DEF Crash
  <2>2. UNCHANGED <<name, published>>
    BY <1>2 DEF Crash, calls
  <2> QED  BY <2>1, <2>2 DEF Remains
<1>3. ASSUME NEW w \in Writers, Step(w), ~UNCHANGED <<name, published, maybe>> PROVE Remains'
  <2>1. CASE BeginAttempt(w)
    <3>1. PICK n \in Names : name' = [name EXCEPT ![w] = n]
      BY <2>1 DEF BeginAttempt
    <3>2. ~published[w] /\ UNCHANGED <<published, maybe>>
      BY <2>1 DEF BeginAttempt, At, IInv, Stages
    <3> QED  BY <1>0, <3>1, <3>2 DEF Remains
  <2>2. CASE Publish(w)
    <3>1. /\ published' = [published EXCEPT ![w] = TRUE] /\ UNCHANGED name
          /\ maybe' = [maybe EXCEPT ![name[w]] = @ \cup {w}] /\ entries[name[w]] = Nobody
      BY <2>2 DEF Publish, SetEntry
    <3>2. Earlier \notin maybe[name[w]]
      BY <1>0, <3>1 DEF Remains
    <3> QED  BY <1>0, <3>1, <3>2 DEF Remains
  <2>3. CASE SyncDirectory(w)
    <3>1. maybe' = [n \in Names |-> {entries[n]}] /\ UNCHANGED <<name, published>>
      BY <2>3 DEF SyncDirectory
    <3> QED  BY <1>0, <3>1 DEF Remains
  <2>4. CASE RollBackFinal(w)
    <3>1. /\ UNCHANGED <<name, published>> /\ published[w] /\ pc[w] = "rollback" /\ ~crashed
          /\ maybe' = [maybe EXCEPT ![name[w]] = @ \cup {Nobody}]
      BY <1>3, <2>4 DEF RollBackFinal, SetEntry, At
    <3>2. entries[name[w]] = w
      BY <3>1 DEF IInv, Owning
    <3>3. Earlier \notin maybe[name[w]]
      BY <1>0, <3>2 DEF Remains
    <3> QED  BY <1>0, <3>1, <3>3 DEF Remains
  <2> QED
    BY <1>3, <2>1, <2>2, <2>3, <2>4 DEF Step, GiveUp, WriteDocument, NameIsTaken, PublishFails,
       Retry, UnlinkTemporary, SweepTemporary, files
<1> QED
  BY <1>1, <1>2, <1>3 DEF Next, Deactivate, vars, calls, files

\* What a reader finds is what the directory says.
LEMMA NothingPartial == ASSUME IInv PROVE Visible = entries
BY DEF IInv, TypeOK, Durable, Visible

LEMMA InitShelf == Init => Shelf!Init
<1> SUFFICES ASSUME Init PROVE Shelf!Init
  OBVIOUS
<1>1. Visible = entries
  BY InitIInv, NothingPartial
<1>2. Offers = {} /\ Answers = {}
  BY DEF Init, Offers, Answers
<1> QED  BY <1>1, <1>2 DEF Init, Shelf!Init

\* A step of a call that only it can see.
LEMMA UnseenStep ==
  ASSUME UNCHANGED <<Visible, Offers, revoked, crashed>>, Answers' = Answers
  PROVE  UNCHANGED Shelf!vars
BY DEF Shelf!vars

LEMMA ShelfStep == ShelfInv /\ ShelfInv' /\ [Next]_vars => [Shelf!Next]_(Shelf!vars)
<1> SUFFICES ASSUME ShelfInv, ShelfInv', [Next]_vars PROVE Shelf!Next \/ UNCHANGED Shelf!vars
  BY DEF Shelf!vars
<1> USE DEF ShelfInv
<1>0. Visible = entries /\ Visible' = entries'
  <2>1. Visible' = entries'
    BY DEF IInv, TypeOK, Durable, Visible
  <2> QED  BY <2>1, NothingPartial
<1>1. CASE UNCHANGED vars
  <2>1. UNCHANGED <<Offers, Answers, entries, revoked, crashed>>
    BY <1>1 DEF vars, calls, files, Offers, Answers
  <2> QED  BY <1>0, <2>1, UnseenStep
<1>2. CASE Deactivate
  <2>1. UNCHANGED <<Offers, Answers, entries, crashed>> /\ ~crashed /\ revoked' = TRUE
    BY <1>2 DEF Deactivate, calls, files, Offers, Answers
  <2>2. Shelf!Shut
    BY <1>0, <2>1 DEF Shelf!Shut
  <2> QED  BY <2>2 DEF Shelf!Next
<1>3. CASE Crash
  <2>1. PICK left \in [Names -> Entry] :
          (\A n \in Names : left[n] \in maybe[n]) /\ entries' = left
    BY <1>3 DEF Crash
  <2>2. /\ UNCHANGED <<Offers, Answers, revoked, pc, name, published>>
        /\ ~crashed /\ crashed' = TRUE
    BY <1>3 DEF Crash, calls, Offers, Answers
  <2>3. \A n \in Names : entries'[n] \in Shelf!Left(n)
    <3> SUFFICES ASSUME NEW n \in Names PROVE left[n] \in Shelf!Left(n)
      BY <2>1
    <3>0. left[n] \in maybe[n] /\ entries[n] \in maybe[n] /\ left[n] \in Entry
      BY <2>1 DEF IInv, TypeOK
    <3>1. CASE entries[n] = Earlier
      BY <1>0, <3>0, <3>1 DEF Remains, Shelf!Left, Shelf!Kept
    <3>2. CASE entries[n] \in Answers
      <4>1. name[entries[n]] = n /\ maybe[n] = {entries[n]}
        BY <3>0, <3>2 DEF Answers, Remains, IInv, Durable
      <4> QED  BY <1>0, <3>0, <3>2, <4>1 DEF Shelf!Left, Shelf!Kept
    <3>3. CASE entries[n] # Earlier /\ entries[n] \notin Answers
      <4>1. left[n] # Earlier
        BY <3>0, <3>3 DEF Remains
      <4>2. left[n] \in Writers => left[n] \notin Answers /\ <<left[n], n>> \in Offers
        BY <3>0, <3>3 DEF Remains, Answers, Offers, IInv, Durable
      <4> QED  BY <1>0, <3>0, <3>3, <4>1, <4>2 DEF Entry, Shelf!Left, Shelf!Kept
    <3> QED  BY <3>1, <3>2, <3>3
  <2>4. Shelf!Crash
    BY <1>0, <2>1, <2>2, <2>3 DEF Shelf!Crash, Entry
  <2> QED  BY <2>4 DEF Shelf!Next
<1>4. ASSUME NEW w \in Writers, Step(w) PROVE Shelf!Next \/ UNCHANGED Shelf!vars
  <2>0. /\ name[w] \in Names /\ ~crashed /\ UNCHANGED <<revoked, crashed>>
        /\ pc \in [Writers -> Labels] /\ published \in [Writers -> BOOLEAN]
        /\ entries \in [Names -> Entry] /\ name \in [Writers -> Names]
    BY <1>4 DEF IInv, TypeOK, Step, At, BeginAttempt, GiveUp, WriteDocument, Publish, NameIsTaken,
       PublishFails, Retry, UnlinkTemporary, SyncDirectory, RollBackFinal, SweepTemporary
  <2>1. CASE BeginAttempt(w)
    <3>1. PICK n \in Names : name' = [name EXCEPT ![w] = n]
      BY <2>1 DEF BeginAttempt
    <3>2. PICK label \in {"write", "error"} : pc' = [pc EXCEPT ![w] = label]
      BY <2>1 DEF BeginAttempt, Move
    <3>3. /\ ~published[w] /\ pc[w] = "attempt" /\ UNCHANGED <<published, entries>>
      BY <2>1 DEF BeginAttempt, At, IInv, Stages
    <3>4. Offers' = Offers /\ Answers' = Answers
      BY <2>0, <3>1, <3>2, <3>3 DEF Offers, Answers
    <3> QED  BY <1>0, <2>0, <3>3, <3>4, UnseenStep
  <2>2. CASE \/ GiveUp(w) \/ WriteDocument(w) \/ NameIsTaken(w) \/ PublishFails(w) \/ Retry(w)
             \/ UnlinkTemporary(w) \/ SweepTemporary(w)
    <3>1. PICK label \in Labels \ {"ok"} : pc' = [pc EXCEPT ![w] = label]
      BY <2>2 DEF GiveUp, WriteDocument, NameIsTaken, PublishFails, Retry, UnlinkTemporary,
         SweepTemporary, Move, Labels
    <3>2. pc[w] # "ok" /\ UNCHANGED <<name, published, entries>>
      BY <2>2 DEF GiveUp, WriteDocument, NameIsTaken, PublishFails, Retry, UnlinkTemporary,
         SweepTemporary, At, files
    <3>3. Offers' = Offers /\ Answers' = Answers
      BY <2>0, <3>1, <3>2 DEF Offers, Answers
    <3> QED  BY <1>0, <2>0, <3>2, <3>3, UnseenStep
  <2>3. CASE Publish(w)
    <3>1. /\ pc[w] = "publish" /\ ~Refused(w) /\ entries[name[w]] = Nobody /\ UNCHANGED name
          /\ pc' = [pc EXCEPT ![w] = "linked"] /\ published' = [published EXCEPT ![w] = TRUE]
          /\ entries' = [entries EXCEPT ![name[w]] = w]
      BY <2>3 DEF Publish, At, Move, SetEntry
    <3>2. ~published[w]
      BY <3>1 DEF IInv, Stages
    <3>3. Offers' = Offers \cup {<<w, name[w]>>} /\ \A m \in Names : <<w, m>> \notin Offers
      BY <2>0, <3>1, <3>2 DEF Offers
    <3>4. Answers' = Answers
      BY <2>0, <3>1 DEF Answers
    <3>5. Shelf!Put(w, name[w])
      BY <1>0, <2>0, <3>1, <3>3, <3>4 DEF Shelf!Put, Refused
    <3> QED  BY <2>0, <3>5 DEF Shelf!Next
  <2>4. CASE SyncDirectory(w)
    <3>1. /\ pc[w] = "unlinked" /\ UNCHANGED <<name, published, entries>>
      BY <2>4 DEF SyncDirectory, At
    <3>2. entries[name[w]] = w
      BY <2>0, <3>1 DEF IInv, Stages, Owning
    <3>3. Offers' = Offers
      BY <3>1 DEF Offers
    <3>4. CASE Move(w, "rollback")
      <4>1. Answers' = Answers
        BY <2>0, <3>1, <3>4 DEF Answers, Move
      <4> QED  BY <1>0, <2>0, <3>1, <3>3, <4>1, UnseenStep
    <3>5. CASE Move(w, "ok")
      <4>1. Answers' = Answers \cup {w} /\ w \notin Answers
        BY <2>0, <3>1, <3>5 DEF Answers, Move
      <4>2. Shelf!Answer(w, name[w])
        BY <1>0, <2>0, <3>1, <3>2, <3>3, <4>1 DEF Shelf!Answer
      <4> QED  BY <2>0, <4>2 DEF Shelf!Next
    <3> QED  BY <2>4, <3>4, <3>5 DEF SyncDirectory
  <2>5. CASE RollBackFinal(w)
    <3>1. /\ pc[w] = "rollback" /\ UNCHANGED <<name, published>>
          /\ pc' = [pc EXCEPT ![w] = "sweep"]
      BY <2>5 DEF RollBackFinal, At, Move
    <3>2. Offers' = Offers /\ Answers' = Answers /\ w \notin Answers
      BY <2>0, <3>1 DEF Offers, Answers
    <3>3. CASE entries' = entries
      BY <1>0, <2>0, <3>2, <3>3, UnseenStep
    <3>4. CASE published[w] /\ entries' = [entries EXCEPT ![name[w]] = Nobody]
      <4>1. entries[name[w]] = w
        BY <2>0, <3>1, <3>4 DEF IInv, Owning
      <4>2. Shelf!TakeBack(w, name[w])
        BY <1>0, <2>0, <3>2, <3>4, <4>1 DEF Shelf!TakeBack
      <4> QED  BY <2>0, <4>2 DEF Shelf!Next
    <3> QED  BY <2>5, <3>3, <3>4 DEF RollBackFinal, SetEntry
  <2> QED  BY <1>4, <2>1, <2>2, <2>3, <2>4, <2>5 DEF Step
<1> QED  BY <1>1, <1>2, <1>3, <1>4 DEF Next

\* create_atomic_handover keeps the promise of the shelf: for any calls, names, retries, failed
\* rollbacks and a crash at any step, a document is put on a free place once and whole, only its
\* writer takes it back, only before the answer, and a crash loses nothing that was answered for.
THEOREM HandoversAreShelved == Spec => ImplementsShelf
<1>1. Init => ShelfInv
  BY InitIInv, InitRemains DEF ShelfInv
<1>2. ShelfInv /\ [Next]_vars => ShelfInv'
  BY StepIInv, StepRemains DEF ShelfInv
<1> QED  BY <1>1, <1>2, InitShelf, ShelfStep, PTL DEF Spec, ImplementsShelf, Shelf!Spec

=============================================================================
