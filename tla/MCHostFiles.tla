----------------------------- MODULE MCHostFiles -----------------------------
(***************************************************************************)
(* Three components that publish files on the host, none of which touches  *)
(* another's: the hand-over writer, the migration and the family binding.  *)
(* One run checks the three, and in each of its behaviours one of them     *)
(* moves: what one does says nothing about the others.                     *)
(***************************************************************************)
EXTENDS HandoverWriter, ProjectMigration, FamilyBinding, TLC

CONSTANTS dir, v1, v2, child, denied, cached

MCHolder == (child :> dir) @@ (denied :> dir) @@ (cached :> v1)

HostInit == Init /\ MigrationInit /\ BindingInit

\* A component that has not moved; while another does, it starts in one way only.
WriterStill ==
  /\ ~revoked /\ ~crashed /\ \A w \in Writers : tries[w] = 0
  /\ name = [w \in Writers |-> CHOOSE n \in Names : TRUE]
  /\ \A n \in Names : entries[n] = Nobody
MigrationStill == changes = 0 /\ installed = v1 /\ \A m \in Migrators : Stands(m, "idle")
BindingStill == BindingInit /\ binding = Vacant

\* Bound: a component moves while the others have not.
HostNext ==
  \/ MigrationStill /\ BindingStill /\ Next /\ UNCHANGED <<migrationVars, bindingVars>>
  \/ WriterStill /\ BindingStill /\ MigrationNext /\ UNCHANGED <<vars, bindingVars>>
  \/ WriterStill /\ MigrationStill /\ BindingNext /\ UNCHANGED <<vars, migrationVars>>

HostSpec == HostInit /\ [][HostNext]_<<vars, migrationVars, bindingVars>>

\* Bound: two migrators at once only while nobody else changes anything, and one of them at a
\* time plans or copies: both read what does not change and write what is their own.
Alone ==
  Cardinality({m \in Migrators : ~Stands(m, "idle")}) > 1 =>
    changes = 0 /\ Cardinality({m \in Migrators : mig[m].pc \in {"plan", "copy"}}) <= 1

Same == Permutations(Migrators)

=============================================================================
