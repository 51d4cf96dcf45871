---------------------------- MODULE FamilyBinding ----------------------------
(***************************************************************************)
(* The file that binds a family project to its repository, as              *)
(* write_family_binding (family_state.py) writes it: writers that hold the *)
(* lock of the file one at a time put a new file there with a link when    *)
(* there was none, and else with an exchange of the two names, after which *)
(* they look at what they took out.                                        *)
(*                                                                         *)
(* Editors do not know of the lock: they rename a file of theirs over the  *)
(* binding, or remove it, between any two system calls of a writer, which  *)
(* may also fail or be killed there.  family bind calls it for a new       *)
(* binding only; its default is to replace.                                *)
(*                                                                         *)
(* A file is an inode: the writer's or the editor's who made it, or the    *)
(* one that was there.  Whether its body decodes is a property of it.      *)
(***************************************************************************)
EXTENDS FiniteSets

CONSTANTS
  Binders,    \* calls of write_family_binding
  Replacing,  \* those with replace_existing
  Editors,    \* files an editor puts in place
  Present,    \* the file that was there
  Garbled,    \* files that do not decode
  Vacant

Inodes == Binders \cup Editors \cup {Present}

ASSUME WriterAssumption == Replacing \subseteq Binders /\ Garbled \subseteq Editors
ASSUME InodeAssumption ==
  /\ Vacant \notin Inodes /\ Present \notin Binders \cup Editors
  /\ Binders \cap Editors = {}

VARIABLES
  binding,   \* the inode under the binding's name, or Vacant
  spare,     \* [Binders -> the inode under the writer's temporary name, or Vacant]
  holder,    \* who holds the lock
  writer,    \* [Binders -> [pc, original, published, result]]
  unused     \* the editors' files that are still to come

bindingVars == <<binding, spare, holder, writer, unused>>

BindingInit ==
  /\ binding \in {Vacant, Present}
  /\ spare = [w \in Binders |-> Vacant]
  /\ holder = Vacant
  /\ writer = [w \in Binders |->
                 [pc |-> "idle", original |-> Vacant, published |-> FALSE, result |-> "none"]]
  /\ unused = Editors

-----------------------------------------------------------------------------
(* The writer                                                              *)

Works(w, pc) == writer[w].pc = pc
Continue(w, pc) == writer' = [writer EXCEPT ![w].pc = pc]

\* The finally block comes next: with an error, or with what has been done.
Unwind(w, result) == writer' = [writer EXCEPT ![w].pc = "unwind", ![w].result = result]

Lock(w) ==
  /\ Works(w, "idle") /\ holder = Vacant
  /\ holder' = w /\ Continue(w, "snapshot")
  /\ UNCHANGED <<binding, spare, unused>>

\* _validate_private_file wants one link: a file that a killed writer linked and whose
\* temporary name it did not remove cannot be read.
OneLink == \A w \in Binders : spare[w] # binding
Readable == binding \notin Garbled /\ OneLink

\* _snapshot reads the file that is there, if one is.
Snapshot(w) ==
  /\ Works(w, "snapshot")
  /\ IF binding # Vacant /\ ~Readable THEN Unwind(w, "refused")
     ELSE IF binding # Vacant /\ w \notin Replacing THEN Unwind(w, "exists")
     ELSE writer' = [writer EXCEPT ![w].pc = "write", ![w].original = binding]
  /\ UNCHANGED <<binding, spare, holder, unused>>

\* The temporary file, created, written and synced.
WriteSpare(w) ==
  /\ Works(w, "write")
  /\ spare' = [spare EXCEPT ![w] = w]
  /\ Continue(w, IF writer[w].original = Vacant THEN "link" ELSE "check")
  /\ UNCHANGED <<binding, holder, unused>>

\* link refuses to replace.
Link(w) ==
  /\ Works(w, "link")
  /\ IF binding = Vacant
       THEN /\ binding' = w
            /\ writer' = [writer EXCEPT ![w].pc = "unlink", ![w].published = TRUE]
       ELSE Unwind(w, "failed") /\ UNCHANGED binding
  /\ UNCHANGED <<spare, holder, unused>>

CheckOriginal(w) ==
  /\ Works(w, "check")
  /\ IF binding = writer[w].original /\ OneLink THEN Continue(w, "exchange") ELSE Unwind(w, "refused")
  /\ UNCHANGED <<binding, spare, holder, unused>>

Swap(w) == binding' = spare[w] /\ spare' = [spare EXCEPT ![w] = binding]

\* Mutant: os.replace after the check.
Exchange_Replacing(w) ==
  /\ Works(w, "exchange")
  /\ binding' = spare[w] /\ spare' = [spare EXCEPT ![w] = Vacant]
  /\ writer' = [writer EXCEPT ![w].pc = "sync", ![w].published = TRUE]
  /\ UNCHANGED <<holder, unused>>

\* RENAME_EXCHANGE needs both names.
Exchange(w) ==
  /\ Works(w, "exchange")
  /\ IF binding = Vacant
       THEN Unwind(w, "failed") /\ UNCHANGED <<binding, spare>>
       ELSE Swap(w) /\ Continue(w, "look")
  /\ UNCHANGED <<holder, unused>>

\* What came out is what was snapshotted, or goes back.
LookAtReplaced(w) ==
  /\ Works(w, "look")
  /\ writer' = [writer EXCEPT ![w].pc = IF spare[w] = writer[w].original THEN "unlink" ELSE "back",
                              ![w].published = spare[w] = writer[w].original]
  /\ UNCHANGED <<binding, spare, holder, unused>>

ExchangeBack(w) ==
  /\ Works(w, "back")
  /\ IF binding = Vacant
       THEN Unwind(w, "failed") /\ UNCHANGED <<binding, spare>>
       ELSE Swap(w) /\ Unwind(w, "refused")
  /\ UNCHANGED <<holder, unused>>

\* _unlink_owned: the inode is looked at before the name is removed.
RemoveSpare(w, inode) ==
  spare' = [spare EXCEPT ![w] = IF @ = inode THEN Vacant ELSE @]

UnlinkSpare(w) ==
  /\ Works(w, "unlink")
  /\ RemoveSpare(w, IF writer[w].original = Vacant THEN w ELSE writer[w].original)
  /\ Continue(w, "sync")
  /\ UNCHANGED <<binding, holder, unused>>

SyncParent(w) ==
  /\ Works(w, "sync") /\ Unwind(w, "ok")
  /\ UNCHANGED <<binding, spare, holder, unused>>

\* A temporary file that was not published is removed, if it is still the writer's own.
Unlock(w) ==
  /\ Works(w, "unwind")
  /\ IF writer[w].published THEN UNCHANGED spare ELSE RemoveSpare(w, w)
  /\ holder' = Vacant /\ Continue(w, "end")
  /\ UNCHANGED <<binding, unused>>

WriteFails(w) ==
  /\ writer[w].pc \notin {"idle", "unwind", "end"} /\ Unwind(w, "failed")
  /\ UNCHANGED <<binding, spare, holder, unused>>

WriterKilled(w) ==
  /\ writer[w].pc \notin {"idle", "end"} /\ holder' = Vacant
  /\ writer' = [writer EXCEPT ![w].pc = "end", ![w].result = "killed"]
  /\ UNCHANGED <<binding, spare, unused>>

-----------------------------------------------------------------------------
(* The editors                                                             *)

Edit(e) ==
  /\ e \in unused /\ unused' = unused \ {e} /\ binding' = e
  /\ UNCHANGED <<spare, holder, writer>>

\* One removal stands for a file that does not come.
Remove(e) ==
  /\ e \in unused /\ binding # Vacant /\ unused' = unused \ {e} /\ binding' = Vacant
  /\ UNCHANGED <<spare, holder, writer>>

Write(w) ==
  \/ Lock(w) \/ Snapshot(w) \/ WriteSpare(w) \/ Link(w)
  \/ CheckOriginal(w) \/ Exchange(w) \/ LookAtReplaced(w) \/ ExchangeBack(w)
  \/ UnlinkSpare(w) \/ SyncParent(w) \/ Unlock(w)
  \/ WriteFails(w) \/ WriterKilled(w)

EditSomething == \E e \in Editors : Edit(e) \/ Remove(e)

BindingNext == (\E w \in Binders : Write(w)) \/ EditSomething

BindingSpec == BindingInit /\ [][BindingNext]_bindingVars

-----------------------------------------------------------------------------
(* Properties                                                              *)

WriterState ==
  [pc : {"idle", "snapshot", "write", "link", "check", "exchange", "look", "back", "unlink",
         "sync", "unwind", "end"},
   original : Inodes \cup {Vacant}, published : BOOLEAN,
   result : {"none", "ok", "refused", "exists", "failed", "killed"}]

\* The shape of the names, of the lock and of a writer.
BindingTypeOK ==
  /\ binding \in Inodes \cup {Vacant} /\ unused \subseteq Editors
  /\ spare \in [Binders -> Inodes \cup {Vacant}]
  /\ holder \in Binders \cup {Vacant}
  /\ writer \in [Binders -> WriterState]

Files == ({binding} \cup {spare[w] : w \in Binders}) \ {Vacant}

\* No writer destroys a file that somebody else put there, even when it comes between its
\* last look and the exchange: it deletes its own file, or the one it had read and was asked
\* to replace, and nothing else (write_family_binding, _unlink_owned).
EditsSurvive ==
  [][\/ EditSomething
     \/ \A f \in Files \ Files' :
          \E w \in Binders : f = w \/ (f = writer[w].original /\ w \in Replacing)]_bindingVars

=============================================================================
