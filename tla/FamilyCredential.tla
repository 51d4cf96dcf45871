-------------------------- MODULE FamilyCredential --------------------------
(***************************************************************************)
(* From the family App's two files to one POST: what                       *)
(* FamilyInstallationTokenProvider.get (family_github_app.py) reads and    *)
(* looks at again, and how approve_family_issue (family_cli.py) uses it    *)
(* twice, for the inventory and for the Issue.                             *)
(*                                                                         *)
(* The operator installs other files meanwhile, each by a rename or by     *)
(* writing over it, one after the other, rebinds the project, and changes  *)
(* what the installation may reach on GitHub; time passes the margin of a  *)
(* token.  A file is the inode and the writing of it that is there: no     *)
(* writing brings back the same one, and one that is read while it is      *)
(* written is another writing, which nobody signs with or decodes.  The    *)
(* directories above them stay where they are.                             *)
(*                                                                         *)
(* The record's life cycle, its lock and its audit are FamilyPending's;    *)
(* here the approval has them and goes on, or ends.                        *)
(***************************************************************************)
EXTENDS Integers, FiniteSets

CONSTANTS
  Apps,          \* Apps: a client ID with its installation, or the key of one
  Repositories,
  Nothing,
  MaxInstalls    \* bound: what the operator does

Tokens == [app : Apps, serial : Nat, fresh : BOOLEAN]

ASSUME CredentialAssumption ==
  /\ Nothing \notin Apps \cup Repositories /\ Nothing \notin Nat /\ Nothing \notin Tokens
  /\ Apps # {} /\ MaxInstalls \in Nat

VARIABLES
  disk,        \* [inodes -> what was written there last]
  installed,   \* the inodes of the two files
  together,    \* the pairs of writings that were in place at one moment since the last signature
  reach,       \* [Apps -> the repositories of its installation]
  binding,     \* the repository the project is bound to
  installs,    \* how much the operator has done
  cached,      \* the provider's token
  approval     \* the approving command

outsiders == <<disk, installed, together, reach, binding, installs>>
credentialVars == <<outsiders, cached, approval>>

Inodes == 1..(MaxInstalls + 2)
File(writing, app) == [writing |-> writing, app |-> app]
Opened(which) == [inode |-> installed[which], file |-> disk[installed[which]]]
NoFile == [inode |-> 0, file |-> File(0, Nothing)]
OpenedFile == [inode : 0..(MaxInstalls + 2), file : [writing : Nat, app : Apps \cup {Nothing}]]

CredentialInit ==
  /\ installed = [app |-> 1, key |-> 2]
  /\ \E a \in Apps : disk = [i \in Inodes |-> File(IF i \in {1, 2} THEN 1 ELSE 0, a)]
  /\ together = {<<1, 1>>}
  /\ reach \in [Apps -> {{r} : r \in Repositories}]
  /\ binding \in Repositories
  /\ installs = 0
  /\ cached = Nothing
  /\ approval = [pc |-> "preview", use |-> "inventory", shown |-> Nothing,
                 app |-> NoFile, key |-> NoFile, issued |-> 0,
                 verified |-> Nothing, aged |-> FALSE, sent |-> Nothing]

-----------------------------------------------------------------------------
(* The operator, GitHub and the clock                                      *)

Installing == installs < MaxInstalls /\ installs' = installs + 1

Put(which, inode, app) ==
  /\ Installing
  /\ installed' = [installed EXCEPT ![which] = inode]
  /\ disk' = [disk EXCEPT ![inode] = File(installs + 2, app)]
  /\ together' = together \cup {<<disk'[installed'.app].writing, disk'[installed'.key].writing>>}
  /\ UNCHANGED <<reach, binding, cached, approval>>

\* A rename brings another inode, writing over it the same one.
ReplaceFile(which, app) == Put(which, installs + 3, app)
RewriteFile(which, app) == Put(which, installed[which], app)

SelectRepositories(app, repositories) ==
  /\ Installing /\ reach[app] # repositories
  /\ reach' = [reach EXCEPT ![app] = repositories]
  /\ UNCHANGED <<disk, installed, together, binding, cached, approval>>

Rebind(repository) ==
  /\ Installing /\ binding # repository /\ binding' = repository
  /\ UNCHANGED <<disk, installed, together, reach, cached, approval>>

\* The cached token comes within TOKEN_REFRESH_MARGIN_SECONDS of its expiry.
Age ==
  /\ cached # Nothing /\ cached.fresh
  /\ cached' = [cached EXCEPT !.fresh = FALSE]
  /\ approval' = [approval EXCEPT !.aged = TRUE]
  /\ UNCHANGED outsiders

-----------------------------------------------------------------------------
(* The provider                                                            *)

OnTurn(pc) == approval.pc = pc
GoTo(pc) == approval' = [approval EXCEPT !.pc = pc]

\* Without a token the approval ends: denied before it is sending, pending again after.
NoToken == GoTo(IF approval.use = "inventory" THEN "denied" ELSE "pending")

\* _open_private_entry keeps the descriptor; the name may lead elsewhere afterwards.
OpenApp ==
  /\ OnTurn("open app")
  /\ approval' = [approval EXCEPT !.pc = "open key", !.app = Opened("app")]
  /\ UNCHANGED <<outsiders, cached>>

\* The cached token is returned only when both files could be read.
OpenKey ==
  /\ OnTurn("open key")
  /\ approval' = [approval EXCEPT !.key = Opened("key"),
                    !.pc = IF cached # Nothing /\ cached.fresh THEN approval.use ELSE "sign"]
  /\ UNCHANGED <<outsiders, cached>>

\* openssl reads a sealed copy of the key: the file may change, the copy may not.
SignToken ==
  /\ OnTurn("sign") /\ GoTo("names")
  /\ together' = {<<disk[installed.app].writing, disk[installed.key].writing>>}
  /\ UNCHANGED <<disk, installed, reach, binding, installs, cached>>

SameName(which, opened) == installed[which] = opened.inode

\* _verify_material_after_sign: both names, then both contents through the descriptors.
VerifyNames ==
  /\ OnTurn("names")
  /\ IF SameName("app", approval.app) THEN GoTo("key name") ELSE NoToken
  /\ UNCHANGED <<outsiders, cached>>

VerifyKeyName ==
  /\ OnTurn("key name")
  /\ IF SameName("key", approval.key) THEN GoTo("contents") ELSE NoToken
  /\ UNCHANGED <<outsiders, cached>>

SameContents(opened) == disk[opened.inode] = opened.file

VerifyContents ==
  /\ OnTurn("contents")
  /\ IF SameContents(approval.app) THEN GoTo("key contents") ELSE NoToken
  /\ UNCHANGED <<outsiders, cached>>

\* Mutant: the key was copied and sealed, so that it need not be looked at again.
VerifyKeyContents_Sealed ==
  /\ OnTurn("key contents") /\ GoTo("exchange")
  /\ UNCHANGED <<outsiders, cached>>

VerifyKeyContents ==
  /\ OnTurn("key contents")
  /\ IF SameContents(approval.key) THEN GoTo("exchange") ELSE NoToken
  /\ UNCHANGED <<outsiders, cached>>

\* GitHub knows the App by the key it signed with; permissions and selection are exact.
ExchangeToken ==
  /\ OnTurn("exchange")
  /\ IF approval.app.file.app = approval.key.file.app
       THEN /\ cached' = [app |-> approval.app.file.app, serial |-> approval.issued + 1, fresh |-> TRUE]
            /\ approval' = [approval EXCEPT !.pc = approval.use, !.issued = @ + 1]
       ELSE NoToken /\ UNCHANGED cached
  /\ UNCHANGED outsiders

-----------------------------------------------------------------------------
(* The approval                                                            *)

\* _approval_preview, up to the confirmation.
ShowBinding ==
  /\ OnTurn("preview")
  /\ approval' = [approval EXCEPT !.pc = "confirmed", !.shown = binding]
  /\ UNCHANGED <<outsiders, cached>>

\* Under the lock the binding is loaded again, and the provider made.
BeginPreflight ==
  /\ OnTurn("confirmed")
  /\ GoTo(IF binding = approval.shown THEN "open app" ELSE "denied")
  /\ UNCHANGED <<outsiders, cached>>

\* verify_family_repository: the inventory of this token is the bound repository and no other.
VerifyInventory ==
  /\ OnTurn("inventory")
  /\ IF reach[cached.app] = {approval.shown}
       THEN approval' = [approval EXCEPT !.pc = "recheck", !.verified = cached.serial]
       ELSE GoTo("denied")
  /\ UNCHANGED <<outsiders, cached>>

\* Mutant: the sending gets a token of its own.
BeginSending_OwnToken ==
  /\ OnTurn("recheck")
  /\ approval' = [approval EXCEPT !.pc = IF binding = approval.shown THEN "open app" ELSE "denied",
                                  !.use = "issue"]
  /\ cached' = Nothing
  /\ UNCHANGED outsiders

\* The binding once more, the expiry, the record that says sending, and create's tokens.get().
BeginSending ==
  /\ OnTurn("recheck")
  /\ approval' = [approval EXCEPT !.pc = IF binding = approval.shown THEN "open app" ELSE "denied",
                                  !.use = "issue"]
  /\ UNCHANGED <<outsiders, cached>>

\* The body goes to the repository that was shown; GitHub lets the token reach it or not.
PostIssue ==
  /\ OnTurn("issue")
  /\ approval' = [approval EXCEPT !.pc = IF approval.shown \in reach[cached.app]
                                           THEN "created" ELSE "unknown",
                                  !.sent = cached.serial]
  /\ UNCHANGED <<outsiders, cached>>

\* An error of the files, of openssl or of the network: before the body is sent the approval
\* is denied or pending again, after that its outcome is unknown.
ApprovalFails ==
  /\ \/ approval.pc \in {"open app", "open key", "sign", "names", "key name", "contents",
                         "key contents", "exchange"} /\ NoToken
     \/ OnTurn("inventory") /\ GoTo("denied")
     \/ OnTurn("issue") /\ GoTo("pending")
     \/ /\ OnTurn("issue")
        /\ approval' = [approval EXCEPT !.pc = "unknown", !.sent = cached.serial]
  /\ UNCHANGED <<outsiders, cached>>

Operate ==
  \/ \E which \in {"app", "key"}, app \in Apps : ReplaceFile(which, app) \/ RewriteFile(which, app)
  \/ \E app \in Apps, repositories \in SUBSET Repositories : SelectRepositories(app, repositories)
  \/ \E r \in Repositories : Rebind(r)
  \/ Age

Approve ==
  \/ ShowBinding \/ BeginPreflight
  \/ OpenApp \/ OpenKey \/ SignToken \/ VerifyNames \/ VerifyKeyName \/ VerifyContents
  \/ VerifyKeyContents \/ ExchangeToken
  \/ VerifyInventory \/ BeginSending \/ PostIssue \/ ApprovalFails

CredentialNext == Operate \/ Approve

CredentialSpec == CredentialInit /\ [][CredentialNext]_credentialVars

-----------------------------------------------------------------------------
(* Properties                                                              *)

ApprovalState ==
  [pc : {"preview", "confirmed", "open app", "open key", "sign", "names", "key name", "contents",
         "key contents", "exchange", "inventory", "recheck", "issue",
         "denied", "pending", "created", "unknown"},
   use : {"inventory", "issue"}, shown : Repositories \cup {Nothing},
   app : OpenedFile, key : OpenedFile, issued : Nat,
   verified : Nat \cup {Nothing}, aged : BOOLEAN, sent : Nat \cup {Nothing}]

\* The shape of the files, the token and the approval.
CredentialTypeOK ==
  /\ disk \in [Inodes -> [writing : Nat, app : Apps]]
  /\ installed \in [{"app", "key"} -> Inodes] /\ together \subseteq Nat \X Nat
  /\ reach \in [Apps -> SUBSET Repositories] /\ binding \in Repositories
  /\ installs \in 0..MaxInstalls
  /\ cached \in Tokens \cup {Nothing} /\ approval \in ApprovalState

\* A token is asked for only with an App and a key that were both in place at one moment
\* after the signature, although each is read, and looked at again, at a moment of its own,
\* and the operator changes them one after the other (_verify_material_after_sign).
SignedPairWasInstalled ==
  OnTurn("exchange") => <<approval.app.file.writing, approval.key.file.writing>> \in together

\* The body is sent with the very token whose inventory was the bound repository alone, or
\* with one that took the place of it when its margin had passed (create asks the provider
\* again, and the provider's cache is what ties the two).
SentTokenWasVerified ==
  approval.sent # Nothing =>
    approval.verified # Nothing /\ (approval.sent = approval.verified \/ approval.aged)

=============================================================================
