----------------------------- MODULE MCAdmission -----------------------------
(***************************************************************************)
(* Four components that decide what to let in, none of which touches       *)
(* another's state: the replay window, the ancestry of a peer, the token   *)
(* of the family App and the registration of a project.  One run checks    *)
(* the four, and in each of its behaviours one of them moves.              *)
(***************************************************************************)
EXTENDS ReplayWindow, PeerAncestry, FamilyCredential, MCProjectAdd

CONSTANTS p1, a1, g1

AdmissionInit == Init /\ WalkInit /\ CredentialInit /\ AddInit

\* A component that has not moved; while another does, it starts in one way only.
WindowStill == next = 0 /\ ~closed
WalkStill == forks = 2 /\ phase = "idle" /\ root.pid = Reaper /\ Alive(p1)
CredentialStill ==
  /\ installs = 0 /\ approval.pc = "preview" /\ binding = g1 /\ disk[1].app = a1
  /\ \A app \in Apps : reach[app] = {g1}
AddStill == policy = NoPolicy /\ \A c \in Commands : command[c] = Waiting

\* Bound: a component moves while the others have not.
AdmissionNext ==
  \/ WalkStill /\ CredentialStill /\ AddStill
     /\ Next /\ UNCHANGED <<walkVars, credentialVars, addVars>>
  \/ WindowStill /\ CredentialStill /\ AddStill
     /\ WalkNext /\ UNCHANGED <<vars, credentialVars, addVars>>
  \/ WindowStill /\ WalkStill /\ AddStill
     /\ CredentialNext /\ UNCHANGED <<vars, walkVars, addVars>>
  \/ WindowStill /\ WalkStill /\ CredentialStill
     /\ AddNext /\ UNCHANGED <<vars, walkVars, credentialVars>>

AdmissionSpec ==
  AdmissionInit /\ [][AdmissionNext]_<<vars, walkVars, credentialVars, addVars>>

Same == Permutations(Commands)

=============================================================================
