--------------------------- MODULE MCFamilyPending ---------------------------
(* Instances of FamilyPending for TLC.                                     *)
EXTENDS FamilyPending, TLC

CONSTANTS r1, r2, p1, p2

OneRequest == {r1}
TwoRequests == {r1, r2}

\* The two requests ask for the same Issue.
SecondRequest == {r2}

SameContent == [r \in TwoRequests |-> "text"]

ProcSymmetry == Permutations({p1, p2})

=============================================================================
