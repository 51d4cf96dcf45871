---------------------------- MODULE MCProjectAdd ----------------------------
(* Three commands, two of them at once, for one project.                   *)
EXTENDS ProjectAdd, Integers, TLC

CONSTANTS i1, i2, r1, r2

Want(repo, id, setup) == [repo |-> repo, id |-> id, setup |-> setup]

\* With either ID, without one, without a broker for another repository, and from setup.sh.
MCRequests == {Want(r1, i1, FALSE), Want(r1, i2, FALSE), Want(r1, Legacy, FALSE),
               Want(r2, Plain, FALSE), Want(r1, Plain, TRUE)}

\* bin/setup.sh and nothing else.
SetupOnly == {Want(r1, Plain, TRUE)}

TwoAtOnce == Cardinality({c \in Commands : Runs(c)}) <= 2

=============================================================================
