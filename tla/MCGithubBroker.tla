---------------------------- MODULE MCGithubBroker ----------------------------
(* Two connections, two work branches and one protected branch.           *)
EXTENDS GithubBroker, TLC

CONSTANTS c1, c2, work, next, main, a, b

Update(ref, old, new) == [ref |-> ref, old |-> old, new |-> new]

\* An update, a deletion, a creation together with one of the protected branch, and two
\* creations.
MCPushes == {
  {Update(work, a, b)},
  {Update(work, a, Zero)},
  {Update(work, Zero, a), Update(main, Zero, a)},
  {Update(work, Zero, a), Update(next, Zero, a)} }

MCClients == {c1, c2}
MCRefs == {work, next, main}
MCWork == {work, next}
MCOids == {a, b}

\* Others leave the protected branch alone and write one of the work branches with one value.
Quiet == refs[main] = a /\ refs[next] # b

Same == Permutations(MCClients)

=============================================================================
