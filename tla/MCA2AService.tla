---------------------------- MODULE MCA2AService ----------------------------
(* The instances of A2AService that TLC explores: the sets are model values. *)
EXTENDS A2AService, TLC

CONSTANTS t1, o1, o2, r1, r2, c1, h1, h2, h3

OneTask == {t1}
TwoOwners == {o1, o2}
OneRun == {r1}
TwoRuns == {r1, r2}
OneCommitment == {c1}
TwoCalls == {h1, h2}
ThreeCalls == {h1, h2, h3}

Symmetry == Permutations(Owner) \cup Permutations(Run)
              \cup Permutations(Commitment) \cup Permutations(Call)
              \cup Permutations(Task)

=============================================================================
