----------------------------- MODULE MCA2AStore -----------------------------
(* The instance of A2AStore that TLC explores: the sets are model values.  *)
EXTENDS A2AStore, TLC

CONSTANTS t1, o1, o2, r1, r2, c1, c2, s1, s2, s3

MCTask == {t1}
MCOwner == {o1, o2}
MCRun == {r1, r2}
MCCommitment == {c1, c2}
MCSession == {s1, s2, s3}

MCSymmetry == Permutations(MCOwner) \cup Permutations(MCRun)
                \cup Permutations(MCCommitment) \cup Permutations(MCSession)

=============================================================================
