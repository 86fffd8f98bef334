--------------------------- MODULE MCTavilySearch ---------------------------
(* TavilySearch on three URLs, two queries and answers of up to two URLs.  *)
EXTENDS TavilySearch

CONSTANTS u1, u2, u3

MCUrl == {u1, u2, u3}
MCSymmetry == Permutations(MCUrl)
=============================================================================
