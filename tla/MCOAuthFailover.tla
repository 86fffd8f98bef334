--------------------------- MODULE MCOAuthFailover --------------------------
(* OAuthFailover with interchangeable threads.                             *)
EXTENDS OAuthFailover, TLC

MCSymmetry == Permutations(Thread)
=============================================================================
