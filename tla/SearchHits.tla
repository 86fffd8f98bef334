----------------------------- MODULE SearchHits -----------------------------
(***************************************************************************)
(* What a run of the research loop may rely on when it asks for sources:   *)
(* at most the capacity it has left, each URL once, none it already knows. *)
(* TavilySearch is shown to answer only such lists; ResearchRun assumes no *)
(* more of its search adapter.                                             *)
(***************************************************************************)
EXTENDS Naturals, Sequences

CONSTANTS
  Url,        \* URLs, as spelled: the code compares strings
  Queries,    \* queries of a plan: its four, cut to the policy's number
  MaxSources  \* policy.max_sources

Hits(U, capacity, excluded) ==
  {s \in UNION {[1..n -> U \ excluded] : n \in 0..capacity} :
     \A i, j \in DOMAIN s : s[i] = s[j] => i = j}
=============================================================================
