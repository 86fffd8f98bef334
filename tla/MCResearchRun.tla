--------------------------- MODULE MCResearchRun ----------------------------
(* ResearchRun on three URLs and two contents.  The requests: no seeds, one *)
(* seed that was reached by a redirect and is the authority, the same with  *)
(* an authority that is not among the seeds, a seed repeated, and one seed  *)
(* more than the source budget.                                             *)
EXTENDS ResearchRun

CONSTANTS u1, u2, u3, c1, c2

MCUrl == {u1, u2, u3}
MCContent == {c1, c2}

Seed(u, f, c) == [url |-> u, final |-> f, content |-> c]

MCRequests ==
  {[seeds |-> <<>>, authority |-> {}],
   [seeds |-> <<Seed(u1, u2, c1)>>, authority |-> {<<u2, c1>>}],
   [seeds |-> <<Seed(u1, u1, c1)>>, authority |-> {<<u2, c1>>}],
   [seeds |-> <<Seed(u1, u1, c1), Seed(u2, u1, c1)>>, authority |-> {}],
   [seeds |-> <<Seed(u1, u1, c1), Seed(u2, u2, c2), Seed(u3, u3, c2)>>,
    authority |-> {}]}
=============================================================================
