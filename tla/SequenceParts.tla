----------------------------- MODULE SequenceParts -----------------------------
(***************************************************************************)
(* Filters, sums and joins over sequences, as functions of the position.   *)
(***************************************************************************)
EXTENDS Integers, Sequences

\* The members of s at the positions in is, in their order.
Picked(s, is) ==
    LET picked[n \in 0..Len(s)] ==
          IF n = 0 THEN << >>
          ELSE IF n \in is THEN Append(picked[n-1], s[n])
          ELSE picked[n-1]
    IN  picked[Len(s)]

\* What the members of ss hold, one member after the other.
Joined(ss) ==
    LET joined[n \in 0..Len(ss)] == IF n = 0 THEN << >> ELSE joined[n-1] \o ss[n]
    IN  joined[Len(ss)]

\* The sum of a sequence of numbers.
Total(s) ==
    LET total[n \in 0..Len(s)] == IF n = 0 THEN 0 ELSE total[n-1] + s[n]
    IN  total[Len(s)]
=============================================================================
