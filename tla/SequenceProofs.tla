----------------------------- MODULE SequenceProofs -----------------------------
(***************************************************************************)
(* What the other proofs need of numbers and sequences: induction over the *)
(* numbers up to some n, functions defined by recursion, and what Picked   *)
(* and Joined return.                                                      *)
(***************************************************************************)
EXTENDS SequenceParts, Functions, SequenceTheorems, FiniteSetTheorems, WellFoundedInduction,
        TLAPS

-----------------------------------------------------------------------------
(* Induction over data. *)

\* A set of naturals that holds any has a least one.
LEMMA Least ==
    ASSUME NEW T, T \subseteq Nat, T # {}
    PROVE  \E x \in T : \A y \in T : x <= y
<1>1. IsWellFoundedOn(OpToRel(<, Nat), Nat)
  BY NatLessThanWellFounded
<1>2. PICK x \in T : \A y \in T : ~(<<y, x>> \in OpToRel(<, Nat))
  BY <1>1, WFMin
<1>3. \A y \in T : <<y, x>> \in OpToRel(<, Nat) <=> y < x
  BY DEF OpToRel
<1>4. \A y \in T : ~(y < x)
  BY <1>2, <1>3
<1> QED
  BY <1>4

\* So a set that holds 0, and the successors of the numbers up to n it holds,
\* holds all numbers up to n.
LEMMA Induction ==
    ASSUME NEW n \in Nat, NEW P, 0 \in P, \A i \in 0..n : i \in P /\ i < n => i + 1 \in P
    PROVE  \A i \in 0..n : i \in P
<1> DEFINE T == {i \in 0..n : i \notin P}
<1> SUFFICES ASSUME T # {}
             PROVE  FALSE
  OBVIOUS
<1>1. T \subseteq Nat
  OBVIOUS
<1>2. PICK x \in T : \A y \in T : x <= y
  <2> HIDE DEF T
  <2> QED
    BY <1>1, Least
<1>3. x # 0 /\ x \in 0..n /\ x - 1 \in 0..n /\ x - 1 < n
  BY <1>2
<1>4. x - 1 \notin T
  BY <1>2, <1>3
<1> QED
  BY <1>2, <1>3, <1>4

\* f begins with b, and next makes each of its values up to n from the one before.
Follows(f, n, b, next) == f[0] = b /\ \A i \in 1..n : f[i] = next[<<i, f[i-1]>>]

\* There is such a function.
LEMMA Recursion ==
    ASSUME NEW S, NEW b \in S, NEW n \in Nat, NEW G \in [(1..n) \X S -> S]
    PROVE  \E f \in [0..n -> S] : Follows(f, n, b, G)
<1> USE DEF Follows
<1> DEFINE Defined(m) == \E f \in [0..m -> S] : Follows(f, m, b, G)
           P == {m \in 0..n : Defined(m)}
<1>1. 0 \in P
  <2> DEFINE f == [i \in 0..0 |-> b]
  <2>1. f \in [0..0 -> S] /\ f[0] = b
    OBVIOUS
  <2> HIDE DEF f
  <2>2. Defined(0)
    BY <2>1
  <2> QED
    BY <2>2
<1>2. ASSUME NEW m \in 0..n, m \in P, m < n
      PROVE  m + 1 \in P
  <2>1. PICK f \in [0..m -> S] : Follows(f, m, b, G)
    BY <1>2
  <2> DEFINE g == [i \in 0..m+1 |-> IF i = m + 1 THEN G[<<m + 1, f[m]>>] ELSE f[i]]
  <2>2. m + 1 \in 1..n /\ f[m] \in S
    BY <1>2
  <2>3. G[<<m + 1, f[m]>>] \in S
    BY <2>2
  <2>4. g \in [0..m+1 -> S]
    BY <2>3
  <2>5. \A i \in 0..m : g[i] = f[i]
    OBVIOUS
  <2>6. g[m+1] = G[<<m + 1, f[m]>>]
    BY <1>2
  <2> HIDE DEF g
  <2>7. ASSUME NEW i \in 1..m+1
        PROVE  g[i] = G[<<i, g[i-1]>>]
    <3>1. i - 1 \in 0..m /\ g[i-1] = f[i-1]
      BY <2>5
    <3>2. CASE i = m + 1
      BY <2>6, <3>1, <3>2
    <3>3. CASE i # m + 1
      BY <2>1, <2>5, <3>1, <3>3
    <3> QED
      BY <3>2, <3>3
  <2> QED
    BY <2>1, <2>2, <2>4, <2>5, <2>7
<1>3. \A m \in 0..n : m \in P
  <2> HIDE DEF P
  <2> QED
    BY <1>1, <1>2, Induction
<1> QED
  BY <1>3

-----------------------------------------------------------------------------
(* Sequences. *)

LEMMA SeqFacts ==
    ASSUME NEW T, NEW s \in Seq(T)
    PROVE  /\ Len(s) \in Nat
           /\ DOMAIN s = 1..Len(s)
           /\ \A i \in 1..Len(s) : s[i] \in T
           /\ Range(s) = {s[i] : i \in 1..Len(s)}
           /\ Range(s) \subseteq T
           /\ s \in Seq(Range(s))
           /\ s = [i \in 1..Len(s) |-> s[i]]
  BY LenProperties, ElementOfSeq, RangeOfSeq, SeqOfRange DEF Range

\* A function on 1..n is a sequence.
LEMMA FunctionIsSeq ==
    ASSUME NEW n \in Nat, NEW f, f = [i \in 1..n |-> f[i]]
    PROVE  f \in Seq(Range(f)) /\ Len(f) = n /\ DOMAIN f = 1..n
<1>1. DOMAIN f = 1..n
  OBVIOUS
<1>2. f \in [1..n -> Range(f)]
  BY <1>1 DEF Range
<1>3. f \in Seq(Range(f))
  BY <1>2
<1> QED
  BY <1>1, <1>3, LenProperties

LEMMA AppendRange ==
    ASSUME NEW T, NEW s \in Seq(T), NEW e \in T
    PROVE  Range(Append(s, e)) = Range(s) \cup {e}
<1>1. Append(s, e) \in Seq(T) /\ Len(Append(s, e)) = Len(s) + 1 /\ Len(s) \in Nat
  BY AppendProperties, LenProperties
<1>2. /\ Range(s) = {s[i] : i \in 1..Len(s)}
      /\ Range(Append(s, e)) = {Append(s, e)[i] : i \in 1..Len(s)+1}
  BY <1>1, SeqFacts
<1>3. /\ \A i \in 1..Len(s) : Append(s, e)[i] = s[i]
      /\ Append(s, e)[Len(s)+1] = e
  BY AppendProperties
<1> QED
  BY <1>1, <1>2, <1>3

\* p[i] are those of the first i members of s that Picked takes.
Picks(p, s, is) ==
    /\ p[0] = << >>
    /\ \A i \in 1..Len(s) : p[i] = IF i \in is THEN Append(p[i-1], s[i]) ELSE p[i-1]

\* Picked takes members one after the other.
LEMMA PickedSteps ==
    ASSUME NEW T, NEW s \in Seq(T), NEW is
    PROVE  \E p \in [0..Len(s) -> Seq(T)] : Picks(p, s, is) /\ Picked(s, is) = p[Len(s)]
<1> DEFINE S == Seq(T)
           n == Len(s)
           G == [q \in (1..n) \X S |-> IF q[1] \in is THEN Append(q[2], s[q[1]]) ELSE q[2]]
           Value(f, i) == IF i = 0 THEN << >>
                          ELSE IF i \in is THEN Append(f[i-1], s[i])
                          ELSE f[i-1]
           picked == CHOOSE f : f = [i \in 0..n |-> Value(f, i)]
           e == << >>
<1>1. n \in Nat /\ \A i \in 1..n : s[i] \in T
  BY SeqFacts
<1>2. G \in [(1..n) \X S -> S]
  <2>1. ASSUME NEW i \in 1..n, NEW u \in S
        PROVE  (IF i \in is THEN Append(u, s[i]) ELSE u) \in S
    <3>1. Append(u, s[i]) \in S
      BY <1>1, <2>1, AppendProperties
    <3> QED
      BY <3>1
  <2> HIDE DEF S
  <2> QED
    BY <2>1
<1>3. e \in S
  BY EmptySeq
<1>4. PICK p \in [0..n -> S] : p[0] = e /\ \A i \in 1..n : p[i] = G[<<i, p[i-1]>>]
  <2> HIDE DEF S, n, G, Value, picked, e
  <2>1. \E f \in [0..n -> S] : Follows(f, n, e, G)
    BY <1>1, <1>2, <1>3, Recursion
  <2> QED
    BY <2>1 DEF Follows
<1>5. \A i \in 1..n : p[i] = IF i \in is THEN Append(p[i-1], s[i]) ELSE p[i-1]
  <2> HIDE DEF S
  <2> TAKE i \in 1..n
  <2>1. <<i, p[i-1]>> \in (1..n) \X S
    BY <1>1, <1>4
  <2> QED
    BY <1>4, <2>1
<1>6. p = [i \in 0..n |-> Value(p, i)]
  <2>1. ASSUME NEW i \in 0..n
        PROVE  p[i] = Value(p, i)
    <3>1. i # 0 => i \in 1..n
      BY <1>1
    <3> QED
      BY <1>4, <1>5, <3>1
  <2> HIDE DEF S, Value
  <2> QED
    BY <1>4, <2>1
<1>7. picked = [i \in 0..n |-> Value(picked, i)]
  BY <1>6
<1>8. Picked(s, is) = picked[n]
  BY DEF Picked, picked
<1> HIDE DEF picked
<1>9. \A i \in 0..n : picked[i] = p[i]
  <2> DEFINE P == {i \in 0..n : picked[i] = p[i]}
  <2>1. 0 \in P
    BY <1>1, <1>4, <1>7
  <2>2. ASSUME NEW i \in 0..n, i \in P, i < n
        PROVE  i + 1 \in P
    <3>1. i + 1 \in 1..n /\ i + 1 \in 0..n /\ (i + 1) - 1 = i /\ i + 1 # 0
      BY <1>1, <2>2
    <3>2. picked[i+1] = Value(picked, i + 1)
      BY <1>7, <3>1
    <3>3. picked[i+1] = IF i + 1 \in is THEN Append(picked[i], s[i+1]) ELSE picked[i]
      BY <3>1, <3>2
    <3>4. p[i+1] = IF i + 1 \in is THEN Append(p[i], s[i+1]) ELSE p[i]
      BY <1>5, <3>1
    <3> QED
      BY <2>2, <3>1, <3>3, <3>4
  <2>3. \A i \in 0..n : i \in P
    <3> HIDE DEF P, n
    <3> QED
      BY <1>1, <2>1, <2>2, Induction
  <2> QED
    BY <2>3
<1>10. Picks(p, s, is)
  BY <1>4, <1>5 DEF Picks
<1>11. picked[n] = p[n]
  BY <1>1, <1>9
<1> HIDE DEF S, n
<1> QED
  BY <1>4, <1>8, <1>10, <1>11 DEF S, n

\* What Picked takes is a sequence of what stands at the positions.
LEMMA PickedFacts ==
    ASSUME NEW T, NEW s \in Seq(T), NEW is
    PROVE  /\ Picked(s, is) \in Seq(T)
           /\ Range(Picked(s, is)) = {s[i] : i \in is \cap 1..Len(s)}
<1> DEFINE n == Len(s)
           S == Seq(T)
           Taken(i) == {s[j] : j \in is \cap 1..i}
<1>1. n \in Nat /\ \A i \in 1..n : s[i] \in T
  BY SeqFacts
<1>2. PICK p \in [0..n -> S] : Picks(p, s, is) /\ Picked(s, is) = p[n]
  BY PickedSteps
<1>3. \A i \in 0..n : Range(p[i]) = Taken(i)
  <2> DEFINE P == {i \in 0..n : Range(p[i]) = Taken(i)}
  <2>1. 0 \in P
    <3>1. p[0] = << >> /\ DOMAIN << >> = {}
      BY <1>2 DEF Picks
    <3>2. Range(p[0]) = {} /\ 1..0 = {}
      BY <3>1 DEF Range
    <3> QED
      BY <1>1, <3>2
  <2>2. ASSUME NEW i \in 0..n, i \in P, i < n
        PROVE  i + 1 \in P
    <3>1. i + 1 \in 1..n /\ i + 1 \in 0..n /\ (i + 1) - 1 = i /\ 1..i+1 = 1..i \cup {i + 1}
      BY <1>1, <2>2
    <3>2. p[i] \in Seq(T) /\ s[i+1] \in T
      BY <1>1, <1>2, <3>1
    <3>3. Range(Append(p[i], s[i+1])) = Range(p[i]) \cup {s[i+1]}
      BY <3>2, AppendRange
    <3>4. p[i+1] = IF i + 1 \in is THEN Append(p[i], s[i+1]) ELSE p[i]
      BY <1>2, <3>1 DEF Picks
    <3>5. CASE i + 1 \in is
      BY <2>2, <3>1, <3>3, <3>4, <3>5
    <3>6. CASE i + 1 \notin is
      BY <2>2, <3>1, <3>4, <3>6
    <3> QED
      BY <3>5, <3>6
  <2>3. \A i \in 0..n : i \in P
    <3> HIDE DEF P, n
    <3> QED
      BY <1>1, <2>1, <2>2, Induction
  <2> QED
    BY <2>3
<1> QED
  BY <1>1, <1>2, <1>3

\* Picked takes all where all positions are given.
LEMMA PickedAll ==
    ASSUME NEW T, NEW s \in Seq(T), NEW is, 1..Len(s) \subseteq is
    PROVE  Picked(s, is) = s
<1> DEFINE n == Len(s)
           Same(u, i) == Len(u) = i /\ \A j \in 1..i : u[j] = s[j]
<1>1. n \in Nat /\ \A i \in 1..n : s[i] \in T
  BY SeqFacts
<1>2. PICK p \in [0..n -> Seq(T)] : Picks(p, s, is) /\ Picked(s, is) = p[n]
  BY PickedSteps
<1>3. \A i \in 0..n : Same(p[i], i)
  <2> DEFINE P == {i \in 0..n : Same(p[i], i)}
  <2>1. 0 \in P
    <3>1. p[0] = << >> /\ Len(<< >>) = 0
      BY <1>2 DEF Picks
    <3> QED
      BY <1>1, <3>1
  <2>2. ASSUME NEW i \in 0..n, i \in P, i < n
        PROVE  i + 1 \in P
    <3>1. i + 1 \in 1..n /\ i + 1 \in 0..n /\ (i + 1) - 1 = i /\ 1..i+1 = 1..i \cup {i + 1}
      BY <1>1, <2>2
    <3>2. p[i] \in Seq(T) /\ s[i+1] \in T
      BY <1>1, <1>2, <3>1
    <3>3. /\ Len(Append(p[i], s[i+1])) = Len(p[i]) + 1
          /\ \A j \in 1..Len(p[i]) : Append(p[i], s[i+1])[j] = p[i][j]
          /\ Append(p[i], s[i+1])[Len(p[i])+1] = s[i+1]
      BY <3>2, AppendProperties
    <3>4. p[i+1] = Append(p[i], s[i+1])
      BY <1>2, <3>1 DEF Picks
    <3> QED
      BY <2>2, <3>1, <3>3, <3>4
  <2>3. \A i \in 0..n : i \in P
    <3> HIDE DEF P, n
    <3> QED
      BY <1>1, <2>1, <2>2, Induction
  <2> QED
    BY <2>3
<1>4. Picked(s, is) \in Seq(T) /\ Same(Picked(s, is), n)
  BY <1>1, <1>2, <1>3
<1> QED
  BY <1>1, <1>4, SeqEqual

LEMMA SeqWider ==
    ASSUME NEW S, NEW s \in Seq(S), NEW T, Range(s) \subseteq T
    PROVE  s \in Seq(T)
<1> DEFINE n == Len(s)
<1>1. n \in Nat /\ s = [i \in 1..n |-> s[i]] /\ \A i \in 1..n : s[i] \in Range(s)
  BY SeqFacts
<1> HIDE DEF n
<1>2. s \in [1..n -> T]
  BY <1>1
<1>3. s \in Seq(T)
  BY <1>1, <1>2
<1> QED
  BY <1>3

\* Picked goes by what is at the positions it is given.
LEMMA PickedAgree ==
    ASSUME NEW T, NEW s \in Seq(T), NEW t \in Seq(T), NEW is, NEW js, Len(s) = Len(t),
           \A i \in 1..Len(s) : (i \in is <=> i \in js) /\ (i \in is => s[i] = t[i])
    PROVE  Picked(s, is) = Picked(t, js)
<1> DEFINE n == Len(s)
<1>1. n \in Nat
  BY SeqFacts
<1>2. PICK p \in [0..n -> Seq(T)] : Picks(p, s, is) /\ Picked(s, is) = p[n]
  BY PickedSteps
<1>3. PICK q \in [0..n -> Seq(T)] : Picks(q, t, js) /\ Picked(t, js) = q[n]
  BY PickedSteps
<1> DEFINE P == {i \in 0..n : p[i] = q[i]}
<1>4. 0 \in P
  BY <1>1, <1>2, <1>3 DEF Picks
<1>5. ASSUME NEW i \in 0..n, i \in P, i < n
      PROVE  i + 1 \in P
  <2>1. i + 1 \in 1..n /\ i + 1 \in 0..n /\ (i + 1) - 1 = i
    BY <1>1, <1>5
  <2>2. p[i+1] = IF i + 1 \in is THEN Append(p[i], s[i+1]) ELSE p[i]
    BY <1>2, <2>1 DEF Picks
  <2>3. q[i+1] = IF i + 1 \in js THEN Append(q[i], t[i+1]) ELSE q[i]
    BY <1>3, <2>1 DEF Picks
  <2> QED
    BY <1>5, <2>1, <2>2, <2>3
<1>6. \A i \in 0..n : i \in P
  <2> HIDE DEF P, n
  <2> QED
    BY <1>1, <1>4, <1>5, Induction
<1>7. n \in 0..n
  BY <1>1
<1> QED
  BY <1>2, <1>3, <1>6, <1>7

LEMMA PickedAppend ==
    ASSUME NEW T, NEW s \in Seq(T), NEW e \in T, NEW is, NEW js,
           \A i \in 1..Len(s) : i \in is <=> i \in js
    PROVE  Picked(Append(s, e), js) =
              IF Len(s) + 1 \in js THEN Append(Picked(s, is), e) ELSE Picked(s, is)
<1> DEFINE n == Len(s)
           t == Append(s, e)
<1>1. /\ n \in Nat /\ t \in Seq(T) /\ Len(t) = n + 1
      /\ \A i \in 1..n : t[i] = s[i]
      /\ t[n+1] = e
  BY AppendProperties, LenProperties
<1> HIDE DEF t
<1>2. PICK p \in [0..n -> Seq(T)] : Picks(p, s, is) /\ Picked(s, is) = p[n]
  BY PickedSteps
<1>3. PICK q \in [0..n+1 -> Seq(T)] : Picks(q, t, js) /\ Picked(t, js) = q[n+1]
  <2>1. \E q \in [0..Len(t) -> Seq(T)] : Picks(q, t, js) /\ Picked(t, js) = q[Len(t)]
    BY <1>1, PickedSteps
  <2> QED
    BY <1>1, <2>1
<1> DEFINE P == {i \in 0..n : p[i] = q[i]}
<1>4. 0 \in P
  BY <1>1, <1>2, <1>3 DEF Picks
<1>5. ASSUME NEW i \in 0..n, i \in P, i < n
      PROVE  i + 1 \in P
  <2>1. i + 1 \in 1..n /\ i + 1 \in 0..n /\ (i + 1) - 1 = i /\ i + 1 \in 1..Len(t)
    BY <1>1, <1>5
  <2>2. p[i+1] = IF i + 1 \in is THEN Append(p[i], s[i+1]) ELSE p[i]
    BY <1>2, <2>1 DEF Picks
  <2>3. q[i+1] = IF i + 1 \in js THEN Append(q[i], t[i+1]) ELSE q[i]
    BY <1>3, <2>1 DEF Picks
  <2> QED
    BY <1>1, <1>5, <2>1, <2>2, <2>3
<1>6. \A i \in 0..n : i \in P
  <2> HIDE DEF P, n
  <2> QED
    BY <1>1, <1>4, <1>5, Induction
<1>7. n \in 0..n /\ n + 1 \in 1..Len(t) /\ (n + 1) - 1 = n
  BY <1>1
<1>8. p[n] = q[n]
  BY <1>6, <1>7
<1>9. q[n+1] = IF n + 1 \in js THEN Append(q[n], t[n+1]) ELSE q[n]
  BY <1>3, <1>7 DEF Picks
<1> QED
  BY <1>1, <1>2, <1>3, <1>8, <1>9 DEF t

\* Picked takes two where there are two to take.
LEMMA PickedTwo ==
    ASSUME NEW T, NEW s \in Seq(T), NEW is,
           NEW j \in is \cap 1..Len(s), NEW k \in is \cap 1..Len(s), j # k
    PROVE  Len(Picked(s, is)) >= 2
<1> DEFINE n == Len(s)
           S == Seq(T)
           One(l, i) == IF l <= i THEN 1 ELSE 0
           count(i) == One(j, i) + One(k, i)
<1>1. n \in Nat /\ \A i \in 1..n : s[i] \in T
  BY SeqFacts
<1>2. PICK p \in [0..n -> S] : Picks(p, s, is) /\ Picked(s, is) = p[n]
  BY PickedSteps
<1>3. \A i \in 0..n : p[i] \in Seq(T) /\ Len(p[i]) \in Nat
  BY <1>2, LenProperties
<1>4. j \in 1..n /\ k \in 1..n /\ j \in is /\ k \in is
  OBVIOUS
<1> DEFINE P == {i \in 0..n : Len(p[i]) >= count(i)}
<1>5. 0 \in P
  BY <1>1, <1>3, <1>4
<1>6. ASSUME NEW i \in 0..n, i \in P, i < n
      PROVE  i + 1 \in P
  <2> DEFINE m == i + 1
  <2>1. m \in 1..n /\ m - 1 = i /\ m \in 0..n
    BY <1>1, <1>6
  <2>2. p[m] = IF m \in is THEN Append(p[i], s[m]) ELSE p[i]
    BY <1>2, <2>1 DEF Picks
  <2>3. m \in is => Len(p[m]) = Len(p[i]) + 1
    BY <1>1, <1>3, <2>1, <2>2, AppendProperties
  <2>4. count(m) = IF m \in {j, k} THEN count(i) + 1 ELSE count(i)
    BY <1>1, <1>4, <1>6
  <2>5. count(i) \in Nat /\ Len(p[i]) >= count(i)
    BY <1>6
  <2> HIDE DEF count, m
  <2>6. Len(p[m]) >= count(m)
    <3>1. Len(p[i]) \in Nat /\ (m \notin is => p[m] = p[i])
      BY <1>3, <2>2
    <3>2. m \in {j, k} => m \in is
      BY <1>4
    <3> QED
      BY <2>3, <2>4, <2>5, <3>1, <3>2
  <2> QED
    BY <2>1, <2>6 DEF m
<1>7. n \in P
  <2> HIDE DEF P
  <2>1. \A i \in 0..n : i \in P
    BY <1>1, <1>5, <1>6, Induction
  <2> QED
    BY <1>1, <2>1
<1>8. count(n) = 2
  BY <1>1, <1>4
<1> QED
  BY <1>2, <1>7, <1>8

\* The members that are in B, in their order.
Only(s, B) == Picked(s, {i \in DOMAIN s : s[i] \in B})

LEMMA OnlyAppend ==
    ASSUME NEW T, NEW s \in Seq(T), NEW e \in T, NEW B
    PROVE  Only(Append(s, e), B) = IF e \in B THEN Append(Only(s, B), e) ELSE Only(s, B)
<1> DEFINE n == Len(s)
           t == Append(s, e)
           is == {i \in DOMAIN s : s[i] \in B}
           js == {i \in DOMAIN t : t[i] \in B}
<1>1. /\ n \in Nat /\ t \in Seq(T) /\ Len(t) = n + 1
      /\ \A i \in 1..n : t[i] = s[i]
      /\ t[n+1] = e
  BY AppendProperties, LenProperties
<1>2. DOMAIN s = 1..n /\ DOMAIN t = 1..n+1
  BY <1>1, SeqFacts
<1> HIDE DEF t
<1>3. /\ \A i \in 1..n : i \in is <=> i \in js
      /\ n + 1 \in js <=> e \in B
  BY <1>1, <1>2
<1> HIDE DEF is, js
<1>4. Picked(t, js) = IF n + 1 \in js THEN Append(Picked(s, is), e) ELSE Picked(s, is)
  BY <1>3, PickedAppend DEF t
<1> QED
  BY <1>3, <1>4 DEF Only, is, js, t

LEMMA OnlyNone == \A B : Only(<< >>, B) = << >>
<1> TAKE B
<1> DEFINE e == << >>
           is == {i \in DOMAIN e : e[i] \in B}
<1>1. e \in Seq({}) /\ Len(e) = 0
  OBVIOUS
<1> HIDE DEF e, is
<1>2. \E p \in [0..Len(e) -> Seq({})] : Picks(p, e, is) /\ Picked(e, is) = p[Len(e)]
  BY <1>1, PickedSteps
<1>3. Picked(e, is) = << >>
  BY <1>1, <1>2 DEF Picks
<1> QED
  BY <1>3 DEF Only, e, is

\* A filter of what was picked is a pick.
LEMMA OnlyPicked ==
    ASSUME NEW T, NEW s \in Seq(T), NEW is, NEW B
    PROVE  Only(Picked(s, is), B) = Picked(s, {i \in DOMAIN s : i \in is /\ s[i] \in B})
<1> DEFINE n == Len(s)
           js == {i \in DOMAIN s : i \in is /\ s[i] \in B}
<1>1. n \in Nat /\ DOMAIN s = 1..n /\ \A i \in 1..n : s[i] \in T
  BY SeqFacts
<1>2. PICK p \in [0..n -> Seq(T)] : Picks(p, s, is) /\ Picked(s, is) = p[n]
  BY PickedSteps
<1>3. PICK q \in [0..n -> Seq(T)] : Picks(q, s, js) /\ Picked(s, js) = q[n]
  <2> HIDE DEF js
  <2> QED
    BY PickedSteps
<1> DEFINE P == {i \in 0..n : Only(p[i], B) = q[i]}
<1>4. 0 \in P
  <2>1. p[0] = << >> /\ q[0] = << >>
    BY <1>2, <1>3 DEF Picks
  <2> QED
    BY <1>1, <2>1, OnlyNone
<1>5. ASSUME NEW i \in 0..n, i \in P, i < n
      PROVE  i + 1 \in P
  <2>1. i + 1 \in 1..n /\ i + 1 \in 0..n /\ (i + 1) - 1 = i
    BY <1>1, <1>5
  <2>2. p[i+1] = IF i + 1 \in is THEN Append(p[i], s[i+1]) ELSE p[i]
    BY <1>2, <2>1 DEF Picks
  <2>3. q[i+1] = IF i + 1 \in js THEN Append(q[i], s[i+1]) ELSE q[i]
    BY <1>3, <2>1 DEF Picks
  <2>4. i + 1 \in js <=> i + 1 \in is /\ s[i+1] \in B
    BY <1>1, <2>1
  <2> HIDE DEF js
  <2>5. p[i] \in Seq(T) /\ s[i+1] \in T
    BY <1>1, <1>2, <2>1
  <2>6. Only(Append(p[i], s[i+1]), B)
           = IF s[i+1] \in B THEN Append(Only(p[i], B), s[i+1]) ELSE Only(p[i], B)
    <3> DEFINE u == p[i]
               e == s[i+1]
    <3>1. u \in Seq(T) /\ e \in T
      BY <2>5
    <3> HIDE DEF u, e
    <3>2. Only(Append(u, e), B) = IF e \in B THEN Append(Only(u, B), e) ELSE Only(u, B)
      BY <3>1, OnlyAppend
    <3> QED
      BY <3>2 DEF u, e
  <2>7. CASE i + 1 \in is
    BY <1>5, <2>1, <2>2, <2>3, <2>4, <2>6, <2>7
  <2>8. CASE i + 1 \notin is
    BY <1>5, <2>1, <2>2, <2>3, <2>4, <2>8
  <2> QED
    BY <2>7, <2>8
<1>6. \A i \in 0..n : i \in P
  <2> HIDE DEF P, n
  <2> QED
    BY <1>1, <1>4, <1>5, Induction
<1>7. n \in 0..n
  BY <1>1
<1> QED
  BY <1>2, <1>3, <1>6, <1>7

\* Nothing is read in nothing.
LEMMA PickedNone == \A is : Picked(<< >>, is) = << >>
<1> TAKE is
<1> DEFINE e == << >>
<1>1. e \in Seq({}) /\ Len(e) = 0
  OBVIOUS
<1> HIDE DEF e
<1>2. \E p \in [0..Len(e) -> Seq({})] : Picks(p, e, is) /\ Picked(e, is) = p[Len(e)]
  BY <1>1, PickedSteps
<1>3. Picked(e, is) = << >>
  BY <1>1, <1>2 DEF Picks
<1> QED
  BY <1>3 DEF e

LEMMA ConcatNext ==
    ASSUME NEW T, NEW s \in Seq(T), NEW t \in Seq(T), NEW e \in T
    PROVE  s \o Append(t, e) = Append(s \o t, e) /\ s \o t \in Seq(T)
<1> DEFINE one == <<e>>
<1>1. one \in Seq(T)
  OBVIOUS
<1>2. Append(t, e) = t \o one /\ s \o t \in Seq(T)
  BY AppendIsConcat, ConcatProperties
<1>3. Append(s \o t, e) = (s \o t) \o one
  BY <1>2, AppendIsConcat
<1> HIDE DEF one
<1>4. (s \o t) \o one = s \o (t \o one)
  BY <1>1, ConcatAssociative
<1> QED
  BY <1>2, <1>3, <1>4

\* The first members of a sequence.
LEMMA SubSeqFrom ==
    ASSUME NEW T, NEW s \in Seq(T)
    PROVE  /\ SubSeq(s, 1, 0) = << >> /\ SubSeq(s, 1, Len(s)) = s
           /\ \A n \in 0..Len(s) : /\ SubSeq(s, 1, n) \in Seq(T) /\ Len(SubSeq(s, 1, n)) = n
                                   /\ \A i \in 1..n : SubSeq(s, 1, n)[i] = s[i]
<1>1. Len(s) \in Nat /\ \A i \in 1..Len(s) : s[i] \in T
  BY SeqFacts
<1>2. ASSUME NEW n \in 0..Len(s)
      PROVE  /\ SubSeq(s, 1, n) \in Seq(T) /\ Len(SubSeq(s, 1, n)) = n
             /\ \A i \in 1..n : SubSeq(s, 1, n)[i] = s[i]
  <2>1. 1 \in Int /\ n \in Int /\ \A i \in 1..n : s[i] \in T
    BY <1>1
  <2> DEFINE u == SubSeq(s, 1, n)
  <2>2. /\ u \in Seq(T) /\ Len(u) = (IF 1 <= n THEN n - 1 + 1 ELSE 0)
        /\ \A i \in 1..(n - 1 + 1) : u[i] = s[1 + i - 1]
    BY <2>1, SubSeqProperties
  <2> HIDE DEF u
  <2>3. Len(u) = n /\ n - 1 + 1 = n
    BY <1>1, <2>2
  <2>4. \A i \in 1..n : 1 + i - 1 = i
    BY <1>1
  <2>5. \A i \in 1..n : u[i] = s[i]
    BY <2>2, <2>3, <2>4
  <2> QED
    BY <2>2, <2>3, <2>5 DEF u
<1>3. SubSeq(s, 1, 0) = << >>
  <2>1. 0 < 1 /\ 0 \in Int /\ 1 \in Int
    OBVIOUS
  <2> QED
    BY <2>1, SubSeqEmpty
<1>4. SubSeq(s, 1, Len(s)) = s
  <2> DEFINE u == SubSeq(s, 1, Len(s))
  <2>1. u \in Seq(T) /\ Len(u) = Len(s) /\ \A i \in 1..Len(u) : u[i] = s[i]
    BY <1>1, <1>2
  <2> HIDE DEF u
  <2>2. u = s
    BY <2>1, SeqEqual
  <2> QED
    BY <2>2 DEF u
<1> QED
  BY <1>2, <1>3, <1>4

LEMMA SubSeqNext ==
    ASSUME NEW T, NEW s \in Seq(T), NEW n \in 0..Len(s), n < Len(s)
    PROVE  SubSeq(s, 1, n + 1) = Append(SubSeq(s, 1, n), s[n + 1])
<1> DEFINE m == n + 1
           u == SubSeq(s, 1, n)
           v == SubSeq(s, 1, m)
           e == s[m]
           w == Append(u, e)
<1>1. Len(s) \in Nat /\ m \in 0..Len(s) /\ m \in 1..Len(s) /\ n \in Nat /\ \A i \in 1..Len(s) : s[i] \in T
  BY SeqFacts
<1> HIDE DEF m
<1>2. /\ u \in Seq(T) /\ Len(u) = n /\ \A i \in 1..n : u[i] = s[i]
      /\ v \in Seq(T) /\ Len(v) = m /\ \A i \in 1..m : v[i] = s[i]
  BY <1>1, SubSeqFrom
<1> HIDE DEF u, v
<1>3. /\ w \in Seq(T) /\ Len(w) = Len(u) + 1 /\ \A i \in 1..Len(u) : w[i] = u[i]
      /\ w[Len(u) + 1] = e
  BY <1>1, <1>2, AppendProperties
<1> HIDE DEF w, e
<1>4. Len(w) = Len(v) /\ \A i \in 1..Len(v) : v[i] = w[i]
  BY <1>1, <1>2, <1>3 DEF m, e
<1>5. v = w
  BY <1>2, <1>3, <1>4, SeqEqual
<1> QED
  BY <1>5 DEF u, v, w, e, m

-----------------------------------------------------------------------------
(* Joined sequences. *)

\* The values of a function that the library's definition of a recursive one gives.
Parts(ss, n, T) == ss = [i \in 1..n |-> ss[i]] /\ \A i \in 1..n : ss[i] \in Seq(T)
Joins(f, n, ss) == f[0] = << >> /\ \A i \in 1..n : f[i] = f[i-1] \o ss[i]

LEMMA JoinedSteps ==
    ASSUME NEW T, NEW n \in Nat, NEW ss, Parts(ss, n, T)
    PROVE  \E f \in [0..n -> Seq(T)] : Joins(f, n, ss) /\ Joined(ss) = f[n]
<1> DEFINE S == Seq(T)
           G == [q \in (1..n) \X S |-> q[2] \o ss[q[1]]]
           e == << >>
           Value(f, i) == IF i = 0 THEN e ELSE f[i-1] \o ss[i]
           joined == CHOOSE f : f = [i \in 0..n |-> Value(f, i)]
<1>1. Len(ss) = n /\ \A i \in 1..n : ss[i] \in S
  <2>1. ss = [i \in 1..n |-> ss[i]] /\ \A i \in 1..n : ss[i] \in S
    BY DEF Parts
  <2> QED
    BY <2>1, FunctionIsSeq
<1>2. G \in [(1..n) \X S -> S]
  <2>1. ASSUME NEW i \in 1..n, NEW u \in S
        PROVE  u \o ss[i] \in S
    BY <1>1, <2>1, ConcatProperties
  <2> HIDE DEF S
  <2> QED
    BY <2>1
<1>3. e \in S
  BY EmptySeq
<1>4. PICK f \in [0..n -> S] : f[0] = e /\ \A i \in 1..n : f[i] = G[<<i, f[i-1]>>]
  <2> HIDE DEF S, G, Value, joined, e
  <2>1. \E f \in [0..n -> S] : Follows(f, n, e, G)
    BY <1>2, <1>3, Recursion
  <2> QED
    BY <2>1 DEF Follows
<1>5. \A i \in 1..n : f[i] = f[i-1] \o ss[i]
  <2> HIDE DEF S
  <2> TAKE i \in 1..n
  <2>1. <<i, f[i-1]>> \in (1..n) \X S
    BY <1>4
  <2> QED
    BY <1>4, <2>1
<1>6. f = [i \in 0..n |-> Value(f, i)]
  <2>1. ASSUME NEW i \in 0..n
        PROVE  f[i] = Value(f, i)
    <3>1. i # 0 => i \in 1..n
      OBVIOUS
    <3> QED
      BY <1>4, <1>5, <3>1
  <2> HIDE DEF S, Value
  <2> QED
    BY <1>4, <2>1
<1>7. joined = [i \in 0..n |-> Value(joined, i)]
  BY <1>6
<1>8. Joined(ss) = joined[n]
  BY <1>1 DEF Joined, joined
<1> HIDE DEF joined
<1>9. \A i \in 0..n : joined[i] = f[i]
  <2> DEFINE P == {i \in 0..n : joined[i] = f[i]}
  <2>1. 0 \in P
    BY <1>4, <1>7
  <2>2. ASSUME NEW i \in 0..n, i \in P, i < n
        PROVE  i + 1 \in P
    <3>1. i + 1 \in 1..n /\ i + 1 \in 0..n /\ (i + 1) - 1 = i /\ i + 1 # 0
      BY <2>2
    <3>2. joined[i+1] = Value(joined, i + 1)
      BY <1>7, <3>1
    <3>3. joined[i+1] = joined[i] \o ss[i+1]
      BY <3>1, <3>2
    <3>4. f[i+1] = f[i] \o ss[i+1]
      BY <1>5, <3>1
    <3> QED
      BY <2>2, <3>1, <3>3, <3>4
  <2>3. \A i \in 0..n : i \in P
    <3> HIDE DEF P
    <3> QED
      BY <2>1, <2>2, Induction
  <2> QED
    BY <2>3
<1>10. Joins(f, n, ss)
  BY <1>4, <1>5 DEF Joins
<1>11. Joined(ss) = f[n] /\ f \in [0..n -> Seq(T)]
  BY <1>4, <1>8, <1>9
<1> QED
  BY <1>10, <1>11

\* tt is ss and one member more, which joins what it holds to the end.
OneMore(ss, n, tt, m, T) ==
    /\ n \in Nat /\ m = n + 1 /\ Parts(ss, n, T) /\ Parts(tt, m, T)
    /\ \A i \in 1..n : tt[i] = ss[i]

LEMMA JoinedMore ==
    ASSUME NEW T, NEW ss, NEW n, NEW tt, NEW m, OneMore(ss, n, tt, m, T)
    PROVE  Joined(tt) = Joined(ss) \o tt[m]
<1>0. /\ n \in Nat /\ m = n + 1 /\ Parts(ss, n, T) /\ Parts(tt, m, T)
      /\ \A i \in 1..n : tt[i] = ss[i]
  BY DEF OneMore
<1>1. PICK f \in [0..n -> Seq(T)] : Joins(f, n, ss) /\ Joined(ss) = f[n]
  BY <1>0, JoinedSteps
<1>3. m \in Nat
  BY <1>0
<1>4. PICK g \in [0..m -> Seq(T)] : Joins(g, m, tt) /\ Joined(tt) = g[m]
  BY <1>0, <1>3, JoinedSteps
<1>5. \A i \in 0..n : g[i] = f[i]
  <2> DEFINE P == {i \in 0..n : g[i] = f[i]}
  <2>1. 0 \in P
    BY <1>0, <1>1, <1>4 DEF Joins
  <2>2. ASSUME NEW i \in 0..n, i \in P, i < n
        PROVE  i + 1 \in P
    <3>1. i + 1 \in 1..n /\ i + 1 \in 1..m /\ i + 1 \in 0..n /\ (i + 1) - 1 = i
      BY <1>0, <2>2
    <3>2. f[i+1] = f[i] \o ss[i+1]
      <4>1. \A j \in 1..n : f[j] = f[j-1] \o ss[j]
        BY <1>1 DEF Joins
      <4> QED
        BY <3>1, <4>1
    <3>3. g[i+1] = g[i] \o tt[i+1]
      <4>1. \A j \in 1..m : g[j] = g[j-1] \o tt[j]
        BY <1>4 DEF Joins
      <4> QED
        BY <3>1, <4>1
    <3>4. tt[i+1] = ss[i+1]
      BY <1>0, <3>1
    <3>5. g[i] = f[i]
      BY <2>2
    <3>6. g[i+1] = f[i+1]
      BY <3>2, <3>3, <3>4, <3>5
    <3> QED
      BY <3>1, <3>6
  <2>3. \A i \in 0..n : i \in P
    <3> HIDE DEF P
    <3> QED
      BY <1>0, <2>1, <2>2, Induction
  <2> QED
    BY <2>3
<1>6. g[m] = g[n] \o tt[m]
  <2>1. m \in 1..m /\ m - 1 = n
    BY <1>0
  <2> QED
    BY <1>4, <2>1 DEF Joins
<1>7. n \in 0..n
  BY <1>0
<1>8. g[n] = Joined(ss)
  BY <1>1, <1>5, <1>7
<1> QED
  BY <1>4, <1>6, <1>8

LEMMA JoinedNone == Joined(<< >>) = << >>
<1> DEFINE e == << >>
<1>1. Parts(e, 0, {})
  BY DEF Parts
<1>2. \E f \in [0..0 -> Seq({})] : Joins(f, 0, e) /\ Joined(e) = f[0]
  <2> HIDE DEF e
  <2> QED
    BY <1>1, JoinedSteps
<1> QED
  BY <1>2 DEF Joins

LEMMA ConcatRange ==
    ASSUME NEW T, NEW s \in Seq(T), NEW t \in Seq(T)
    PROVE  s \o t \in Seq(T) /\ Range(s \o t) = Range(s) \cup Range(t)
<1> DEFINE u == s \o t
<1>1. /\ u \in Seq(T) /\ Len(u) = Len(s) + Len(t) /\ Len(s) \in Nat /\ Len(t) \in Nat
      /\ \A i \in 1..Len(u) : u[i] = IF i <= Len(s) THEN s[i] ELSE t[i - Len(s)]
  BY ConcatProperties, LenProperties
<1> HIDE DEF u
<1>2. /\ Range(u) = {u[i] : i \in 1..Len(u)} /\ Range(s) = {s[i] : i \in 1..Len(s)}
      /\ Range(t) = {t[i] : i \in 1..Len(t)}
  BY <1>1, SeqFacts
<1>3. \A i \in 1..Len(u) : u[i] \in Range(s) \cup Range(t)
  <2> TAKE i \in 1..Len(u)
  <2>1. CASE i <= Len(s)
    BY <1>1, <1>2, <2>1
  <2>2. CASE ~(i <= Len(s))
    <3>1. i - Len(s) \in 1..Len(t)
      BY <1>1, <2>2
    <3> QED
      BY <1>1, <1>2, <2>2, <3>1
  <2> QED
    BY <2>1, <2>2
<1>4. \A i \in 1..Len(s) : s[i] = u[i] /\ i \in 1..Len(u)
  BY <1>1
<1>5. \A i \in 1..Len(t) : t[i] = u[Len(s) + i] /\ Len(s) + i \in 1..Len(u)
  <2> TAKE i \in 1..Len(t)
  <2>1. Len(s) + i \in 1..Len(u) /\ ~(Len(s) + i <= Len(s)) /\ (Len(s) + i) - Len(s) = i
    BY <1>1
  <2> QED
    BY <1>1, <2>1
<1>6. Range(u) = Range(s) \cup Range(t)
  BY <1>2, <1>3, <1>4, <1>5
<1> QED
  BY <1>1, <1>6 DEF u

LEMMA JoinedRange ==
    ASSUME NEW T, NEW n \in Nat, NEW ss, Parts(ss, n, T)
    PROVE  /\ Joined(ss) \in Seq(T)
           /\ \A b : b \in Range(Joined(ss)) <=> \E i \in 1..n : b \in Range(ss[i])
<1>1. PICK f \in [0..n -> Seq(T)] : Joins(f, n, ss) /\ Joined(ss) = f[n]
  BY JoinedSteps
<1> DEFINE In(i) == {b \in T : \E j \in 1..i : b \in Range(ss[j])}
<1>2. \A i \in 0..n : Range(f[i]) = In(i)
  <2> DEFINE P == {i \in 0..n : Range(f[i]) = In(i)}
  <2>1. 0 \in P
    <3>1. f[0] = << >>
      BY <1>1 DEF Joins
    <3>2. DOMAIN << >> = {}
      OBVIOUS
    <3>4. Range(f[0]) = {}
      BY <3>1, <3>2 DEF Range
    <3>3. 1..0 = {}
      OBVIOUS
    <3> QED
      BY <3>3, <3>4
  <2>2. ASSUME NEW i \in 0..n, i \in P, i < n
        PROVE  i + 1 \in P
    <3>1. i + 1 \in 1..n /\ i + 1 \in 0..n /\ (i + 1) - 1 = i /\ 1..i+1 = 1..i \cup {i + 1}
      BY <2>2
    <3>2. f[i+1] = f[i] \o ss[i+1] /\ f[i] \in Seq(T) /\ ss[i+1] \in Seq(T)
      BY <1>1, <3>1 DEF Joins, Parts
    <3>3. Range(f[i+1]) = Range(f[i]) \cup Range(ss[i+1])
      BY <3>2, ConcatRange
    <3>4. Range(ss[i+1]) \subseteq T
      BY <3>2, SeqFacts
    <3> QED
      BY <2>2, <3>1, <3>3, <3>4
  <2>3. \A i \in 0..n : i \in P
    <3> HIDE DEF P
    <3> QED
      BY <2>1, <2>2, Induction
  <2> QED
    BY <2>3
<1>3. \A i \in 1..n : Range(ss[i]) \subseteq T
  BY SeqFacts DEF Parts
<1>4. n \in 0..n /\ Range(Joined(ss)) = In(n)
  BY <1>1, <1>2
<1>5. Joined(ss) \in Seq(T)
  BY <1>1, <1>4
<1> QED
  BY <1>3, <1>4, <1>5
=============================================================================
