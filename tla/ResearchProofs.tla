--------------------------- MODULE ResearchProofs ---------------------------
(***************************************************************************)
(* Proofs about TavilySearch and ResearchRun, for any sets of URLs,        *)
(* contents and requests, any number of queries and any bounds.            *)
(*                                                                         *)
(* Of the search three facts carry them.  known is what was excluded and   *)
(* what was returned, no URL of which repeats (ResultSound).  A URL of an  *)
(* answer is not lost before it was returned (OfferedKept).  And in one    *)
(* round every category is visited once and gives a URL as long as it has  *)
(* one and there is room, so that all but the exhausted ones keep pace     *)
(* (InStep).                                                               *)
(*                                                                         *)
(* Of the run the invariant says, stage by stage, what the coroutine has   *)
(* done: which operations were started since the last checkpoint           *)
(* (GateSound), which queries and model calls the counters of the manifest *)
(* stand for (CountSound), which records are bounded and known by URL      *)
(* (SourceSound), and what was read back since the draft (ReadSound).      *)
(***************************************************************************)
EXTENDS TavilySearch, ResearchRun, SequenceProofs

-----------------------------------------------------------------------------
(* The search: the inductive invariant.                                    *)

SearchTyped ==
  /\ phase \in {"query", "merge", "done", "raised"}
  /\ capacity \in Nat
  /\ excluded \subseteq Url /\ known \subseteq Url /\ offered \subseteq Url
  /\ categories \in Seq(Seq(Url))
  /\ Len(categories) <= Queries
  /\ turn \in 1..Queries + 1
  /\ urls \in Seq(Url)
  /\ taken \in [Category -> Nat]

\* The merge begins when every query was answered, and starts from nothing.
StageSound ==
  /\ phase = "query" => /\ Len(categories) < Queries
                        /\ urls = <<>> /\ taken = [c \in Category |-> 0]
  /\ phase \in {"merge", "done"} => Len(categories) = Queries
  /\ phase # "merge" => turn = Queries + 1

\* The result is bounded, and known has it.
ResultSound ==
  /\ Len(urls) <= capacity
  /\ known = excluded \cup ToSet(urls)
  /\ ToSet(urls) \cap excluded = {}
  /\ \A i, j \in 1..Len(urls) : urls[i] = urls[j] => i = j

\* A new URL of an answer is returned or still in a category; the search ends
\* when the capacity is used up or no category has anything left.
OfferedKept ==
  /\ \A u \in offered : \/ u \in ToSet(urls)
                        \/ \E c \in DOMAIN categories : u \in ToSet(categories[c])
  /\ offered \cap excluded = {}
  /\ phase = "done" => Len(urls) = capacity \/ ~AnyLeft

\* The visits category c was paid if it gave one URL at each, the one that is
\* to come in this round included.
Visits(c) == taken[c] + (IF c < turn THEN 0 ELSE 1)

\* k rounds have begun; no category has given more than one URL in each, and
\* only one that is exhausted, or came to its turn without room, gave less.
KeepsPace(k) ==
  \A c \in Category :
    /\ Visits(c) <= k
    /\ \/ ToSet(categories[c]) \subseteq known
       \/ Visits(c) = k
       \/ Len(urls) = capacity /\ taken[c] + 1 = k

InStep == phase \in {"merge", "done"} => \E k \in Nat : KeepsPace(k)

SearchInv ==
  /\ SearchTyped
  /\ StageSound
  /\ ResultSound
  /\ OfferedKept
  /\ InStep

-----------------------------------------------------------------------------
(* The search: the operators.                                              *)

\* What the filter returns, by the least position at which it would not.
LEMMA UnexcludedType ==
  ASSUME NEW r \in Seq(Url)
  PROVE  Unexcluded(r) \in Seq(Url \ excluded)
<1> DEFINE Value(f, n) ==
             IF n = 0 THEN <<>>
             ELSE IF r[n] \in excluded THEN f[n-1]
             ELSE Append(f[n-1], r[n])
           Defined(m) == \E f : f = [n \in 0..m |-> Value(f, n)]
           kept == CHOOSE f : f = [n \in 0..Len(r) |-> Value(f, n)]
<1>1. Len(r) \in Nat /\ \A n \in 1..Len(r) : r[n] \in Url
  BY ElementOfSeq, LenProperties
<1>2. \A m \in Nat : Defined(m)
  <2> SUFFICES ASSUME {m \in Nat : ~Defined(m)} # {} PROVE FALSE
    OBVIOUS
  <2> HIDE DEF Defined
  <2>1. PICK m \in {k \in Nat : ~Defined(k)} :
               \A k \in {k \in Nat : ~Defined(k)} : m <= k
    BY Least
  <2>2. m # 0
    <3>1. [n \in 0..0 |-> <<>>] = [n \in 0..0 |-> Value([i \in 0..0 |-> <<>>], n)]
      OBVIOUS
    <3> QED BY <3>1, <2>1 DEF Defined
  <2>3. m - 1 \in Nat /\ m \in Nat
    BY <2>1, <2>2
  <2>4. PICK g : g = [n \in 0..m-1 |-> Value(g, n)]
    <3>1. m - 1 \notin {k \in Nat : ~Defined(k)}
      BY <2>1, <2>3
    <3>2. Defined(m - 1)
      BY <2>3, <3>1
    <3> QED BY <3>2 DEF Defined
  <2> DEFINE f == [n \in 0..m |-> IF n = m THEN Value(g, m) ELSE g[n]]
  <2>5. ASSUME NEW n \in 0..m PROVE f[n] = Value(f, n)
    <3>1. CASE n = 0
      BY <2>2, <2>3, <2>4, <3>1
    <3>2. CASE n # 0
      <4>1. n - 1 \in 0..m-1 /\ n \in Nat /\ f[n-1] = g[n-1]
        BY <3>2, <2>3
      <4>2. Value(f, n) = Value(g, n)
        BY <4>1, <3>2
      <4>3. CASE n = m
        BY <4>2, <4>3
      <4>4. CASE n # m
        <5>1. n \in 0..m-1 /\ f[n] = g[n]
          BY <4>4, <2>3
        <5>2. g[n] = Value(g, n)
          BY <5>1, <2>4
        <5> QED BY <5>1, <5>2, <4>2
      <4> QED BY <4>3, <4>4
    <3> QED BY <3>1, <3>2
  <2>6. f = [n \in 0..m |-> Value(f, n)]
    BY <2>5
  <2> HIDE DEF f
  <2> QED BY <2>6, <2>1 DEF Defined
<1>3. kept = [n \in 0..Len(r) |-> Value(kept, n)]
  BY <1>1, <1>2
<1>4. \A n \in 0..Len(r) : kept[n] \in Seq(Url \ excluded)
  <2> DEFINE T == {n \in 0..Len(r) : kept[n] \notin Seq(Url \ excluded)}
  <2> SUFFICES ASSUME T # {} PROVE FALSE
    OBVIOUS
  <2> HIDE DEF kept
  <2>1. PICK n \in T : \A k \in T : n <= k
    <3>1. T \subseteq Nat
      BY <1>1
    <3> HIDE DEF T
    <3> QED BY <3>1, Least
  <2>2. kept[n] = Value(kept, n)
    BY <1>3
  <2>3. n # 0
    BY <2>2, <2>1, EmptySeq
  <2>4. n-1 \in 0..Len(r) /\ n \in 1..Len(r) /\ ~(n <= n-1)
    BY <2>3, <1>1
  <2>5. kept[n-1] \in Seq(Url \ excluded)
    BY <2>4, <2>1
  <2>8. kept[n] \notin Seq(Url \ excluded)
    BY <2>1
  <2>6. CASE r[n] \in excluded
    BY <2>6, <2>5, <2>3, <2>2
  <2>7. CASE r[n] \notin excluded
    <3>1. r[n] \in Url \ excluded
      BY <2>7, <2>4, <1>1
    <3>2. Append(kept[n-1], r[n]) \in Seq(Url \ excluded)
      BY <3>1, <2>5, AppendProperties
    <3>3. kept[n] = Append(kept[n-1], r[n])
      BY <2>7, <2>3, <2>2
    <3> QED BY <3>2, <3>3, <2>8
  <2> QED BY <2>6, <2>7
<1>5. Unexcluded(r) = kept[Len(r)]
  BY DEF Unexcluded
<1> HIDE DEF kept
<1> QED BY <1>1, <1>4, <1>5

\* What Fresh cuts off is known, and what it leaves begins with a new URL.
LEMMA FreshProperties ==
  ASSUME NEW s \in Seq(Url)
  PROVE  /\ Fresh(s) \in Seq(Url)
         /\ ToSet(Fresh(s)) \subseteq ToSet(s)
         /\ ToSet(s) \subseteq known \cup ToSet(Fresh(s))
         /\ Fresh(s) # <<>> => Head(Fresh(s)) \in Url \ known
<1> DEFINE new == {i \in DOMAIN s : s[i] \notin known}
           m == CHOOSE i \in new : \A j \in new : i <= j
<1>1. Len(s) \in Nat /\ DOMAIN s = 1..Len(s) /\ \A i \in 1..Len(s) : s[i] \in Url
  BY LenProperties, ElementOfSeq
<1>2. CASE new = {}
  <2>1. Fresh(s) = <<>>
    BY <1>2 DEF Fresh
  <2>2. <<>> \in Seq(Url) /\ ToSet(<<>>) = {}
    BY EmptySeq DEF ToSet
  <2>3. ToSet(s) \subseteq known
    BY <1>2 DEF ToSet
  <2> QED BY <2>1, <2>2, <2>3
<1>3. CASE new # {}
  <2>1. m \in new /\ \A j \in new : m <= j
    <3>1. \E i \in new : \A j \in new : i <= j
      <4>1. new \subseteq Nat
        BY <1>1
      <4> HIDE DEF new
      <4> QED BY <4>1, <1>3, Least
    <3> HIDE DEF new
    <3> QED BY <3>1
  <2>2. Fresh(s) = SubSeq(s, m, Len(s))
    BY <1>3 DEF Fresh
  <2> HIDE DEF m
  <2>3. m \in 1..Len(s) /\ s[m] \notin known
    BY <2>1, <1>1
  <2>4. /\ Fresh(s) \in Seq(Url)
        /\ Len(Fresh(s)) = Len(s) - m + 1
        /\ \A i \in 1..Len(s) - m + 1 : Fresh(s)[i] = s[m + i - 1]
    <3>1. \A i \in m..Len(s) : s[i] \in Url
      BY <1>1, <2>3
    <3>2. m \in Int /\ Len(s) \in Int /\ m <= Len(s)
      BY <1>1, <2>3
    <3> HIDE DEF new
    <3> QED BY <2>2, <3>1, <3>2, SubSeqProperties
  <2> DEFINE f == Fresh(s)
  <2>5. DOMAIN f = 1..Len(s) - m + 1
    BY <2>4, LenProperties
  <2> HIDE DEF f
  <2>6. ToSet(f) \subseteq ToSet(s)
    <3> SUFFICES ASSUME NEW i \in DOMAIN f PROVE \E j \in DOMAIN s : f[i] = s[j]
      BY DEF ToSet
    <3>1. m + i - 1 \in 1..Len(s)
      BY <1>1, <2>3, <2>5
    <3> QED BY <3>1, <1>1, <2>4, <2>5 DEF f
  <2>7. ToSet(s) \subseteq known \cup ToSet(f)
    <3> SUFFICES ASSUME NEW j \in DOMAIN s, s[j] \notin known
                 PROVE  \E i \in DOMAIN f : s[j] = f[i]
      BY DEF ToSet
    <3>1. j \in new
      OBVIOUS
    <3>2. m <= j /\ j \in 1..Len(s)
      BY <2>1, <3>1, <1>1
    <3>3. j - m + 1 \in DOMAIN f /\ m + (j - m + 1) - 1 = j
      BY <3>2, <2>3, <2>5, <1>1
    <3> QED BY <3>3, <2>4, <2>5 DEF f
  <2>8. Head(f) \in Url \ known
    <3>1. Head(f) = f[1]
      BY <2>4 DEF f
    <3>2. 1 \in 1..Len(s) - m + 1 /\ m + 1 - 1 = m
      BY <2>3, <1>1
    <3> QED BY <3>1, <3>2, <2>3, <2>4, <1>1 DEF f
  <2> QED BY <2>4, <2>6, <2>7, <2>8 DEF f
<1> QED BY <1>2, <1>3

\* The elements of a sequence without its head.
LEMMA TailElements ==
  ASSUME NEW S, NEW s \in Seq(S), s # <<>>
  PROVE  /\ ToSet(Tail(s)) \subseteq ToSet(s)
         /\ ToSet(s) \subseteq {Head(s)} \cup ToSet(Tail(s))
<1>1. /\ Len(s) \in Nat \ {0} /\ DOMAIN s = 1..Len(s)
  BY EmptySeq, LenProperties
<1>2. /\ Tail(s) \in Seq(S) /\ Len(Tail(s)) = Len(s) - 1
      /\ \A i \in 1..Len(s) - 1 : Tail(s)[i] = s[i + 1]
  BY HeadTailProperties
<1>3. DOMAIN Tail(s) = 1..Len(s) - 1
  BY <1>2, LenProperties
<1>4. ASSUME NEW i \in DOMAIN Tail(s) PROVE Tail(s)[i] \in ToSet(s)
  <2>1. i + 1 \in DOMAIN s /\ Tail(s)[i] = s[i + 1]
    BY <1>1, <1>2, <1>3
  <2> QED BY <2>1 DEF ToSet
<1>5. ASSUME NEW i \in DOMAIN s, i # 1 PROVE s[i] \in ToSet(Tail(s))
  <2>1. i - 1 \in DOMAIN Tail(s) /\ (i - 1) + 1 = i
    BY <1>1, <1>3, <1>5
  <2>2. Tail(s)[i - 1] = s[i]
    BY <2>1, <1>2, <1>3
  <2> QED BY <2>1, <2>2 DEF ToSet
<1>6. s[1] = Head(s)
  OBVIOUS
<1> QED BY <1>4, <1>5, <1>6 DEF ToSet

\* The elements of a sequence with one more.
LEMMA AppendElements ==
  ASSUME NEW S, NEW s \in Seq(S), NEW e \in S
  PROVE  ToSet(Append(s, e)) = ToSet(s) \cup {e}
<1>1. /\ Len(s) \in Nat /\ DOMAIN s = 1..Len(s)
      /\ Append(s, e) \in Seq(S) /\ Len(Append(s, e)) = Len(s) + 1
      /\ \A i \in 1..Len(s) : Append(s, e)[i] = s[i]
      /\ Append(s, e)[Len(s) + 1] = e
  BY AppendProperties, LenProperties
<1>2. DOMAIN Append(s, e) = 1..Len(s) + 1
  BY <1>1, LenProperties
<1>3. \A i \in 1..Len(s) + 1 : i \in 1..Len(s) \/ i = Len(s) + 1
  BY <1>1
<1>4. 1..Len(s) \subseteq 1..Len(s) + 1 /\ Len(s) + 1 \in 1..Len(s) + 1
  BY <1>1
<1>5. ToSet(Append(s, e)) \subseteq ToSet(s) \cup {e}
  BY <1>1, <1>2, <1>3 DEF ToSet
<1>6. ToSet(s) \subseteq ToSet(Append(s, e)) /\ e \in ToSet(Append(s, e))
  BY <1>1, <1>2, <1>4 DEF ToSet
<1> QED BY <1>5, <1>6

-----------------------------------------------------------------------------
(* The search: the invariant is preserved.                                 *)

LEMMA SearchInitInv == SearchInit => SearchInv
<1> SUFFICES ASSUME SearchInit PROVE SearchInv
  OBVIOUS
<1> USE DEF SearchInit
<1>1. /\ <<>> \in Seq(Url) /\ <<>> \in Seq(Seq(Url)) /\ Len(<<>>) = 0
      /\ ToSet(<<>>) = {}
  BY EmptySeq DEF ToSet
<1>2. Queries \in Nat \ {0} /\ MaxSources \in Nat
  BY SearchAssumption DEF SearchAssumption
<1>3. SearchTyped
  BY <1>1, <1>2 DEF SearchTyped
<1>4. StageSound /\ OfferedKept /\ InStep
  BY <1>1, <1>2 DEF StageSound, OfferedKept, InStep
<1>5. ResultSound
  BY <1>1, <1>2 DEF ResultSound
<1> QED BY <1>3, <1>4, <1>5 DEF SearchInv

\* An answer appends a category of URLs that are not excluded.
LEMMA AnswerFacts ==
  ASSUME SearchInv, Answer
  PROVE  \E category \in Seq(Url \ excluded) :
           /\ categories' = Append(categories, category)
           /\ offered' = offered \cup ToSet(category)
<1>1. PICK results \in BoundedSeq(Url, MaxResults) :
        /\ categories' = Append(categories, Unexcluded(results))
        /\ offered' = offered \cup ToSet(Unexcluded(results))
  BY DEF Answer
<1>2. results \in Seq(Url)
  <2>1. BoundedSeq(Url, MaxResults) \subseteq UNION {[1..n -> Url] : n \in Nat}
    BY SearchAssumption DEF BoundedSeq, SeqOf, SearchAssumption
  <2> QED BY <2>1, SeqDef
<1> QED BY <1>1, <1>2, UnexcludedType

\* A sequence of URLs that are not excluded holds none that is.
LEMMA SeqElements ==
  ASSUME NEW S, NEW s \in Seq(S)
  PROVE  ToSet(s) \subseteq S
BY ElementOfSeq, LenProperties DEF ToSet

LEMMA AnswerInv ==
  ASSUME SearchInv, Answer
  PROVE  SearchInv'
<1> USE DEF SearchInv
<1>0. Queries \in Nat \ {0}
  BY SearchAssumption DEF SearchAssumption
<1>1. PICK category \in Seq(Url \ excluded) :
        /\ categories' = Append(categories, category)
        /\ offered' = offered \cup ToSet(category)
  BY AnswerFacts
<1>2. category \in Seq(Url) /\ ToSet(category) \subseteq Url \ excluded
  BY SeqMonotonic, SeqElements
<1>3. UNCHANGED <<capacity, excluded, turn, known, urls, taken>> /\ phase = "query"
  BY DEF Answer
<1>4. /\ categories' \in Seq(Seq(Url))
      /\ Len(categories') = Len(categories) + 1
      /\ DOMAIN categories' = 1..Len(categories) + 1
      /\ \A c \in 1..Len(categories) : categories'[c] = categories[c]
      /\ categories'[Len(categories) + 1] = category
      /\ Len(categories) \in Nat /\ DOMAIN categories = 1..Len(categories)
  BY <1>1, <1>2, AppendProperties, LenProperties DEF SearchTyped
<1>5. phase' = IF Len(categories') = Queries THEN "merge" ELSE "query"
  BY DEF Answer, Asked
<1>6. SearchTyped'
  BY <1>0, <1>1, <1>2, <1>3, <1>4, <1>5 DEF SearchTyped, StageSound
<1>7. StageSound'
  BY <1>0, <1>3, <1>4, <1>5 DEF StageSound
<1>8. ResultSound'
  BY <1>3 DEF ResultSound
<1>9. OfferedKept'
  <2>1. ASSUME NEW u \in offered'
        PROVE  \/ u \in ToSet(urls)
               \/ \E c \in DOMAIN categories' : u \in ToSet(categories'[c])
    <3>1. CASE u \in ToSet(category)
      BY <3>1, <1>4
    <3>2. CASE \E c \in DOMAIN categories : u \in ToSet(categories[c])
      BY <3>2, <1>4
    <3> QED BY <2>1, <1>1, <3>1, <3>2 DEF OfferedKept
  <2>2. offered' \cap excluded = {}
    BY <1>1, <1>2 DEF OfferedKept
  <2>3. phase' # "done"
    BY <1>5
  <2> QED BY <2>1, <2>2, <2>3, <1>3 DEF OfferedKept
<1>10. InStep'
  <2>1. \A c \in Category : taken'[c] = 0 /\ c < turn'
    BY <1>0, <1>3 DEF StageSound, Category
  <2>2. KeepsPace(0)'
    BY <2>1 DEF KeepsPace, Visits
  <2> QED BY <2>2 DEF InStep
<1> QED BY <1>6, <1>7, <1>8, <1>9, <1>10

LEMMA RaiseInv ==
  ASSUME SearchInv, Raise
  PROVE  SearchInv'
BY DEF SearchInv, Raise, SearchTyped, StageSound, ResultSound, OfferedKept, InStep

\* The categories are those of the queries in the merge.
LEMMA InMerge ==
  ASSUME SearchInv, phase = "merge"
  PROVE  /\ DOMAIN categories = Category
         /\ \A c \in Category : categories[c] \in Seq(Url)
         /\ Queries \in Nat \ {0}
BY LenProperties, ElementOfSeq, SearchAssumption
   DEF SearchInv, SearchTyped, StageSound, Category, SearchAssumption

LEMMA RoundInv ==
  ASSUME SearchInv, Round
  PROVE  SearchInv'
<1> USE DEF SearchInv
<1>1. /\ UNCHANGED <<capacity, excluded, categories, known, urls, offered, taken>>
      /\ phase = "merge" /\ turn = Queries + 1 /\ Queries \in Nat \ {0}
  BY InMerge DEF Round
<1>2. Len(urls) \in Nat /\ capacity \in Nat
  BY LenProperties DEF SearchTyped
<1>3. CASE Len(urls) < capacity /\ AnyLeft
  <2>1. turn' = 1 /\ phase' = "merge"
    BY <1>1, <1>3 DEF Round
  <2>2. SearchTyped' /\ StageSound' /\ ResultSound' /\ OfferedKept'
    BY <1>1, <2>1 DEF SearchTyped, StageSound, ResultSound, OfferedKept
  <2>3. PICK k \in Nat : KeepsPace(k)
    BY <1>1 DEF InStep
  <2>4. KeepsPace(k + 1)'
    <3> SUFFICES ASSUME NEW c \in Category
                 PROVE  /\ Visits(c)' <= k + 1
                        /\ \/ ToSet(categories[c]) \subseteq known
                           \/ Visits(c)' = k + 1
      BY <1>1 DEF KeepsPace
    <3>1. Visits(c) = taken[c] /\ Visits(c)' = taken[c] + 1 /\ taken[c] \in Nat
      BY <1>1, <2>1 DEF Visits, Category, SearchTyped
    <3>2. Visits(c) <= k /\ (ToSet(categories[c]) \subseteq known \/ Visits(c) = k)
      BY <2>3, <1>2, <1>3 DEF KeepsPace
    <3> QED BY <3>1, <3>2
  <2>5. InStep'
    BY <2>4 DEF InStep
  <2> QED BY <2>2, <2>5
<1>4. CASE ~(Len(urls) < capacity /\ AnyLeft)
  <2>1. turn' = turn /\ phase' = "done"
    BY <1>1, <1>4 DEF Round
  <2>2. Len(urls) = capacity \/ ~AnyLeft
    BY <1>4, <1>2 DEF ResultSound
  <2>3. AnyLeft' = AnyLeft
    BY <1>1 DEF AnyLeft
  <2>4. SearchTyped' /\ StageSound' /\ ResultSound' /\ OfferedKept'
    BY <1>1, <2>1, <2>2, <2>3 DEF SearchTyped, StageSound, ResultSound, OfferedKept
  <2>5. InStep'
    BY <1>1, <2>1 DEF InStep, KeepsPace, Visits
  <2> QED BY <2>4, <2>5
<1> QED BY <1>3, <1>4

\* What a visit does to the category, the result and known.
LEMMA VisitFacts ==
  ASSUME SearchInv, Visit
  PROVE  LET fresh == Fresh(categories[turn]) IN
         /\ phase = "merge" /\ phase' = "merge"
         /\ turn \in Category /\ turn' = turn + 1
         /\ UNCHANGED <<capacity, excluded, offered>>
         /\ DOMAIN categories' = Category
         /\ \A c \in Category : c # turn => categories'[c] = categories[c]
         /\ \/ /\ Gives(fresh)
               /\ Head(fresh) \in Url \ known
               /\ categories'[turn] = Tail(fresh)
               /\ known' = known \cup {Head(fresh)}
               /\ urls' = Append(urls, Head(fresh))
               /\ taken' = [taken EXCEPT ![turn] = @ + 1]
            \/ /\ ~Gives(fresh)
               /\ categories'[turn] = fresh
               /\ UNCHANGED <<known, urls, taken>>
<1>1. phase = "merge" /\ turn \in Category
  BY DEF Visit
<1>2. DOMAIN categories = Category /\ categories[turn] \in Seq(Url)
  BY <1>1, InMerge
<1>3. Fresh(categories[turn]) # <<>> => Head(Fresh(categories[turn])) \in Url \ known
  BY <1>2, FreshProperties
<1>4. CASE Gives(Fresh(categories[turn]))
  BY <1>1, <1>2, <1>3, <1>4 DEF Visit, NextTurn, Gives
<1>5. CASE ~Gives(Fresh(categories[turn]))
  BY <1>1, <1>2, <1>5 DEF Visit, NextTurn
<1> QED BY <1>4, <1>5

LEMMA VisitTypes ==
  ASSUME SearchInv, Visit
  PROVE  SearchTyped' /\ StageSound'
<1> USE DEF SearchInv
<1> DEFINE fresh == Fresh(categories[turn])
<1>1. /\ phase = "merge" /\ turn \in Category /\ turn' = turn + 1
      /\ Queries \in Nat \ {0} /\ categories[turn] \in Seq(Url)
      /\ DOMAIN categories = Category
  BY InMerge, VisitFacts
<1>2. fresh \in Seq(Url) /\ (Gives(fresh) => Tail(fresh) \in Seq(Url) /\ Head(fresh) \in Url)
  BY <1>1, FreshProperties, HeadTailProperties DEF Gives
<1> HIDE DEF fresh
<1>3. \A s \in Seq(Url) : /\ [categories EXCEPT ![turn] = s] \in Seq(Seq(Url))
                          /\ Len([categories EXCEPT ![turn] = s]) = Len(categories)
  BY <1>1, ExceptSeq, LenProperties DEF SearchTyped
<1>4. categories' \in Seq(Seq(Url)) /\ Len(categories') = Len(categories)
  <2>1. categories' = [categories EXCEPT ![turn] = IF Gives(fresh) THEN Tail(fresh)
                                                   ELSE fresh]
    BY DEF Visit, fresh
  <2>2. (IF Gives(fresh) THEN Tail(fresh) ELSE fresh) \in Seq(Url)
    BY <1>2
  <2> QED BY <1>3, <2>1, <2>2
<1>5. /\ Gives(fresh) => Append(urls, Head(fresh)) \in Seq(Url)
      /\ [taken EXCEPT ![turn] = @ + 1] \in [Category -> Nat]
  <2>1. taken[turn] + 1 \in Nat
    BY <1>1 DEF SearchTyped
  <2> QED BY <1>2, <2>1, AppendProperties DEF SearchTyped
<1>6. urls' \in Seq(Url) /\ known' \subseteq Url /\ taken' \in [Category -> Nat]
  BY <1>2, <1>5, VisitFacts DEF SearchTyped, fresh
<1>7. turn + 1 \in 1..Queries + 1
  BY <1>1 DEF Category
<1> QED BY <1>1, <1>4, <1>6, <1>7, VisitFacts DEF SearchTyped, StageSound

LEMMA VisitResult ==
  ASSUME SearchInv, Visit
  PROVE  ResultSound'
<1> USE DEF SearchInv, ResultSound
<1> DEFINE fresh == Fresh(categories[turn])
           u == Head(fresh)
<1>1. Len(urls) \in Nat /\ capacity \in Nat /\ DOMAIN urls = 1..Len(urls)
  BY LenProperties DEF SearchTyped
<1>2. CASE Gives(fresh)
  <2>1. /\ u \in Url \ known /\ Len(urls) < capacity
        /\ known' = known \cup {u} /\ urls' = Append(urls, u)
        /\ UNCHANGED <<capacity, excluded>>
    BY <1>2, VisitFacts DEF Gives
  <2> HIDE DEF u
  <2>2. /\ Len(urls') = Len(urls) + 1
        /\ \A i \in 1..Len(urls) : urls'[i] = urls[i]
        /\ urls'[Len(urls) + 1] = u
    BY <2>1, AppendProperties DEF SearchTyped
  <2>3. ToSet(urls') = ToSet(urls) \cup {u}
    BY <2>1, AppendElements DEF SearchTyped
  <2>4. \A i \in 1..Len(urls) : urls[i] # u
    BY <2>1, <1>1 DEF ToSet
  <2>5. \A i \in 1..Len(urls') : i \in 1..Len(urls) \/ i = Len(urls) + 1
    BY <2>2, <1>1
  <2>6. \A i, j \in 1..Len(urls') : urls'[i] = urls'[j] => i = j
    BY <2>2, <2>4, <2>5
  <2> QED BY <1>1, <2>1, <2>2, <2>3, <2>6
<1>3. CASE ~Gives(fresh)
  BY <1>3, VisitFacts
<1> QED BY <1>2, <1>3

\* What a visit takes from its category is known.
LEMMA VisitKeeps ==
  ASSUME SearchInv, Visit
  PROVE  /\ \A c \in Category :
              /\ ToSet(categories[c]) \subseteq known' \cup ToSet(categories'[c])
              /\ ToSet(categories'[c]) \subseteq ToSet(categories[c])
         /\ known \subseteq known'
<1> DEFINE fresh == Fresh(categories[turn])
<1>1. turn \in Category /\ categories[turn] \in Seq(Url)
  BY InMerge, VisitFacts
<1>2. /\ fresh \in Seq(Url)
      /\ ToSet(fresh) \subseteq ToSet(categories[turn])
      /\ ToSet(categories[turn]) \subseteq known \cup ToSet(fresh)
  BY <1>1, FreshProperties
<1>3. fresh # <<>> => /\ ToSet(Tail(fresh)) \subseteq ToSet(fresh)
                      /\ ToSet(fresh) \subseteq {Head(fresh)} \cup ToSet(Tail(fresh))
  BY <1>2, TailElements
<1>4. CASE Gives(fresh)
  <2>1. /\ fresh # <<>> /\ categories'[turn] = Tail(fresh)
        /\ known' = known \cup {Head(fresh)}
        /\ \A c \in Category : c # turn => categories'[c] = categories[c]
    BY <1>4, VisitFacts DEF Gives
  <2> HIDE DEF fresh
  <2> QED BY <1>2, <1>3, <2>1
<1>5. CASE ~Gives(fresh)
  <2>1. /\ categories'[turn] = fresh /\ known' = known
        /\ \A c \in Category : c # turn => categories'[c] = categories[c]
    BY <1>5, VisitFacts
  <2> HIDE DEF fresh
  <2> QED BY <1>2, <2>1
<1> QED BY <1>4, <1>5

LEMMA VisitOffered ==
  ASSUME SearchInv, Visit
  PROVE  OfferedKept'
<1> USE DEF SearchInv
<1>1. /\ DOMAIN categories = Category /\ DOMAIN categories' = Category
      /\ UNCHANGED <<excluded, offered>> /\ phase' = "merge"
  BY InMerge, VisitFacts
<1>2. known' = excluded \cup ToSet(urls')
  BY <1>1, VisitResult DEF ResultSound
<1>3. ToSet(urls) \subseteq ToSet(urls') \cup excluded
  BY <1>2, VisitKeeps DEF ResultSound
<1>4. ASSUME NEW u \in offered
      PROVE  \/ u \in ToSet(urls')
             \/ \E c \in Category : u \in ToSet(categories'[c])
  <2>1. u \notin excluded
    BY DEF OfferedKept
  <2>2. CASE u \in ToSet(urls)
    BY <2>1, <2>2, <1>3
  <2>3. CASE \E c \in Category : u \in ToSet(categories[c])
    BY <2>1, <2>3, <1>2, VisitKeeps
  <2> QED BY <1>1, <2>2, <2>3 DEF OfferedKept
<1> QED BY <1>1, <1>4 DEF OfferedKept

\* The category at its turn gives its URL of this round, or is exhausted, or
\* there is no room left.
LEMMA VisitPace ==
  ASSUME SearchInv, Visit
  PROVE  InStep'
<1> USE DEF SearchInv
<1> DEFINE fresh == Fresh(categories[turn])
<1>1. /\ phase = "merge" /\ turn \in Category /\ turn' = turn + 1
      /\ capacity' = capacity
      /\ \A c \in Category : c # turn => categories'[c] = categories[c]
  BY VisitFacts
<1>2. /\ Queries \in Nat /\ turn \in Nat /\ capacity \in Nat
      /\ \A c \in Category : c \in Nat /\ taken[c] \in Nat
  <2>1. Queries \in Nat
    BY <1>1, InMerge
  <2>2. \A c \in Category : c \in Nat
    BY <2>1 DEF Category
  <2> QED BY <1>1, <2>1, <2>2 DEF SearchTyped
<1>3. Len(urls) \in Nat /\ Len(urls) <= capacity
  BY LenProperties DEF SearchTyped, ResultSound
<1>4. PICK k \in Nat : KeepsPace(k)
  BY <1>1 DEF InStep
<1>5. KeepsPace(k)'
  <2> SUFFICES ASSUME NEW c \in Category
               PROVE  /\ Visits(c)' <= k
                      /\ \/ ToSet(categories'[c]) \subseteq known'
                         \/ Visits(c)' = k
                         \/ Len(urls') = capacity /\ taken'[c] + 1 = k
    BY <1>1 DEF KeepsPace
  <2>1. /\ Visits(c) <= k
        /\ \/ ToSet(categories[c]) \subseteq known
           \/ Visits(c) = k
           \/ Len(urls) = capacity /\ taken[c] + 1 = k
    BY <1>4 DEF KeepsPace
  <2>2. ToSet(categories[c]) \subseteq known => ToSet(categories'[c]) \subseteq known'
    BY VisitKeeps
  <2>3. CASE Gives(fresh)
    <3>1. /\ Len(urls) < capacity /\ taken' = [taken EXCEPT ![turn] = @ + 1]
      BY <2>3, VisitFacts DEF Gives
    <3>2. Visits(c)' = Visits(c)
      <4>1. CASE c = turn
        BY <4>1, <3>1, <1>1, <1>2 DEF Visits, SearchTyped
      <4>2. CASE c # turn
        BY <4>2, <3>1, <1>1, <1>2 DEF Visits, SearchTyped
      <4> QED BY <4>1, <4>2
    <3> QED BY <2>1, <2>2, <3>1, <3>2, <1>2, <1>3
  <2>4. CASE ~Gives(fresh)
    <3>1. UNCHANGED <<known, urls, taken>> /\ categories'[turn] = fresh
      BY <2>4, VisitFacts
    <3>2. CASE c # turn
      <4>1. Visits(c)' = Visits(c)
        BY <3>1, <3>2, <1>1, <1>2 DEF Visits
      <4> QED BY <4>1, <3>1, <3>2, <2>1, <2>2, <1>1
    <3>3. CASE c = turn
      <4>1. Visits(c) = taken[c] + 1 /\ Visits(c)' = taken[c]
        BY <3>1, <3>3, <1>1, <1>2 DEF Visits
      <4>2. Visits(c)' <= k
        BY <4>1, <2>1, <1>2
      <4>3. CASE fresh = <<>>
        <5>1. ToSet(categories'[c]) \subseteq known'
          BY <3>1, <3>3, <4>3 DEF ToSet
        <5> QED BY <4>2, <5>1
      <4>4. CASE fresh # <<>>
        <5>1. Len(urls) = capacity
          BY <4>4, <2>4, <1>2, <1>3 DEF Gives
        <5> QED BY <4>1, <4>2, <5>1, <3>1, <2>1, <2>2
      <4> QED BY <4>3, <4>4
    <3> QED BY <3>2, <3>3
  <2> QED BY <2>3, <2>4
<1> QED BY <1>5 DEF InStep

LEMMA SearchStepInv == SearchInv /\ [SearchNext]_searchVars => SearchInv'
<1> SUFFICES ASSUME SearchInv, [SearchNext]_searchVars PROVE SearchInv'
  OBVIOUS
<1>1. CASE Visit
  BY <1>1, VisitTypes, VisitResult, VisitOffered, VisitPace DEF SearchInv
<1>2. CASE UNCHANGED searchVars
  BY <1>2 DEF searchVars, SearchInv, SearchTyped, StageSound, ResultSound, OfferedKept,
     AnyLeft, InStep, KeepsPace, Visits
<1> QED BY <1>1, <1>2, AnswerInv, RaiseInv, RoundInv DEF SearchNext

-----------------------------------------------------------------------------
(* The search: the theorems.                                               *)

\* The invariant holds in every behaviour.
THEOREM SearchInvariance == SearchSpec => []SearchInv
BY SearchInitInv, SearchStepInv, PTL DEF SearchSpec

\* search returns no URL twice, none it was told to leave out and never more
\* than the capacity (search_tavily.py:47-57): what ResearchRun assumes of
\* its search adapter.
THEOREM NewUrlsCorrect == SearchSpec => []NewUrlsOnly
<1>1. SearchInv => NewUrlsOnly
  <2> SUFFICES ASSUME SearchInv PROVE NewUrlsOnly
    OBVIOUS
  <2>1. /\ Len(urls) \in 0..capacity
        /\ urls \in [1..Len(urls) -> Url] /\ DOMAIN urls = 1..Len(urls)
    BY LenProperties DEF SearchInv, SearchTyped, ResultSound
  <2>2. \A i \in 1..Len(urls) : urls[i] \in Url \ excluded
    BY <2>1 DEF SearchInv, ResultSound, ToSet
  <2>3. urls \in [1..Len(urls) -> Url \ excluded]
    BY <2>1, <2>2
  <2>4. \A i, j \in DOMAIN urls : urls[i] = urls[j] => i = j
    BY <2>1 DEF SearchInv, ResultSound
  <2> QED BY <2>1, <2>3, <2>4 DEF NewUrlsOnly, Hits
<1> QED BY <1>1, SearchInvariance, PTL

\* Room is left only when every new URL of every answer was returned, and no
\* category is two URLs ahead of one that has a new URL left
\* (search_tavily.py:47-58).
THEOREM RoundRobinCorrect == SearchSpec => []RoundRobin
<1>1. SearchInv => NothingWithheld
  <2> SUFFICES ASSUME SearchInv, phase = "done", Len(urls) # capacity
               PROVE  offered \subseteq ToSet(urls)
    BY DEF NothingWithheld
  <2>1. DOMAIN categories = Category
    BY LenProperties DEF SearchInv, SearchTyped, StageSound, Category
  <2>2. \A c \in Category : ToSet(categories[c]) = {}
    BY DEF SearchInv, OfferedKept, AnyLeft, ToSet
  <2> QED BY <2>1, <2>2 DEF SearchInv, OfferedKept
<1>2. SearchInv => Balanced
  <2> SUFFICES ASSUME SearchInv, NEW c \in Category, NEW d \in Category,
                      phase \in {"merge", "done"}, taken[c] > taken[d] + 1
               PROVE  ToSet(categories[d]) \subseteq known
    BY DEF Balanced
  <2>1. PICK k \in Nat : KeepsPace(k)
    BY DEF SearchInv, InStep
  <2>2. taken[c] \in Nat /\ taken[d] \in Nat
    BY DEF SearchInv, SearchTyped
  <2>3. taken[c] <= k
    BY <2>1, <2>2 DEF KeepsPace, Visits
  <2>4. Visits(d) # k /\ taken[d] + 1 # k
    BY <2>2, <2>3 DEF Visits
  <2> QED BY <2>1, <2>4 DEF KeepsPace
<1> QED BY <1>1, <1>2, SearchInvariance, PTL DEF RoundRobin

-----------------------------------------------------------------------------
(* The run: the inductive invariant.                                       *)

Stage == Operation \cup {"hits", "done"}

StageTyped ==
  /\ stage \in Stage /\ gate \in BOOLEAN
  /\ outcome \in {"none", "result", "failed", "canceled", "timeout"}

CountTyped ==
  /\ iteration \in Nat /\ query \in Nat /\ used \in Nat /\ losses \in Nat
  /\ sent \in Nat /\ calls \in Nat /\ opened \in Nat
  /\ manifest \in [queries : Nat, calls : Nat]

DataTyped ==
  /\ seeds \in Seq(Record) /\ authority \subseteq Url \X Content
  /\ hits \in Seq(Url)
  /\ page \in Record \cup {NoPage}
  /\ records \subseteq Record /\ IsFiniteSet(records) /\ unverified \subseteq Record
  /\ seen \subseteq Url
  /\ archive \subseteq Content /\ read \subseteq Content
  /\ captures \in [Url -> Nat]

TypeOK == StageTyped /\ CountTyped /\ DataTyped

\* Behind a checkpoint nothing was started yet.
GateSound ==
  /\ opened <= 1
  /\ stage \in Operation /\ ~gate => opened = 0
  /\ stage = "hits" => ~gate
  /\ stage = "seed" /\ ~gate => seeds # <<>>

\* The first iteration begins after the seeds; no more than two model calls
\* are made in one, and every query is counted when the search returns.
CountSound ==
  /\ stage = "seed" => iteration = 0 /\ calls = 0
  /\ stage \notin {"seed", "done"} => iteration >= 1
  /\ stage = "plan" => calls + 2 <= 2 * iteration
  /\ stage \in {"search", "query", "hits", "fetch", "put", "synthesize"} => calls + 1 <= 2 * iteration
  /\ stage = "verify" => calls <= 2 * iteration
  /\ stage \in {"search", "query"} => sent = used + query /\ query < Queries
  /\ stage \notin {"search", "query", "done"} => sent = used

\* Where the hit at the head of the list is about to be captured.
Capturing == stage \in {"fetch", "put"}

\* The budget holds once the seeds are verified; a hit that is captured is new,
\* and the URLs of the records and of what was captured are known.
SourceSound ==
  /\ iteration > 0 => Cardinality(records) <= MaxSources
  /\ Capturing => hits # <<>> /\ Head(hits) \notin seen /\ Cardinality(records) < MaxSources
  /\ stage = "put" => page \in Record /\ page.url = Head(hits)
  /\ stage = "seed" => \A u \in Url : captures[u] = 0
  /\ stage \notin {"seed", "done"} =>
       /\ \A r \in records : UrlsOf(r) \subseteq seen
       /\ \A u \in Url : captures[u] # 0 => u \in seen

\* What the final loop has verified was read back after the draft.
ReadSound ==
  /\ stage = "verify" => \A r \in records \ unverified : r.content \in read
  /\ outcome # "none" => stage = "done"

IInv ==
  /\ TypeOK
  /\ GateSound
  /\ CountSound
  /\ SourceSound
  /\ ReadSound
  /\ ResultIsBacked

-----------------------------------------------------------------------------
(* The run: the invariant is preserved.                                    *)

LEMMA InitIInv == Init => IInv
<1> SUFFICES ASSUME Init PROVE IInv
  OBVIOUS
<1>1. PICK r \in Requests : seeds = r.seeds /\ authority = r.authority
  BY DEF Init
<1>2. r \in [seeds : Seq(Record), authority : SUBSET (Url \X Content)]
  BY RunAssumption
<1>3. seeds \in Seq(Record) /\ authority \subseteq Url \X Content
  BY <1>1, <1>2
<1>4. archive \subseteq Content
  <2>1. \A i \in DOMAIN seeds : seeds[i] \in Record
    BY <1>3
  <2> QED
    BY <2>1 DEF Init, Record
<1>5. hits \in Seq(Url)
  BY EmptySeq DEF Init
<1>6. TypeOK
  BY <1>3, <1>4, <1>5, FS_EmptySet DEF Init, TypeOK, StageTyped, CountTyped, DataTyped, Stage, Operation, NoManifest
<1>7. GateSound /\ CountSound /\ ReadSound /\ ResultIsBacked
  BY RunAssumption DEF Init, GateSound, CountSound, ReadSound, ResultIsBacked, Operation
<1>8. SourceSound
  BY FS_EmptySet, RunAssumption DEF Init, SourceSound, Capturing
<1> QED
  BY <1>6, <1>7, <1>8 DEF IInv

\* What an answer of the search is.
LEMMA HitsTyped ==
  ASSUME NEW room \in Int, NEW left \in SUBSET Url, NEW s \in Hits(Url, room, left)
  PROVE  s \in Seq(Url)
<1>1. PICK n \in 0..room : s \in [1..n -> Url \ left]
  BY DEF Hits
<1>2. n \in Nat /\ s \in [1..n -> Url]
  BY <1>1
<1> QED
  BY <1>2, SeqDef

\* A record replaces the one with its id.
LEMMA RecordsGrow ==
  ASSUME NEW p, IsFiniteSet(records)
  PROVE  /\ IsFiniteSet(RecordsWith(p))
         /\ Cardinality(RecordsWith(p)) <= Cardinality(records) + 1
         /\ Cardinality(records) \in Nat
<1> DEFINE rest == {r \in records : Id(r) # Id(p)}
<1>1. IsFiniteSet(rest) /\ Cardinality(rest) <= Cardinality(records)
  BY FS_Subset
<1>2. IsFiniteSet(rest \cup {p}) /\ Cardinality(rest \cup {p}) <= Cardinality(rest) + 1
  <2>1. /\ IsFiniteSet(rest \cup {p})
        /\ Cardinality(rest \cup {p}) = IF p \in rest THEN Cardinality(rest) ELSE Cardinality(rest) + 1
    BY <1>1, FS_AddElement, Zenon
  <2>2. Cardinality(rest) \in Nat
    BY <1>1, FS_CardinalityType
  <2> QED
    BY <2>1, <2>2
<1>3. Cardinality(records) \in Nat /\ Cardinality(rest) \in Nat /\ Cardinality(rest \cup {p}) \in Nat
  BY <1>1, <1>2, FS_CardinalityType
<1> HIDE DEF rest
<1>4. Cardinality(rest \cup {p}) <= Cardinality(records) + 1
  BY <1>1, <1>2, <1>3
<1> QED
  BY <1>2, <1>3, <1>4 DEF RecordsWith, rest

LEMMA StageStep ==
  ASSUME StageTyped, Next
  PROVE  StageTyped'
<1> USE DEF StageTyped, Stage, Operation, GoTo, Gated, Fail, ending
<1>1. CASE Checkpoint \/ CheckpointRaises \/ Deadline \/ DuplicateSeed \/ Lose
  BY <1>1 DEF Checkpoint, CheckpointRaises, Deadline, DuplicateSeed, Lose
<1>2. CASE VerifySeed \/ SeedsVerified
  BY <1>2 DEF VerifySeed, SeedsVerified
<1>3. CASE Plan \/ EnterSearch \/ SendQuery
  BY <1>3 DEF Plan, RetryOrFail, EnterSearch, SendQuery
<1>4. CASE NextHit \/ Fetch \/ Put
  BY <1>4 DEF NextHit, Fetch, Put
<1>5. CASE Synthesize \/ VerifyRecord \/ Return
  BY <1>5 DEF Synthesize, RetryOrFail, VerifyRecord, Return
<1> QED
  BY <1>1, <1>2, <1>3, <1>4, <1>5 DEF Next, Run

LEMMA CountersStep ==
  ASSUME CountTyped, Next
  PROVE  CountTyped'
<1> USE RunAssumption DEF CountTyped, ending, search, storage, history
<1>1. CASE Checkpoint \/ CheckpointRaises \/ Deadline \/ DuplicateSeed \/ Lose
  BY <1>1 DEF Checkpoint, CheckpointRaises, Deadline, DuplicateSeed, Fail, Lose
<1>2. CASE VerifySeed \/ SeedsVerified
  BY <1>2 DEF VerifySeed, SeedsVerified, Opens, GoTo, Fail
<1>3. CASE Plan
  BY <1>3 DEF Plan, RetryOrFail, Opens, GoTo, Fail
<1>4. CASE EnterSearch
  BY <1>4 DEF EnterSearch, GoTo
<1>10. CASE SendQuery
  <2>1. manifest' = manifest
    BY <1>10 DEF SendQuery, GoTo, Fail
  <2>2. /\ opened' = opened + 1 /\ sent' = sent + 1
        /\ query' = query \/ query' = query + 1
        /\ used' = used \/ used' = used + Queries
        /\ UNCHANGED <<iteration, losses, calls>>
    BY <1>10 DEF SendQuery, UsedSoFar, Opens
  <2> QED
    BY <2>1, <2>2
<1>5. CASE NextHit
  BY <1>5 DEF NextHit, GoTo
<1>8. CASE Fetch
  BY <1>8 DEF Fetch, Opens, GoTo, Fail
<1>9. CASE Put
  BY <1>9 DEF Put, Opens, GoTo, Fail
<1>6. CASE Synthesize
  BY <1>6 DEF Synthesize, RetryOrFail, Opens, GoTo, Fail
<1>7. CASE VerifyRecord \/ Return
  BY <1>7 DEF VerifyRecord, Return, Opens, GoTo, Fail
<1> QED
  BY <1>1, <1>2, <1>3, <1>4, <1>5, <1>6, <1>7, <1>8, <1>9, <1>10 DEF Next, Run

LEMMA DataStep ==
  ASSUME DataTyped, GateSound, SourceSound, Next
  PROVE  DataTyped'
<1>a. \A s \in Seq(Url) : s # <<>> => Head(s) \in Url /\ Tail(s) \in Seq(Url)
  BY HeadTailProperties
<1>b. \A s \in Seq(Record) : s # <<>> => Head(s) \in Record /\ Tail(s) \in Seq(Record)
  BY HeadTailProperties
<1>c. IsFiniteSet(records)
  BY DEF DataTyped
<1> USE DEF DataTyped, request, search, evidence, storage, history
<1>1. CASE Checkpoint \/ CheckpointRaises \/ Deadline \/ DuplicateSeed
  BY <1>1 DEF Checkpoint, CheckpointRaises, Deadline, DuplicateSeed
<1>2. CASE VerifySeed
  <2>1. Head(seeds) \in Record /\ Tail(seeds) \in Seq(Record)
    BY <1>2, <1>b DEF VerifySeed, At, GateSound
  <2>2. /\ records' = records \cup {Head(seeds)} \/ records' = records
        /\ read' = read \cup {Head(seeds).content} \/ read' = read
        /\ seeds' = Tail(seeds) \/ seeds' = seeds
        /\ UNCHANGED <<authority, hits, page, unverified, seen, archive, captures>>
    BY <1>2 DEF VerifySeed
  <2>3. Head(seeds).content \in Content
    BY <2>1 DEF Record
  <2>4. IsFiniteSet(records \cup {Head(seeds)})
    BY <1>c, FS_AddElement
  <2> QED
    BY <2>1, <2>2, <2>3, <2>4
<1>3. CASE SeedsVerified
  BY <1>3 DEF SeedsVerified, UrlsOf, Record
<1>4. CASE Plan
  BY <1>4 DEF Plan
<1>5. CASE EnterSearch \/ VerifyRecord \/ Return
  BY <1>5 DEF EnterSearch, VerifyRecord, Return, Record
<1>6. CASE SendQuery
  <2>1. MaxSources - Cardinality(records) \in Int
    BY <1>c, FS_CardinalityType, RunAssumption
  <2>2. \A s \in Hits(Url, MaxSources - Cardinality(records), seen) : s \in Seq(Url)
    BY <2>1, HitsTyped
  <2>3. /\ hits' = hits \/ hits' \in Hits(Url, MaxSources - Cardinality(records), seen)
        /\ UNCHANGED <<seeds, authority, page, records, unverified, seen, archive, read, captures>>
    BY <1>6 DEF SendQuery
  <2> QED
    BY <2>2, <2>3
<1>7. CASE NextHit
  <2>1. /\ hits' = hits \/ (hits # <<>> /\ hits' = Tail(hits))
        /\ UNCHANGED <<seeds, authority, page, records, unverified, seen, archive, read, captures>>
    BY <1>7 DEF NextHit
  <2> QED
    BY <2>1, <1>a
<1>8. CASE Fetch
  <2>1. Head(hits) \in Url /\ Tail(hits) \in Seq(Url)
    BY <1>8, <1>a DEF Fetch, At, SourceSound, Capturing
  <2>2. /\ hits' = hits \/ hits' = Tail(hits)
        /\ page' = page \/ \E f \in Url, c \in Content : page' = [url |-> Head(hits), final |-> f, content |-> c]
        /\ UNCHANGED <<seeds, authority, records, unverified, seen, archive, read, captures>>
    BY <1>8 DEF Fetch, NextHits
  <2>3. page' \in Record \cup {NoPage}
    BY <2>1, <2>2 DEF Record
  <2>4. hits' \in Seq(Url)
    BY <2>1, <2>2
  <2> QED
    BY <2>2, <2>3, <2>4
<1>9. CASE Put
  <2>1. page \in Record /\ Tail(hits) \in Seq(Url)
    BY <1>9, <1>a DEF Put, At, SourceSound, Capturing
  <2>2. page.url \in Url /\ page.final \in Url /\ page.content \in Content
    BY <2>1 DEF Record
  <2>3. /\ hits' = hits \/ hits' = Tail(hits)
        /\ page' = NoPage
        /\ records' = records \/ records' = RecordsWith(page)
        /\ archive' = archive \/ archive' = archive \cup {page.content}
        /\ read' = read \/ read' = read \cup {page.content}
        /\ seen' = seen \/ seen' = seen \cup UrlsOf(page)
        /\ captures' = captures \/ captures' = [captures EXCEPT ![page.url] = @ + 1]
        /\ UNCHANGED <<seeds, authority, unverified>>
    BY <1>9 DEF Put
  <2>4. IsFiniteSet(RecordsWith(page)) /\ RecordsWith(page) \subseteq Record
    BY <1>c, <2>1, RecordsGrow DEF RecordsWith
  <2>5. captures' \in [Url -> Nat]
    <3>1. captures[page.url] + 1 \in Nat
      BY <2>2
    <3> QED
      BY <2>3, <3>1
  <2>6. seen' \subseteq Url
    BY <2>2, <2>3 DEF UrlsOf
  <2> QED
    BY <2>1, <2>2, <2>3, <2>4, <2>5, <2>6
<1>10. CASE Synthesize
  BY <1>10 DEF Synthesize, ToVerify
<1>11. CASE Lose
  BY <1>11 DEF Lose
<1> QED
  BY <1>1, <1>2, <1>3, <1>4, <1>5, <1>6, <1>7, <1>8, <1>9, <1>10, <1>11 DEF Next, Run

LEMMA GateStep ==
  ASSUME TypeOK, GateSound, Next
  PROVE  GateSound'
<1>a. opened \in Nat /\ (stage \in Operation /\ ~gate => opened = 0)
  BY DEF TypeOK, CountTyped, GateSound
<1>b. opened <= 1
  BY DEF GateSound
<1>c. ASSUME NEW s \in Operation, At(s), Opens PROVE opened' = 1
  BY <1>a, <1>c DEF At, Opens
<1>d. ASSUME NEW s, GoTo(s) PROVE stage' = s /\ (gate' \/ s = "hits") /\ (s = "hits" => ~gate')
  BY <1>d DEF GoTo, Gated
<1>e. ASSUME Fail PROVE stage' = "done"
  BY <1>e DEF Fail
<1>f. ASSUME opened' = opened \/ opened' = 1,
             \/ UNCHANGED <<stage, gate, seeds>> /\ opened' = opened
             \/ stage' = "done"
             \/ \E s \in Stage : GoTo(s)
      PROVE  GateSound'
  <2>1. CASE \E s \in Stage : GoTo(s)
    BY <1>a, <1>b, <1>d, <1>f, <2>1 DEF GateSound, Operation
  <2> QED
    BY <1>a, <1>b, <1>f, <2>1 DEF GateSound, Operation
<1> USE DEF Stage, Operation
<1>1. CASE Checkpoint
  BY <1>1 DEF Checkpoint, CheckpointDue, GateSound, request
<1>2. CASE CheckpointRaises \/ Deadline \/ DuplicateSeed \/ SeedsVerified \/ EnterSearch \/ Return \/ Lose \/ NextHit
  BY <1>2, <1>e, <1>f DEF CheckpointRaises, Deadline, DuplicateSeed, SeedsVerified, EnterSearch, Return, Lose,
                    NextHit, history, request
<1>3. CASE VerifySeed \/ Plan \/ SendQuery \/ Fetch \/ Put \/ Synthesize \/ VerifyRecord
  BY <1>3, <1>c, <1>e, <1>f DEF VerifySeed, Plan, SendQuery, Fetch, Put, Synthesize, VerifyRecord, RetryOrFail
<1> QED
  BY <1>1, <1>2, <1>3 DEF Next, Run

LEMMA CountStep ==
  ASSUME TypeOK, CountSound, Next
  PROVE  CountSound'
<1>a. /\ iteration \in Nat /\ query \in Nat /\ used \in Nat /\ sent \in Nat /\ calls \in Nat
      /\ Queries \in Nat \ {0}
  BY RunAssumption DEF TypeOK, CountTyped
<1>b. ASSUME Fail \/ stage' = "done" PROVE CountSound'
  BY <1>b DEF Fail, CountSound
<1>c. ASSUME NEW s, GoTo(s) PROVE stage' = s
  BY <1>c DEF GoTo
<1>d. ASSUME UNCHANGED <<stage, iteration, used, query, sent, calls>> PROVE CountSound'
  BY <1>d DEF CountSound
<1>1. CASE Checkpoint \/ Lose
  BY <1>1, <1>d DEF Checkpoint, Lose, search, history
<1>2. CASE CheckpointRaises \/ Deadline \/ DuplicateSeed \/ Return
  BY <1>2, <1>b DEF CheckpointRaises, Deadline, DuplicateSeed, Return
<1>3. CASE VerifySeed
  BY <1>3, <1>b, <1>c, <1>d DEF VerifySeed, At, search
<1>4. CASE SeedsVerified
  <2>1. Fail \/ (GoTo("plan") /\ iteration' = 1)
    BY <1>4 DEF SeedsVerified
  <2>2. stage = "seed" /\ UNCHANGED <<used, query, sent, calls>>
    BY <1>4 DEF SeedsVerified, search, history
  <2> QED
    BY <1>a, <1>b, <1>c, <2>1, <2>2 DEF CountSound
<1>5. CASE Plan
  <2>1. /\ stage = "plan" /\ calls' = calls + 1 /\ query' = 0 /\ UNCHANGED <<used, sent>>
        /\ \/ GoTo("search") /\ iteration' = iteration
           \/ GoTo("plan") /\ iteration' = iteration + 1
           \/ Fail
    BY <1>5 DEF Plan, At, RetryOrFail
  <2> QED
    BY <1>a, <1>b, <1>c, <2>1 DEF CountSound
<1>6. CASE EnterSearch
  <2>1. stage = "search" /\ GoTo("query") /\ UNCHANGED <<iteration, used, query, sent, calls>>
    BY <1>6 DEF EnterSearch, At, search, history
  <2> QED
    BY <1>c, <2>1 DEF CountSound
<1>7. CASE SendQuery
  <2>1. /\ stage = "query" /\ sent' = sent + 1 /\ UNCHANGED <<iteration, calls>>
        /\ \/ query + 1 < Queries /\ query' = query + 1 /\ GoTo("query") /\ used' = used
           \/ query + 1 = Queries /\ used' = used + Queries /\ GoTo("hits")
           \/ Fail
    BY <1>7 DEF SendQuery, At, UsedSoFar
  <2> QED
    BY <1>a, <1>b, <1>c, <2>1 DEF CountSound
<1>8. CASE NextHit \/ Fetch \/ Put
  <2>1. /\ stage \in {"hits", "fetch", "put"} /\ UNCHANGED <<iteration, used, query, sent, calls>>
        /\ UNCHANGED stage \/ Fail \/ \E s \in {"hits", "fetch", "put", "synthesize"} : GoTo(s)
    BY <1>8 DEF NextHit, Fetch, Put, At, history
  <2> QED
    BY <1>b, <1>c, <2>1 DEF CountSound
<1>9. CASE Synthesize
  <2>1. /\ stage = "synthesize" /\ calls' = calls + 1 /\ UNCHANGED <<used, query, sent>>
        /\ \/ GoTo("verify") /\ iteration' = iteration
           \/ GoTo("plan") /\ iteration' = iteration + 1
           \/ Fail
    BY <1>9 DEF Synthesize, At, RetryOrFail, search
  <2> QED
    BY <1>a, <1>b, <1>c, <2>1 DEF CountSound
<1>10. CASE VerifyRecord
  BY <1>10, <1>b, <1>c, <1>d DEF VerifyRecord, At, search
<1> QED
  BY <1>1, <1>2, <1>3, <1>4, <1>5, <1>6, <1>7, <1>8, <1>9, <1>10 DEF Next, Run

\* The budget, and what is known of the URLs that were captured.
LEMMA SourceStep ==
  ASSUME TypeOK, CountSound, SourceSound, Next
  PROVE  SourceSound'
<1>a. /\ IsFiniteSet(records) /\ Cardinality(records) \in Nat /\ MaxSources \in Nat
      /\ records \subseteq Record /\ seen \subseteq Url /\ iteration \in Nat
      /\ captures \in [Url -> Nat]
  BY FS_CardinalityType, RunAssumption DEF TypeOK, DataTyped, CountTyped
<1>b. ASSUME UNCHANGED <<records, seen, captures>>, UNCHANGED <<stage, iteration, hits, page>>
      PROVE  SourceSound'
  BY <1>b DEF SourceSound, Capturing
<1>c. ASSUME Fail \/ stage' = "done", UNCHANGED <<records, iteration>> \/ iteration' = 0
      PROVE  SourceSound'
  BY <1>c DEF Fail, SourceSound, Capturing
<1>d. ASSUME NEW s \in {"plan", "search", "query", "hits", "synthesize", "verify"}, GoTo(s),
             stage \notin {"seed", "done"}, UNCHANGED <<records, seen, captures>>
      PROVE  SourceSound'
  <2>1. stage' = s
    BY <1>d DEF GoTo
  <2>2. iteration > 0
    BY <1>a, <1>d DEF CountSound
  <2> QED
    BY <1>d, <2>1, <2>2 DEF SourceSound, Capturing
<1>1. CASE Checkpoint \/ Lose
  BY <1>1, <1>b DEF Checkpoint, Lose, search, evidence, history
<1>2. CASE CheckpointRaises \/ Deadline \/ DuplicateSeed \/ Return
  BY <1>2, <1>c DEF CheckpointRaises, Deadline, DuplicateSeed, Return, evidence
<1>3. CASE VerifySeed
  <2>1. stage = "seed" /\ (stage' = "seed" \/ stage' = "done") /\ iteration' = iteration /\ captures' = captures
    BY <1>3 DEF VerifySeed, At, GoTo, Fail
  <2>2. iteration = 0
    BY <2>1 DEF CountSound
  <2> QED
    BY <2>1, <2>2 DEF SourceSound, Capturing
<1>4. CASE SeedsVerified
  <2>1. stage = "seed" /\ records' = records /\ captures' = captures
    BY <1>4 DEF SeedsVerified, history
  <2>2. iteration = 0
    BY <2>1 DEF CountSound
  <2>3. CASE Fail /\ iteration' = iteration
    BY <2>1, <2>3, <1>c
  <2>4. CASE SeedsFit /\ GoTo("plan")
    <3>1. stage' = "plan" /\ Cardinality(records) <= MaxSources
      BY <2>4 DEF GoTo, SeedsFit
    <3>2. \A r \in records : UrlsOf(r) \subseteq seen'
      BY <1>4 DEF SeedsVerified
    <3>3. \A u \in Url : captures[u] = 0
      BY <2>1 DEF SourceSound
    <3> QED
      BY <2>1, <3>1, <3>2, <3>3 DEF SourceSound, Capturing
  <2> QED
    BY <1>4, <2>3, <2>4 DEF SeedsVerified
<1>5. CASE Plan \/ Synthesize
  BY <1>5, <1>c, <1>d DEF Plan, Synthesize, At, RetryOrFail, evidence
<1>6. CASE EnterSearch \/ SendQuery \/ VerifyRecord
  BY <1>6, <1>c, <1>d DEF EnterSearch, SendQuery, VerifyRecord, At, evidence, history
<1>7. CASE NextHit
  <2>1. stage = "hits" /\ UNCHANGED <<records, seen, captures, iteration>>
    BY <1>7 DEF NextHit, evidence, history
  <2>2. CASE GoTo("synthesize")
    BY <2>1, <2>2, <1>d
  <2>3. CASE stage' = stage
    BY <2>1, <2>3 DEF SourceSound, Capturing
  <2>4. CASE hits # <<>> /\ Head(hits) \notin seen /\ ~(Cardinality(records) >= MaxSources) /\ hits' = hits /\ GoTo("fetch")
    <3>1. stage' = "fetch" /\ Cardinality(records) < MaxSources
      BY <1>a, <2>4 DEF GoTo
    <3> QED
      BY <2>1, <2>4, <3>1 DEF SourceSound, Capturing
  <2> QED
    BY <1>7, <2>2, <2>3, <2>4 DEF NextHit
<1>8. CASE Fetch
  <2>1. stage = "fetch" /\ UNCHANGED <<records, seen, captures, iteration>>
    BY <1>8 DEF Fetch, At, evidence
  <2>2. ASSUME NEW f \in Url, NEW c \in Content, page' = [url |-> Head(hits), final |-> f, content |-> c],
               GoTo("put"), hits' = hits
        PROVE  SourceSound'
    <3>1. stage' = "put" /\ hits # <<>> /\ Head(hits) \notin seen /\ Cardinality(records) < MaxSources
      BY <2>1, <2>2 DEF GoTo, SourceSound, Capturing
    <3>2. hits \in Seq(Url)
      BY DEF TypeOK, DataTyped
    <3>3. page' \in Record /\ page'.url = Head(hits')
      BY <2>2, <3>1, <3>2, HeadTailProperties DEF Record
    <3> QED
      BY <2>1, <2>2, <3>1, <3>3 DEF SourceSound, Capturing
  <2>3. CASE GoTo("hits")
    BY <2>1, <2>3, <1>d
  <2>4. CASE Fail
    BY <2>1, <2>4, <1>c
  <2> QED
    BY <1>8, <2>2, <2>3, <2>4 DEF Fetch
<1>9. CASE Put
  <2>1. /\ stage = "put" /\ iteration' = iteration /\ page \in Record
        /\ page.url \notin seen /\ Cardinality(records) < MaxSources
    BY <1>9 DEF Put, At, SourceSound, Capturing
  <2>2. CASE Fail /\ records' = records
    BY <2>1, <2>2, <1>c
  <2>3. CASE /\ records' = RecordsWith(page) /\ seen' = seen \cup UrlsOf(page)
             /\ captures' = [captures EXCEPT ![page.url] = @ + 1] /\ GoTo("hits")
    <3>1. stage' = "hits"
      BY <2>3 DEF GoTo
    <3>2. Cardinality(records') <= MaxSources
      <4>1. Cardinality(records') <= Cardinality(records) + 1 /\ IsFiniteSet(records')
        BY <1>a, <2>3, RecordsGrow
      <4>2. Cardinality(records') \in Nat
        BY <4>1, FS_CardinalityType
      <4> QED
        BY <1>a, <2>1, <4>1, <4>2
    <3>3. \A r \in records' : UrlsOf(r) \subseteq seen'
      BY <2>1, <2>3 DEF SourceSound, RecordsWith
    <3>4. \A u \in Url : captures'[u] # 0 => u \in seen'
      <4>1. \A u \in Url : u # page.url => captures'[u] = captures[u]
        BY <1>a, <2>3
      <4>2. page.url \in seen'
        BY <2>3 DEF UrlsOf
      <4> QED
        BY <2>1, <2>3, <4>1, <4>2 DEF SourceSound
    <3> QED
      BY <3>1, <3>2, <3>3, <3>4 DEF SourceSound, Capturing
  <2> QED
    BY <1>9, <2>2, <2>3 DEF Put
<1> QED
  BY <1>1, <1>2, <1>3, <1>4, <1>5, <1>6, <1>7, <1>8, <1>9 DEF Next, Run

LEMMA ReadStep ==
  ASSUME TypeOK, ReadSound, Next
  PROVE  ReadSound'
<1>a. ASSUME NEW s, GoTo(s) PROVE stage' = s /\ outcome' = outcome
  BY <1>a DEF GoTo, ending
<1>b. ASSUME Fail \/ stage' = "done" PROVE ReadSound'
  BY <1>b DEF Fail, ReadSound
<1>c. ASSUME UNCHANGED <<stage, outcome, records, unverified, read>> PROVE ReadSound'
  BY <1>c DEF ReadSound
<1>d. ASSUME NEW s \in Operation \cup {"hits"}, s # "verify", GoTo(s), stage # "done" PROVE ReadSound'
  BY <1>a, <1>d DEF ReadSound
<1>1. CASE Checkpoint \/ Lose
  BY <1>1, <1>c DEF Checkpoint, Lose, evidence, ending, history
<1>2. CASE CheckpointRaises \/ Deadline \/ DuplicateSeed \/ Return
  BY <1>2, <1>b DEF CheckpointRaises, Deadline, DuplicateSeed, Return
<1>3. CASE VerifySeed \/ SeedsVerified \/ Plan \/ EnterSearch \/ SendQuery
  BY <1>3, <1>b, <1>d DEF VerifySeed, SeedsVerified, Plan, EnterSearch, SendQuery, At, RetryOrFail, Operation
<1>4. CASE NextHit
  <2>1. stage = "hits" /\ (GoTo("synthesize") \/ GoTo("fetch") \/ UNCHANGED <<stage, outcome>>)
    BY <1>4 DEF NextHit, ending
  <2> QED
    BY <1>d, <2>1 DEF ReadSound, Operation
<1>5. CASE Fetch \/ Put
  BY <1>5, <1>b, <1>d DEF Fetch, Put, At, Operation
<1>6. CASE Synthesize
  <2>1. stage = "synthesize" /\ records' = records
    BY <1>6 DEF Synthesize, At, evidence
  <2>2. CASE GoTo("verify") /\ unverified' = records
    BY <1>a, <2>1, <2>2 DEF ReadSound
  <2> QED
    BY <1>6, <1>b, <1>d, <2>1, <2>2 DEF Synthesize, ToVerify, RetryOrFail, Operation
<1>7. CASE VerifyRecord
  <2>1. stage = "verify" /\ records' = records
    BY <1>7 DEF VerifyRecord, At, evidence
  <2>2. ASSUME NEW r \in unverified, read' = read \cup {r.content}, unverified' = unverified \ {r}, GoTo("verify")
        PROVE  ReadSound'
    BY <1>a, <2>1, <2>2 DEF ReadSound
  <2> QED
    BY <1>7, <1>b, <2>2 DEF VerifyRecord
<1> QED
  BY <1>1, <1>2, <1>3, <1>4, <1>5, <1>6, <1>7 DEF Next, Run

\* Only Return sets the outcome "result".
LEMMA ResultStep ==
  ASSUME TypeOK, CountSound, ReadSound, ResultIsBacked, Next
  PROVE  ResultIsBacked'
<1> SUFFICES ASSUME outcome' = "result"
             PROVE  /\ {r.content : r \in records'} \subseteq read'
                    /\ manifest'.queries = sent'
                    /\ calls' <= manifest'.calls
  BY DEF ResultIsBacked
<1>1. CASE Return
  <2>1. stage = "verify" /\ unverified = {} /\ UNCHANGED <<records, read, sent, calls>>
        /\ manifest' = [queries |-> used, calls |-> 2 * iteration]
    BY <1>1 DEF Return, Fail, evidence, history
  <2> QED
    BY <2>1 DEF CountSound, ReadSound
<1>2. ASSUME ~Return PROVE outcome = "result"
  <2>1. ASSUME NEW s, GoTo(s) PROVE outcome' = outcome
    BY <2>1 DEF GoTo, ending
  <2>2. ~Fail
    BY DEF Fail
  <2> QED
    BY <1>2, <2>1, <2>2 DEF Next, Run, Checkpoint, CheckpointRaises, Deadline, DuplicateSeed, VerifySeed,
       SeedsVerified, Plan, RetryOrFail, EnterSearch, SendQuery, NextHit, Fetch, Put, Synthesize, VerifyRecord,
       Lose, ending
<1>3. CASE ~Return
  <2>1. stage = "done" /\ outcome = "result"
    BY <1>2, <1>3 DEF ReadSound
  <2>2. Checkpoint \/ Lose
    BY <1>3, <2>1 DEF Next, Run, At, CheckpointRaises, Deadline, DuplicateSeed, VerifySeed,
       SeedsVerified, Plan, EnterSearch, SendQuery, NextHit, Fetch, Put, Synthesize, VerifyRecord
  <2>3. UNCHANGED <<records, read, sent, calls, manifest>>
    BY <2>2 DEF Checkpoint, Lose, evidence, history, ending
  <2> QED
    BY <2>1, <2>3 DEF ResultIsBacked
<1> QED
  BY <1>1, <1>3

-----------------------------------------------------------------------------
(* The run: the theorems.                                                  *)

LEMMA NextIInv == IInv /\ [Next]_vars => IInv'
<1> SUFFICES ASSUME IInv, [Next]_vars PROVE IInv'
  OBVIOUS
<1>1. CASE Next
  <2>1. StageTyped' /\ CountTyped' /\ DataTyped'
    BY <1>1, StageStep, CountersStep, DataStep DEF IInv, TypeOK
  <2> QED
    BY <1>1, <2>1, GateStep, CountStep, SourceStep, ReadStep, ResultStep DEF IInv, TypeOK
<1>2. CASE UNCHANGED vars
  BY <1>2 DEF vars, request, search, evidence, storage, ending, history, IInv, TypeOK, StageTyped, CountTyped,
              DataTyped, GateSound, CountSound, SourceSound, Capturing, ReadSound, ResultIsBacked
<1> QED
  BY <1>1, <1>2

\* Every reachable state has types, and satisfies the strengthening above.
THEOREM Invariance == Spec => []IInv
  BY InitIInv, NextIInv, PTL DEF Spec

\* A result is backed: evidence read back since the draft, a manifest that
\* counts what was sent.
THEOREM BackedCorrect == Spec => []ResultIsBacked
<1>1. IInv => ResultIsBacked
  BY DEF IInv
<1> QED
  BY Invariance, <1>1, PTL

\* At most one operation follows a checkpoint: what A2AService assumes of
\* research_cluster.
THEOREM CheckpointCorrect == Spec => []OneOperationPerCheckpoint
<1>1. IInv => OneOperationPerCheckpoint
  BY DEF IInv, GateSound, OneOperationPerCheckpoint
<1> QED
  BY Invariance, <1>1, PTL

\* The source budget holds from the first iteration on, and no URL is captured
\* twice, nor one that evidence is known for.
THEOREM SourcesCorrect == Spec => SourcesCounted
<1> DEFINE A == /\ iteration' > 0 => Cardinality(records') <= MaxSources
                /\ \A u \in Url : captures'[u] # captures[u] =>
                     captures[u] = 0 /\ \A r \in records : u \notin {r.url, r.final}
<1>1. IInv /\ IInv' /\ [Next]_vars => [A]_vars
  <2> SUFFICES ASSUME IInv, IInv', Next PROVE A
    OBVIOUS
  <2>1. iteration' > 0 => Cardinality(records') <= MaxSources
    BY DEF IInv, SourceSound
  <2>2. ASSUME NEW u \in Url, captures'[u] # captures[u]
        PROVE  captures[u] = 0 /\ \A r \in records : u \notin {r.url, r.final}
    <3>1. Put /\ captures' = [captures EXCEPT ![page.url] = @ + 1]
      BY <2>2 DEF Next, Run, Checkpoint, CheckpointRaises, Deadline, DuplicateSeed, VerifySeed,
         SeedsVerified, Plan, EnterSearch, SendQuery, NextHit, Fetch, Put, Synthesize, VerifyRecord, Return,
         Lose, history
    <3>2. u = page.url
      BY <2>2, <3>1 DEF IInv, TypeOK, DataTyped
    <3>3. stage = "put" /\ u \notin seen
      BY <3>1, <3>2 DEF Put, At, IInv, SourceSound, Capturing
    <3> QED
      BY <3>3 DEF IInv, SourceSound, UrlsOf
  <2> QED
    BY <2>1, <2>2
<1> QED
  BY Invariance, <1>1, PTL DEF Spec, SourcesCounted
=============================================================================
