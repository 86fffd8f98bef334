--------------------------- MODULE ConversationProofs ---------------------------
(***************************************************************************)
(* Proofs about Conversation, for any routes, windows, replies and any     *)
(* length of a session.                                                    *)
(***************************************************************************)
EXTENDS Conversation, SequenceProofs

-----------------------------------------------------------------------------
(* Blocks and the contents of messages. *)

UsesIn(c)    == {b \in Range(c) : b.k = "use"}
ResultsOf(c) == {b \in Range(c) : b.k = "result"}

OkBlock(b) ==
    /\ b.k \in {"text", "image", "result", "use", "think", "redacted", "search", "reference"}
    /\ b.k = "text" => b = [k |-> "text", t |-> b.t, big |-> b.big]
    /\ b.k = "result" => b = [k |-> "result", id |-> b.id, big |-> b.big]
    /\ b.k = "use" => b.good \in BOOLEAN
    /\ b.k = "think" => b.signed \in BOOLEAN

Content(c) == c \in Seq(Range(c)) /\ \A b \in Range(c) : OkBlock(b)

LEMMA ContentFacts ==
    ASSUME NEW c, Content(c)
    PROVE  /\ c \in Seq(Range(c))
           /\ Len(c) \in Nat
           /\ DOMAIN c = 1..Len(c)
           /\ Range(c) = {c[i] : i \in 1..Len(c)}
           /\ \A i \in 1..Len(c) : c[i] \in Range(c) /\ OkBlock(c[i])
           /\ c = [i \in 1..Len(c) |-> c[i]]
           /\ c = << >> <=> Len(c) = 0
<1>1. c \in Seq(Range(c)) /\ \A b \in Range(c) : OkBlock(b)
  BY DEF Content
<1>2. /\ Len(c) \in Nat
      /\ DOMAIN c = 1..Len(c)
      /\ \A i \in 1..Len(c) : c[i] \in Range(c)
      /\ Range(c) = {c[i] : i \in 1..Len(c)}
      /\ c = [i \in 1..Len(c) |-> c[i]]
  <2> DEFINE T == Range(c)
  <2>1. c \in Seq(T)
    BY <1>1
  <2> HIDE DEF T
  <2>2. Range(c) = {c[i] : i \in 1..Len(c)} /\ \A i \in 1..Len(c) : c[i] \in T
    BY <2>1, SeqFacts
  <2>3. Len(c) \in Nat /\ DOMAIN c = 1..Len(c) /\ c = [i \in 1..Len(c) |-> c[i]]
    BY <2>1, SeqFacts
  <2> QED
    BY <2>2, <2>3 DEF T
<1>3. c = << >> <=> Len(c) = 0
  BY <1>1, EmptySeq
<1> QED
  BY <1>1, <1>2, <1>3

\* A content is given by its blocks.
LEMMA MadeContent ==
    ASSUME NEW n \in Nat, NEW f, f = [i \in 1..n |-> f[i]], \A i \in 1..n : OkBlock(f[i])
    PROVE  Content(f) /\ Len(f) = n /\ DOMAIN f = 1..n /\ Range(f) = {f[i] : i \in 1..n}
<1>1. f \in Seq(Range(f)) /\ Len(f) = n /\ DOMAIN f = 1..n
  BY FunctionIsSeq
<1>2. Range(f) = {f[i] : i \in 1..n}
  BY <1>1 DEF Range
<1> QED
  BY <1>1, <1>2 DEF Content

LEMMA OneBlock ==
    ASSUME NEW b, OkBlock(b)
    PROVE  Content(<<b>>) /\ Range(<<b>>) = {b} /\ <<b>> # << >> /\ Len(<<b>>) = 1
<1> DEFINE q == <<b>>
<1>1. q \in Seq({b}) /\ Len(q) = 1 /\ q[1] = b
  OBVIOUS
<1> HIDE DEF q
<1>2. Range(q) = {q[i] : i \in 1..Len(q)}
  BY <1>1, SeqFacts
<1>3. Range(q) = {b}
  BY <1>1, <1>2
<1> USE DEF q
<1> QED
  BY <1>1, <1>3 DEF Content

LEMMA NoBlock == Content(<< >>) /\ Range(<< >>) = {}
<1>1. << >> \in Seq({}) /\ Range(<< >>) = {}
  BY EmptySeq DEF Range
<1> QED
  BY <1>1 DEF Content

LEMMA PickedContent ==
    ASSUME NEW c, Content(c), NEW is
    PROVE  /\ Content(Picked(c, is))
           /\ Range(Picked(c, is)) = {c[i] : i \in is \cap 1..Len(c)}
<1> DEFINE T == Range(c)
           q == Picked(c, is)
<1>1. c \in Seq(T) /\ \A b \in T : OkBlock(b)
  BY DEF Content
<1>2. q \in Seq(T) /\ Range(q) = {c[i] : i \in is \cap 1..Len(c)}
  <2> HIDE DEF T
  <2> QED
    BY <1>1, PickedFacts
<1>3. q \in Seq(Range(q)) /\ Range(q) \subseteq T
  <2> HIDE DEF T, q
  <2> QED
    BY <1>2, SeqFacts
<1> QED
  BY <1>1, <1>2, <1>3 DEF Content

\* The blocks that pass a test, taken by their positions.
LEMMA PickedWhere ==
    ASSUME NEW c, Content(c), NEW B
    PROVE  /\ Content(Picked(c, {i \in DOMAIN c : c[i] \in B}))
           /\ Range(Picked(c, {i \in DOMAIN c : c[i] \in B})) = Range(c) \cap B
<1>1. DOMAIN c = 1..Len(c) /\ Range(c) = {c[i] : i \in 1..Len(c)}
  BY ContentFacts
<1>2. {c[i] : i \in {j \in DOMAIN c : c[j] \in B} \cap 1..Len(c)} = Range(c) \cap B
  BY <1>1
<1> QED
  BY <1>2, PickedContent

LEMMA TextIsOk == \A t : OkBlock(BlockText(t)) /\ BlockText(t).k = "text"
BY DEF OkBlock, BlockText

-----------------------------------------------------------------------------
(* The scrub of one message. *)

\* The blocks of Claude's alone go, or become text.
LEMMA SanitizedBlock ==
    ASSUME NEW b, OkBlock(b), NEW p, ~Dropped(b, p)
    PROVE  /\ OkBlock(ScrubbedBlock(b, p))
           /\ ScrubbedBlock(b, p) = b \/ ScrubbedBlock(b, p).k = "text"
           /\ b.k \in {"use", "result", "text"} => ScrubbedBlock(b, p) = b
           /\ ScrubbedBlock(b, p) = b \/ b.k \notin {"use", "result", "text"}
           /\ p = "anthropic" /\ ScrubbedBlock(b, p).k = "think" => ScrubbedBlock(b, p).signed
           /\ p # "anthropic" => ScrubbedBlock(b, p).k \in {"text", "use", "result", "image"}
           /\ p = "deepseek" => ScrubbedBlock(b, p).k # "image"
<1> USE DEF SearchKinds
<1>1. CASE b.k = "think" /\ p # "anthropic"
  BY <1>1, TextIsOk DEF ScrubbedBlock
<1>2. CASE b.k = "image" /\ p = "deepseek"
  BY <1>2, TextIsOk DEF ScrubbedBlock
<1>3. CASE b.k \in SearchKinds /\ p # "anthropic"
  BY <1>3, TextIsOk DEF ScrubbedBlock
<1>4. CASE /\ ~(b.k = "think" /\ p # "anthropic")
           /\ ~(b.k = "image" /\ p = "deepseek")
           /\ ~(b.k \in SearchKinds /\ p # "anthropic")
  <2>1. ScrubbedBlock(b, p) = b
    BY <1>4 DEF ScrubbedBlock
  <2> QED
    BY <1>4, <2>1 DEF OkBlock, Dropped
<1> QED
  BY <1>1, <1>2, <1>3, <1>4

\* What a provider takes.
Takes(p, b) ==
    /\ p = "anthropic" /\ b.k = "think" => b.signed
    /\ p # "anthropic" => b.k \in {"text", "use", "result", "image"}
    /\ p = "deepseek" => b.k # "image"

LEMMA SanitizedContent ==
    ASSUME NEW c, Content(c), NEW p
    PROVE  /\ Content(SanitizeContentBlocks(c, p))
           /\ UsesIn(SanitizeContentBlocks(c, p)) = UsesIn(c)
           /\ ResultsOf(SanitizeContentBlocks(c, p)) = ResultsOf(c)
           /\ \A b \in Range(SanitizeContentBlocks(c, p)) :
                 Takes(p, b) /\ (b \in Range(c) \/ b.k = "text")
<1> DEFINE B == {b \in Range(c) : ~Dropped(b, p)}
           kept == Picked(c, {i \in DOMAIN c : ~Dropped(c[i], p)})
           new == [i \in DOMAIN kept |-> ScrubbedBlock(kept[i], p)]
<1>1. DOMAIN c = 1..Len(c) /\ \A i \in 1..Len(c) : c[i] \in Range(c) /\ OkBlock(c[i])
  BY ContentFacts
<1>2. {i \in DOMAIN c : ~Dropped(c[i], p)} = {i \in DOMAIN c : c[i] \in B}
  BY <1>1
<1>3. Content(kept) /\ Range(kept) = B
  <2>1. B \subseteq Range(c)
    OBVIOUS
  <2> HIDE DEF B
  <2>2. Content(Picked(c, {i \in DOMAIN c : c[i] \in B}))
    BY PickedWhere
  <2>3. Range(Picked(c, {i \in DOMAIN c : c[i] \in B})) = Range(c) \cap B
    BY PickedWhere
  <2> QED
    BY <1>2, <2>1, <2>2, <2>3
<1> HIDE DEF kept
<1>4. /\ Len(kept) \in Nat /\ DOMAIN kept = 1..Len(kept)
      /\ \A i \in 1..Len(kept) : kept[i] \in B /\ OkBlock(kept[i])
      /\ B = {kept[i] : i \in 1..Len(kept)}
      /\ kept = << >> <=> Len(kept) = 0
  BY <1>3, ContentFacts
<1>5. \A b \in B : OkBlock(b) /\ ~Dropped(b, p) /\ b \in Range(c)
  BY DEF Content
<1>6. /\ Content(new)
      /\ Range(new) = {ScrubbedBlock(b, p) : b \in B}
  <2>1. \A i \in 1..Len(kept) : OkBlock(new[i]) /\ new[i] = ScrubbedBlock(kept[i], p)
    BY <1>4, <1>5, SanitizedBlock
  <2>2. new = [i \in 1..Len(kept) |-> new[i]]
    BY <1>4
  <2> HIDE DEF new
  <2>3. Content(new) /\ Range(new) = {new[i] : i \in 1..Len(kept)}
    BY <1>4, <2>1, <2>2, MadeContent
  <2> QED
    BY <1>4, <2>1, <2>3
<1> HIDE DEF new
<1>7. \A b \in Range(c) : b.k \in {"use", "result"} => b \in B
  BY DEF Dropped
<1>8. /\ UsesIn(new) = UsesIn(c)
      /\ ResultsOf(new) = ResultsOf(c)
      /\ \A b \in Range(new) : Takes(p, b) /\ (b \in Range(c) \/ b.k = "text")
  <2>1. \A b \in B : /\ ScrubbedBlock(b, p) = b \/ ScrubbedBlock(b, p).k = "text"
                     /\ b.k \in {"use", "result"} => ScrubbedBlock(b, p) = b
                     /\ Takes(p, ScrubbedBlock(b, p))
    BY <1>5, SanitizedBlock DEF Takes
  <2> HIDE DEF B
  <2>2. \A b \in Range(new) : Takes(p, b) /\ (b \in Range(c) \/ b.k = "text")
    BY <1>5, <1>6, <2>1
  <2>3. \A b \in Range(new) : b.k \in {"use", "result"} => b \in Range(c)
    BY <2>2
  <2>4. \A b \in Range(c) : b.k \in {"use", "result"} => b \in Range(new)
    BY <1>6, <1>7, <2>1
  <2> QED
    BY <2>2, <2>3, <2>4 DEF UsesIn, ResultsOf
<1>9. CASE c # << >> /\ kept = << >>
  <2> DEFINE d == BlockText("placeholder")
  <2>1. SanitizeContentBlocks(c, p) = <<d>>
    BY <1>9 DEF SanitizeContentBlocks, kept
  <2>2. OkBlock(d) /\ d.k = "text"
    BY TextIsOk
  <2>3. Content(<<d>>) /\ Range(<<d>>) = {d}
    BY <2>2, OneBlock
  <2>4. B = {}
    BY <1>4, <1>9
  <2>5. UsesIn(c) = {} /\ ResultsOf(c) = {}
    <3> HIDE DEF B
    <3> QED
      BY <1>7, <2>4 DEF UsesIn, ResultsOf
  <2> QED
    BY <2>1, <2>2, <2>3, <2>5 DEF UsesIn, ResultsOf, Takes
<1>10. CASE ~(c # << >> /\ kept = << >>)
  <2>1. SanitizeContentBlocks(c, p) = new
    BY <1>10 DEF SanitizeContentBlocks, kept, new
  <2> QED
    BY <1>6, <1>8, <2>1
<1> QED
  BY <1>9, <1>10

Bad(b) == b.k = "use" /\ ~b.good

LEMMA NotedContent ==
    ASSUME NEW c, Content(c)
    PROVE  /\ Content(Noted(c)) /\ Len(Noted(c)) = Len(c)
           /\ UsesIn(Noted(c)) = {b \in UsesIn(c) : b.good}
           /\ ResultsOf(Noted(c)) = ResultsOf(c)
           /\ \A b \in Range(Noted(c)) : b \in Range(c) \/ b = BlockText("note")
           /\ (\A b \in Range(c) : ~Bad(b)) => Noted(c) = c
<1> DEFINE new == [i \in DOMAIN c |-> IF Bad(c[i]) THEN BlockText("note") ELSE c[i]]
<1>1. /\ Len(c) \in Nat /\ DOMAIN c = 1..Len(c) /\ Range(c) = {c[i] : i \in 1..Len(c)}
      /\ \A i \in 1..Len(c) : c[i] \in Range(c) /\ OkBlock(c[i])
      /\ c = [i \in 1..Len(c) |-> c[i]]
  BY ContentFacts
<1>2. Noted(c) = new
  BY DEF Noted, Bad
<1>3. Content(new) /\ Len(new) = Len(c) /\ Range(new) = {new[i] : i \in 1..Len(c)}
  <2>1. \A i \in 1..Len(c) : OkBlock(new[i])
    BY <1>1, TextIsOk
  <2>2. new = [i \in 1..Len(c) |-> new[i]]
    BY <1>1
  <2> HIDE DEF new
  <2> QED
    BY <1>1, <2>1, <2>2, MadeContent
<1>4. \A i \in 1..Len(c) : new[i] = IF Bad(c[i]) THEN BlockText("note") ELSE c[i]
  BY <1>1
<1>5. (\A b \in Range(c) : ~Bad(b)) => new = c
  BY <1>1
<1> HIDE DEF new
<1>6. \A b \in Range(new) : (b \in Range(c) /\ ~Bad(b)) \/ b = BlockText("note")
  BY <1>1, <1>3, <1>4
<1>7. \A b \in Range(c) : ~Bad(b) => b \in Range(new)
  BY <1>1, <1>3, <1>4
<1>8. BlockText("note").k = "text"
  BY TextIsOk
<1>9. UsesIn(new) = {b \in UsesIn(c) : b.good} /\ ResultsOf(new) = ResultsOf(c)
  BY <1>6, <1>7, <1>8 DEF UsesIn, ResultsOf, Bad
<1> QED
  BY <1>2, <1>3, <1>5, <1>6, <1>9

LEMMA UnansweredContent ==
    ASSUME NEW c, Content(c), NEW ids
    PROVE  /\ Content(Unanswered(c, ids))
           /\ Range(Unanswered(c, ids)) = {b \in Range(c) : b.k # "result" \/ b.id \notin ids}
           /\ (\A b \in ResultsOf(c) : b.id \notin ids) => Unanswered(c, ids) = c
<1> DEFINE B == {b \in Range(c) : b.k # "result" \/ b.id \notin ids}
           is == {i \in DOMAIN c : c[i].k # "result" \/ c[i].id \notin ids}
<1>1. /\ Len(c) \in Nat /\ DOMAIN c = 1..Len(c)
      /\ \A i \in 1..Len(c) : c[i] \in Range(c)
      /\ c \in Seq(Range(c))
  BY ContentFacts
<1>2. is = {i \in DOMAIN c : c[i] \in B} /\ B \subseteq Range(c)
  BY <1>1
<1>3. Unanswered(c, ids) = Picked(c, is)
  BY DEF Unanswered
<1>4. (\A b \in ResultsOf(c) : b.id \notin ids) => Picked(c, is) = c
  <2> SUFFICES ASSUME \A b \in ResultsOf(c) : b.id \notin ids
               PROVE  Picked(c, is) = c
    OBVIOUS
  <2>1. 1..Len(c) \subseteq is
    BY <1>1 DEF ResultsOf
  <2> HIDE DEF is
  <2> QED
    BY <1>1, <2>1, PickedAll
<1> HIDE DEF B, is
<1>5. Content(Picked(c, {i \in DOMAIN c : c[i] \in B}))
  BY PickedWhere
<1>6. Range(Picked(c, {i \in DOMAIN c : c[i] \in B})) = Range(c) \cap B
  BY PickedWhere
<1>7. Content(Picked(c, is)) /\ Range(Picked(c, is)) = B
  BY <1>2, <1>5, <1>6
<1> QED
  BY <1>3, <1>4, <1>7 DEF B

LEMMA FilledContent ==
    ASSUME NEW c, Content(c)
    PROVE  /\ Content(Filled(c)) /\ Filled(c) # << >>
           /\ \A b \in Range(Filled(c)) : b \in Range(c) \/ b = BlockText("dropped")
           /\ UsesIn(Filled(c)) = UsesIn(c) /\ ResultsOf(Filled(c)) = ResultsOf(c)
           /\ c # << >> => Filled(c) = c
<1>1. CASE c = << >>
  <2> DEFINE d == BlockText("dropped")
  <2>1. Filled(c) = <<d>>
    BY <1>1 DEF Filled
  <2>2. OkBlock(d) /\ d.k = "text"
    BY TextIsOk
  <2> HIDE DEF d
  <2>3. Content(<<d>>) /\ Range(<<d>>) = {d} /\ <<d>> # << >>
    BY <2>2, OneBlock
  <2>4. UsesIn(<<d>>) = {} /\ ResultsOf(<<d>>) = {}
    BY <2>2, <2>3 DEF UsesIn, ResultsOf
  <2>5. UsesIn(c) = {} /\ ResultsOf(c) = {}
    BY <1>1, NoBlock DEF UsesIn, ResultsOf
  <2> QED
    BY <1>1, <2>1, <2>3, <2>4, <2>5 DEF d
<1>2. CASE c # << >>
  BY <1>2 DEF Filled
<1> QED
  BY <1>1, <1>2

ScrubbedContent(c, p, ids) == Filled(Unanswered(Noted(SanitizeContentBlocks(c, p)), ids))

LEMMA ScrubbedContentFacts ==
    ASSUME NEW c, Content(c), NEW p, NEW ids
    PROVE  /\ Content(ScrubbedContent(c, p, ids)) /\ ScrubbedContent(c, p, ids) # << >>
           /\ UsesIn(ScrubbedContent(c, p, ids)) = {b \in UsesIn(c) : b.good}
           /\ ResultsOf(ScrubbedContent(c, p, ids)) = {b \in ResultsOf(c) : b.id \notin ids}
           /\ \A b \in Range(ScrubbedContent(c, p, ids)) :
                 Takes(p, b) /\ (b \in Range(c) \/ b.k = "text")
<1> DEFINE s == SanitizeContentBlocks(c, p)
           n == Noted(s)
           u == Unanswered(n, ids)
           f == Filled(u)
<1>1. /\ Content(s) /\ UsesIn(s) = UsesIn(c) /\ ResultsOf(s) = ResultsOf(c)
      /\ \A b \in Range(s) : Takes(p, b) /\ (b \in Range(c) \/ b.k = "text")
  BY SanitizedContent
<1> HIDE DEF s
<1>2. /\ Content(n) /\ UsesIn(n) = {b \in UsesIn(s) : b.good} /\ ResultsOf(n) = ResultsOf(s)
      /\ \A b \in Range(n) : b \in Range(s) \/ b = BlockText("note")
  BY <1>1, NotedContent
<1> HIDE DEF n
<1>3. /\ Content(u)
      /\ Range(u) = {b \in Range(n) : b.k # "result" \/ b.id \notin ids}
  BY <1>2, UnansweredContent
<1> HIDE DEF u
<1>4. /\ Content(f) /\ f # << >> /\ UsesIn(f) = UsesIn(u) /\ ResultsOf(f) = ResultsOf(u)
      /\ \A b \in Range(f) : b \in Range(u) \/ b = BlockText("dropped")
  BY <1>3, FilledContent
<1> HIDE DEF f
<1>5. \A t : Takes(p, BlockText(t)) /\ BlockText(t).k = "text"
  BY TextIsOk DEF Takes
<1>6. ScrubbedContent(c, p, ids) = f
  BY DEF ScrubbedContent, s, n, u, f
<1>7. UsesIn(u) = UsesIn(n) /\ ResultsOf(u) = {b \in ResultsOf(n) : b.id \notin ids}
  BY <1>3 DEF UsesIn, ResultsOf
<1>8. \A b \in Range(f) : Takes(p, b) /\ (b \in Range(c) \/ b.k = "text")
  BY <1>1, <1>2, <1>3, <1>4, <1>5
<1> QED
  BY <1>1, <1>2, <1>4, <1>6, <1>7, <1>8

\* What a provider takes, with calls that are whole, is left as it is.
LEMMA CleanStays ==
    ASSUME NEW c, Content(c), c # << >>, NEW p, NEW ids,
           \A b \in Range(c) : Takes(p, b) /\ ~Bad(b),
           \A b \in ResultsOf(c) : b.id \notin ids
    PROVE  ScrubbedContent(c, p, ids) = c
<1>1. /\ Len(c) \in Nat /\ DOMAIN c = 1..Len(c)
      /\ \A i \in 1..Len(c) : c[i] \in Range(c) /\ OkBlock(c[i])
      /\ c = [i \in 1..Len(c) |-> c[i]]
      /\ c \in Seq(Range(c))
  BY ContentFacts
<1>2. \A i \in 1..Len(c) : ~Dropped(c[i], p) /\ ScrubbedBlock(c[i], p) = c[i]
  BY <1>1 DEF Takes, Dropped, ScrubbedBlock, SearchKinds
<1>3. SanitizeContentBlocks(c, p) = c
  <2> DEFINE is == {i \in DOMAIN c : ~Dropped(c[i], p)}
  <2>1. 1..Len(c) \subseteq is
    BY <1>1, <1>2
  <2>2. Picked(c, is) = c
    <3> HIDE DEF is
    <3> QED
      BY <1>1, <2>1, PickedAll
  <2>3. [i \in DOMAIN c |-> ScrubbedBlock(c[i], p)] = c
    BY <1>1, <1>2
  <2> QED
    BY <2>2, <2>3 DEF SanitizeContentBlocks
<1>4. Noted(c) = c
  BY NotedContent
<1>5. Unanswered(c, ids) = c
  BY UnansweredContent
<1>6. Filled(c) = c
  BY DEF Filled
<1> QED
  BY <1>3, <1>4, <1>5, <1>6 DEF ScrubbedContent

-----------------------------------------------------------------------------
(* Conversations that are well formed. *)

Asking    == {"text", "image", "result"}
RoleAt(i) == IF i % 2 = 1 THEN "user" ELSE "assistant"

\* The user asks and answers calls, the assistant makes them.
MessageAt(m, i) ==
    /\ m = Message(RoleAt(i), m.c)
    /\ Content(m.c)
    /\ i % 2 = 1 => \A b \in Range(m.c) : b.k \in Asking
    /\ i % 2 = 0 => \A b \in Range(m.c) : b.k \notin Asking \ {"text"}

\* Each call has its result in the next message, and each result its call.
Answered(ms) ==
    \A i \in 1..Len(ms) : ResultIds(ms[i]) = IF i = 1 THEN {} ELSE UseIds(ms[i-1])

\* No two calls have one identifier.
Distinct(ms) ==
    \A i, j \in 1..Len(ms) : \A a \in UsesIn(ms[i].c), b \in UsesIn(ms[j].c) :
        a.id = b.id => i = j /\ a = b

Formed(ms) ==
    /\ ms \in Seq(Range(ms))
    /\ \A i \in 1..Len(ms) : MessageAt(ms[i], i)
    /\ Answered(ms)
    /\ Distinct(ms)

LEMMA MessageFacts ==
    \A r, c, d : /\ Message(r, c).role = r /\ Message(r, c).c = c
                 /\ [Message(r, c) EXCEPT !.c = d] = Message(r, d)
BY DEF Message

LEMMA FormedFacts ==
    ASSUME NEW ms, Formed(ms)
    PROVE  /\ ms \in Seq(Range(ms))
           /\ Len(ms) \in Nat /\ DOMAIN ms = 1..Len(ms)
           /\ Range(ms) = {ms[i] : i \in 1..Len(ms)}
           /\ ms = [i \in 1..Len(ms) |-> ms[i]]
           /\ \A i \in 1..Len(ms) : MessageAt(ms[i], i) /\ Content(ms[i].c)
           /\ ms = << >> <=> Len(ms) = 0
<1> DEFINE T == Range(ms)
<1>1. ms \in Seq(T)
  BY DEF Formed
<1>2. \A i \in 1..Len(ms) : MessageAt(ms[i], i) /\ Content(ms[i].c)
  BY DEF Formed, MessageAt
<1>3. /\ Len(ms) \in Nat /\ DOMAIN ms = 1..Len(ms)
      /\ ms = [i \in 1..Len(ms) |-> ms[i]]
      /\ Range(ms) = {ms[i] : i \in 1..Len(ms)}
      /\ ms = << >> <=> Len(ms) = 0
  <2> HIDE DEF T
  <2> QED
    BY <1>1, SeqFacts, EmptySeq
<1> QED
  BY <1>1, <1>2, <1>3

\* A conversation is given by its messages.
LEMMA MadeFormed ==
    ASSUME NEW n \in Nat, NEW f, f = [i \in 1..n |-> f[i]],
           \A i \in 1..n : MessageAt(f[i], i),
           \A i \in 1..n : ResultIds(f[i]) = IF i = 1 THEN {} ELSE UseIds(f[i-1]),
           \A i, j \in 1..n : \A a \in UsesIn(f[i].c), b \in UsesIn(f[j].c) :
               a.id = b.id => i = j /\ a = b
    PROVE  Formed(f) /\ Len(f) = n
<1>1. f \in Seq(Range(f)) /\ Len(f) = n
  BY FunctionIsSeq
<1>2. Answered(f) /\ Distinct(f)
  BY <1>1 DEF Answered, Distinct
<1> QED
  BY <1>1, <1>2 DEF Formed

LEMMA IdsOf ==
    ASSUME NEW m
    PROVE  /\ UseIds(m) = {b.id : b \in UsesIn(m.c)}
           /\ ResultIds(m) = {b.id : b \in ResultsOf(m.c)}
BY DEF UseIds, ResultIds, UsesIn, ResultsOf

LEMMA MalformedIdsOf ==
    ASSUME NEW n \in Nat, NEW f, f = [i \in 1..n |-> f[i]]
    PROVE  \A id : id \in MalformedIds(f) <=>
                      \E i \in 1..n : \E b \in UsesIn(f[i].c) : ~b.good /\ b.id = id
<1>1. DOMAIN f = 1..n
  OBVIOUS
<1>2. Range(f) = {f[i] : i \in 1..n}
  BY <1>1 DEF Range
<1>3. UNION {Range(m.c) : m \in Range(f)} = UNION {Range(f[i].c) : i \in 1..n}
  BY <1>2
<1> DEFINE U == {b \in UNION {Range(f[i].c) : i \in 1..n} : b.k = "use" /\ ~b.good}
<1>4. MalformedIds(f) = {b.id : b \in U}
  BY <1>3 DEF MalformedIds
<1>5. \A b : b \in U <=> \E i \in 1..n : b \in UsesIn(f[i].c) /\ ~b.good
  BY DEF UsesIn
<1> HIDE DEF U
<1> QED
  BY <1>4, <1>5

\* The scrub of a conversation is that of its messages.
ScrubbedMessage(m, p, ids) == Message(m.role, ScrubbedContent(m.c, p, ids))

LEMMA ScrubbedIs ==
    ASSUME NEW ms, Formed(ms), NEW p
    PROVE  Scrubbed(ms, p) =
              [i \in 1..Len(ms) |-> ScrubbedMessage(ms[i], p, MalformedIds(ms))]
<1> DEFINE n == Len(ms)
           s == SanitizeMessages(ms, p)
           ids == MalformedIds(ms)
<1>1. /\ n \in Nat /\ DOMAIN ms = 1..n /\ ms = [i \in 1..n |-> ms[i]]
      /\ \A i \in 1..n : Content(ms[i].c) /\ ms[i] = Message(RoleAt(i), ms[i].c)
  BY FormedFacts DEF MessageAt
<1>2. s = [i \in 1..n |-> [ms[i] EXCEPT !.c = SanitizeContentBlocks(@, p)]]
  BY <1>1 DEF SanitizeMessages
<1>3. \A i \in 1..n : /\ s[i] = Message(ms[i].role, SanitizeContentBlocks(ms[i].c, p))
                      /\ s[i].c = SanitizeContentBlocks(ms[i].c, p) /\ s[i].role = ms[i].role
  BY <1>1, <1>2 DEF Message
<1>4. s = [i \in 1..n |-> s[i]] /\ DOMAIN s = 1..n
  BY <1>2
<1> HIDE DEF s
<1>5. \A i \in 1..n : UsesIn(s[i].c) = UsesIn(ms[i].c)
  BY <1>1, <1>3, SanitizedContent
<1>6. MalformedIds(s) = ids
  <2>1. \A id : id \in MalformedIds(s) <=>
                   \E i \in 1..n : \E b \in UsesIn(s[i].c) : ~b.good /\ b.id = id
    BY <1>1, <1>4, MalformedIdsOf
  <2>2. \A id : id \in MalformedIds(ms) <=>
                   \E i \in 1..n : \E b \in UsesIn(ms[i].c) : ~b.good /\ b.id = id
    BY <1>1, MalformedIdsOf
  <2>3. \A id : id \in MalformedIds(s) <=> id \in MalformedIds(ms)
    BY <1>5, <2>1, <2>2
  <2> QED
    BY <2>3
<1>7. Scrubbed(ms, p) = [i \in 1..n |-> [s[i] EXCEPT !.c = Filled(Unanswered(Noted(@), ids))]]
  BY <1>4, <1>6 DEF Scrubbed, SanitizeHistoryToolCalls, s
<1>8. \A i \in 1..n : [s[i] EXCEPT !.c = Filled(Unanswered(Noted(@), ids))]
                         = ScrubbedMessage(ms[i], p, ids)
  <2> TAKE i \in 1..n
  <2> DEFINE x == SanitizeContentBlocks(ms[i].c, p)
             y == Filled(Unanswered(Noted(x), ids))
  <2>1. s[i] = Message(ms[i].role, x) /\ s[i].c = x
    BY <1>3
  <2>2. ScrubbedMessage(ms[i], p, ids) = Message(ms[i].role, y)
    BY DEF ScrubbedMessage, ScrubbedContent
  <2> HIDE DEF x
  <2>3. [s[i] EXCEPT !.c = Filled(Unanswered(Noted(@), ids))] = [s[i] EXCEPT !.c = y]
    BY <2>1
  <2> HIDE DEF y
  <2> QED
    BY <2>1, <2>2, <2>3, MessageFacts
<1> QED
  BY <1>7, <1>8

\* Nothing a provider would refuse, no malformed call, and no empty message.
Taken(ms, p)  == \A i \in 1..Len(ms) : \A b \in Range(ms[i].c) : Takes(p, b) /\ ~Bad(b)
NoneEmpty(ms) == \A i \in 1..Len(ms) : ms[i].c # << >>

LEMMA ScrubbedFormed ==
    ASSUME NEW ms, Formed(ms), NEW p
    PROVE  /\ Formed(Scrubbed(ms, p)) /\ Len(Scrubbed(ms, p)) = Len(ms)
           /\ Taken(Scrubbed(ms, p), p) /\ NoneEmpty(Scrubbed(ms, p))
<1> DEFINE n == Len(ms)
           ids == MalformedIds(ms)
           f == [i \in 1..n |-> ScrubbedMessage(ms[i], p, ids)]
<1>1. /\ n \in Nat /\ ms = [i \in 1..n |-> ms[i]]
      /\ \A i \in 1..n : Content(ms[i].c) /\ MessageAt(ms[i], i)
  BY FormedFacts
<1>2. \A i \in 1..n : f[i] = Message(ms[i].role, ScrubbedContent(ms[i].c, p, ids))
  BY DEF ScrubbedMessage
<1>3. f = [i \in 1..n |-> f[i]] /\ Scrubbed(ms, p) = f
  BY ScrubbedIs
<1>4. \A id : id \in ids <=> \E i \in 1..n : \E b \in UsesIn(ms[i].c) : ~b.good /\ b.id = id
  BY <1>1, MalformedIdsOf
<1> HIDE DEF f, ids
<1>5. \A i \in 1..n : f[i].c = ScrubbedContent(ms[i].c, p, ids) /\ f[i].role = ms[i].role
                      /\ f[i] = Message(f[i].role, f[i].c)
  BY <1>2, MessageFacts
<1>6. \A i \in 1..n :
         /\ Content(f[i].c) /\ f[i].c # << >>
         /\ UsesIn(f[i].c) = {b \in UsesIn(ms[i].c) : b.good}
         /\ ResultsOf(f[i].c) = {b \in ResultsOf(ms[i].c) : b.id \notin ids}
         /\ \A b \in Range(f[i].c) : Takes(p, b) /\ (b \in Range(ms[i].c) \/ b.k = "text")
  BY <1>1, <1>5, ScrubbedContentFacts
<1>7. \A i \in 1..n : MessageAt(f[i], i)
  <2> TAKE i \in 1..n
  <2>1. f[i] = Message(RoleAt(i), f[i].c)
    <3>1. ms[i] = Message(RoleAt(i), ms[i].c)
      BY <1>1 DEF MessageAt
    <3>2. ms[i].role = RoleAt(i)
      BY <3>1, MessageFacts
    <3> QED
      BY <1>5, <3>2
  <2>2. \A b \in Range(f[i].c) : b \in Range(ms[i].c) \/ b.k = "text"
    BY <1>6
  <2>3. MessageAt(ms[i], i)
    BY <1>1
  <2> QED
    BY <1>6, <2>1, <2>2, <2>3 DEF MessageAt, Asking
<1>8. \A i \in 1..n : ResultIds(f[i]) = IF i = 1 THEN {} ELSE UseIds(f[i-1])
  <2> TAKE i \in 1..n
  <2>1. ResultIds(ms[i]) = IF i = 1 THEN {} ELSE UseIds(ms[i-1])
    BY DEF Formed, Answered
  <2>2. ResultIds(f[i]) = ResultIds(ms[i]) \ ids
    BY <1>6, IdsOf
  <2>3. CASE i = 1
    BY <2>1, <2>2, <2>3
  <2>4. CASE i # 1
    <3>1. i - 1 \in 1..n
      BY <1>1, <2>4
    <3>2. \A b \in UsesIn(ms[i-1].c) : b.good <=> b.id \notin ids
      <4> TAKE b \in UsesIn(ms[i-1].c)
      <4>1. ~b.good => b.id \in ids
        BY <1>4, <3>1
      <4>2. ASSUME b.id \in ids
            PROVE  ~b.good
        <5>1. PICK j \in 1..n : \E d \in UsesIn(ms[j].c) : ~d.good /\ d.id = b.id
          BY <1>4, <4>2
        <5>2. PICK d \in UsesIn(ms[j].c) : ~d.good /\ d.id = b.id
          BY <5>1
        <5>3. d = b
          BY <3>1, <5>2 DEF Formed, Distinct
        <5> QED
          BY <5>2, <5>3
      <4> QED
        BY <4>1, <4>2
    <3>3. UseIds(f[i-1]) = UseIds(ms[i-1]) \ ids
      <4>1. UsesIn(f[i-1].c) = {b \in UsesIn(ms[i-1].c) : b.id \notin ids}
        BY <1>6, <3>1, <3>2
      <4> QED
        BY <4>1, IdsOf
    <3> QED
      BY <2>1, <2>2, <2>4, <3>3
  <2> QED
    BY <2>3, <2>4
<1>9. \A i, j \in 1..n : \A a \in UsesIn(f[i].c), b \in UsesIn(f[j].c) :
          a.id = b.id => i = j /\ a = b
  BY <1>6 DEF Formed, Distinct
<1>10. Formed(f) /\ Len(f) = n
  <2>1. n \in Nat /\ f = [i \in 1..n |-> f[i]]
    BY <1>1, <1>3
  <2> HIDE DEF n
  <2> QED
    BY <2>1, <1>7, <1>8, <1>9, MadeFormed
<1>11. Taken(f, p) /\ NoneEmpty(f)
  <2>1. \A i \in 1..n : \A b \in Range(f[i].c) : ~Bad(b)
    BY <1>6 DEF Bad, UsesIn
  <2> QED
    BY <1>6, <1>10, <2>1 DEF Taken, NoneEmpty
<1> QED
  BY <1>3, <1>10, <1>11

LEMMA NoneMalformed ==
    ASSUME NEW ms, Formed(ms), NEW p, Taken(ms, p)
    PROVE  MalformedIds(ms) = {}
<1>1. Len(ms) \in Nat /\ ms = [i \in 1..Len(ms) |-> ms[i]]
  BY FormedFacts
<1>2. \A id : id \in MalformedIds(ms) <=>
                 \E i \in 1..Len(ms) : \E b \in UsesIn(ms[i].c) : ~b.good /\ b.id = id
  BY <1>1, MalformedIdsOf
<1>3. \A i \in 1..Len(ms) : \A b \in UsesIn(ms[i].c) : b.good
  BY DEF Taken, Bad, UsesIn
<1> QED
  BY <1>2, <1>3

\* What was scrubbed for a provider needs no second scrub for it.
LEMMA ScrubbedOnce ==
    ASSUME NEW ms, Formed(ms), NEW p, Taken(ms, p), NoneEmpty(ms)
    PROVE  Scrubbed(ms, p) = ms
<1>1. /\ ms = [i \in 1..Len(ms) |-> ms[i]]
      /\ \A i \in 1..Len(ms) : Content(ms[i].c) /\ ms[i] = Message(RoleAt(i), ms[i].c)
  BY FormedFacts DEF MessageAt
<1>2. MalformedIds(ms) = {}
  BY NoneMalformed
<1>3. \A i \in 1..Len(ms) : ScrubbedContent(ms[i].c, p, {}) = ms[i].c
  BY <1>1, CleanStays DEF Taken, NoneEmpty
<1>4. \A i \in 1..Len(ms) : ScrubbedMessage(ms[i], p, {}) = ms[i]
  <2>1. \A i \in 1..Len(ms) : ms[i].role = RoleAt(i)
    BY <1>1, MessageFacts
  <2> QED
    BY <1>1, <1>3, <2>1 DEF ScrubbedMessage
<1>5. Scrubbed(ms, p) = [i \in 1..Len(ms) |-> ScrubbedMessage(ms[i], p, {})]
  BY <1>2, ScrubbedIs
<1> QED
  BY <1>1, <1>4, <1>5

-----------------------------------------------------------------------------
(* Compression within messages: images go and texts are cut. *)

\* d is what is left of c: calls are, and so are the identifiers of results.
Lighter(d, c) ==
    /\ Content(d)
    /\ UsesIn(d) = UsesIn(c)
    /\ {b.id : b \in ResultsOf(d)} = {b.id : b \in ResultsOf(c)}
    /\ \A b \in Range(d) : \E a \in Range(c) : b = a \/ b = CutBlock(a)

LEMMA CutRecord ==
    /\ \A k, t, big, cut : [[k |-> k, t |-> t, big |-> big] EXCEPT !.big = cut]
                            = [k |-> k, t |-> t, big |-> cut]
    /\ \A k, id, big, cut : [[k |-> k, id |-> id, big |-> big] EXCEPT !.big = cut]
                             = [k |-> k, id |-> id, big |-> cut]
OBVIOUS

LEMMA CutBlockFacts ==
    ASSUME NEW b, OkBlock(b)
    PROVE  /\ OkBlock(CutBlock(b)) /\ CutBlock(b).k = b.k
           /\ b.k \notin {"text", "result"} => CutBlock(b) = b
           /\ b.k = "result" => CutBlock(b) = [k |-> "result", id |-> b.id, big |-> FALSE]
           /\ b.k = "text" => CutBlock(b) = [k |-> "text", t |-> b.t, big |-> FALSE]
           /\ \A p : Takes(p, b) => Takes(p, CutBlock(b))
<1>1. CASE b.k = "text"
  <2>1. b = [k |-> "text", t |-> b.t, big |-> b.big]
    BY <1>1 DEF OkBlock
  <2>2. CutBlock(b) = [b EXCEPT !.big = FALSE]
    BY <1>1 DEF CutBlock
  <2> DEFINE k == "text"
             cut == FALSE
  <2>5. b = [k |-> k, t |-> b.t, big |-> b.big] /\ CutBlock(b) = [b EXCEPT !.big = cut]
    BY <2>1, <2>2
  <2> HIDE DEF k, cut
  <2>3. CutBlock(b) = [k |-> k, t |-> b.t, big |-> cut]
    BY <2>5, CutRecord
  <2> USE DEF k, cut
  <2> QED
    BY <1>1, <2>3 DEF OkBlock, Takes
<1>2. CASE b.k = "result"
  <2>1. b = [k |-> "result", id |-> b.id, big |-> b.big]
    BY <1>2 DEF OkBlock
  <2>2. CutBlock(b) = [b EXCEPT !.big = FALSE]
    BY <1>2 DEF CutBlock
  <2> DEFINE k == "result"
             cut == FALSE
  <2>5. b = [k |-> k, id |-> b.id, big |-> b.big] /\ CutBlock(b) = [b EXCEPT !.big = cut]
    BY <2>1, <2>2
  <2> HIDE DEF k, cut
  <2>3. CutBlock(b) = [k |-> k, id |-> b.id, big |-> cut]
    BY <2>5, CutRecord
  <2> USE DEF k, cut
  <2> QED
    BY <1>2, <2>3 DEF OkBlock, Takes
<1>3. CASE b.k \notin {"text", "result"}
  BY <1>3 DEF CutBlock
<1> QED
  BY <1>1, <1>2, <1>3

LEMMA SameIsLighter ==
    ASSUME NEW c, Content(c)
    PROVE  Lighter(c, c)
BY DEF Lighter

NoImages(c) == \A b \in Range(c) : b.k # "image"

LEMMA WithoutImagesContent ==
    ASSUME NEW c, Content(c)
    PROVE  /\ Lighter(Picked(c, {j \in DOMAIN c : c[j].k # "image"}), c)
           /\ Range(Picked(c, {j \in DOMAIN c : c[j].k # "image"})) = {b \in Range(c) : b.k # "image"}
           /\ NoImages(c) => Picked(c, {j \in DOMAIN c : c[j].k # "image"}) = c
<1> DEFINE B == {b \in Range(c) : b.k # "image"}
           is == {i \in DOMAIN c : c[i].k # "image"}
           d == Picked(c, is)
<1>1. /\ Len(c) \in Nat /\ DOMAIN c = 1..Len(c)
      /\ \A i \in 1..Len(c) : c[i] \in Range(c)
      /\ c \in Seq(Range(c))
  BY ContentFacts
<1>2. is = {i \in DOMAIN c : c[i] \in B} /\ B \subseteq Range(c)
  BY <1>1
<1>3. NoImages(c) => d = c
  <2> SUFFICES ASSUME NoImages(c)
               PROVE  d = c
    OBVIOUS
  <2>1. 1..Len(c) \subseteq is
    BY <1>1 DEF NoImages
  <2> HIDE DEF is
  <2> QED
    BY <1>1, <2>1, PickedAll
<1> HIDE DEF B, is, d
<1>4. Content(Picked(c, {i \in DOMAIN c : c[i] \in B}))
  BY PickedWhere
<1>5. Range(Picked(c, {i \in DOMAIN c : c[i] \in B})) = Range(c) \cap B
  BY PickedWhere
<1>6. Content(d) /\ Range(d) = B
  BY <1>2, <1>4, <1>5 DEF d
<1>7. UsesIn(d) = UsesIn(c) /\ ResultsOf(d) = ResultsOf(c)
  BY <1>6 DEF UsesIn, ResultsOf, B
<1>8. Lighter(d, c)
  BY <1>2, <1>6, <1>7 DEF Lighter
<1> QED
  BY <1>3, <1>6, <1>8 DEF B, d, is

LEMMA CutContent ==
    ASSUME NEW c, Content(c)
    PROVE  /\ Lighter([j \in DOMAIN c |-> CutBlock(c[j])], c)
           /\ Range([j \in DOMAIN c |-> CutBlock(c[j])]) = {CutBlock(b) : b \in Range(c)}
           /\ Len([j \in DOMAIN c |-> CutBlock(c[j])]) = Len(c)
<1> DEFINE d == [j \in DOMAIN c |-> CutBlock(c[j])]
<1>1. /\ Len(c) \in Nat /\ DOMAIN c = 1..Len(c)
      /\ \A i \in 1..Len(c) : c[i] \in Range(c) /\ OkBlock(c[i])
      /\ Range(c) = {c[i] : i \in 1..Len(c)}
  BY ContentFacts
<1>2. d = [i \in 1..Len(c) |-> d[i]] /\ \A i \in 1..Len(c) : d[i] = CutBlock(c[i])
  BY <1>1
<1>3. \A i \in 1..Len(c) : OkBlock(d[i])
  BY <1>1, <1>2, CutBlockFacts
<1> HIDE DEF d
<1>4. Content(d) /\ Len(d) = Len(c) /\ Range(d) = {d[i] : i \in 1..Len(c)}
  BY <1>1, <1>2, <1>3, MadeContent
<1>5. Range(d) = {CutBlock(b) : b \in Range(c)}
  BY <1>1, <1>2, <1>4
<1>6. \A b \in Range(c) : /\ CutBlock(b).k = b.k
                          /\ b.k = "use" => CutBlock(b) = b
                          /\ b.k = "result" => CutBlock(b).id = b.id
  BY CutBlockFacts DEF Content
<1>7. UsesIn(d) = UsesIn(c)
  BY <1>5, <1>6 DEF UsesIn
<1>8. {b.id : b \in ResultsOf(d)} = {b.id : b \in ResultsOf(c)}
  <2>1. \A b \in ResultsOf(d) : \E a \in ResultsOf(c) : b.id = a.id
    BY <1>5, <1>6 DEF ResultsOf
  <2>2. \A a \in ResultsOf(c) : \E b \in ResultsOf(d) : b.id = a.id
    BY <1>5, <1>6 DEF ResultsOf
  <2> QED
    BY <2>1, <2>2
<1> QED
  BY <1>4, <1>5, <1>7, <1>8 DEF Lighter, d

\* Messages of which something is left keep their form.
LEMMA LighterFormed ==
    ASSUME NEW ms, Formed(ms), NEW g, g = [i \in DOMAIN ms |-> g[i]],
           \A i \in DOMAIN ms : g[i] = Message(ms[i].role, g[i].c) /\ Lighter(g[i].c, ms[i].c)
    PROVE  /\ Formed(g) /\ Len(g) = Len(ms)
           /\ \A p : Taken(ms, p) => Taken(g, p)
<1>1. /\ Len(ms) \in Nat /\ DOMAIN ms = 1..Len(ms)
      /\ \A i \in 1..Len(ms) : MessageAt(ms[i], i) /\ Content(ms[i].c)
  BY FormedFacts
<1> DEFINE n == Len(ms)
<1>2. \A i \in 1..n : /\ Content(g[i].c) /\ UsesIn(g[i].c) = UsesIn(ms[i].c)
                      /\ ResultIds(g[i]) = ResultIds(ms[i]) /\ UseIds(g[i]) = UseIds(ms[i])
                      /\ \A b \in Range(g[i].c) :
                            \E a \in Range(ms[i].c) : b = a \/ b = CutBlock(a)
  BY <1>1, IdsOf DEF Lighter
<1>3. \A i \in 1..n : \A b \in Range(g[i].c) :
          \E a \in Range(ms[i].c) : b.k = a.k /\ (\A p : Takes(p, a) => Takes(p, b))
                                    /\ (a.k = "use" => b = a)
  <2> TAKE i \in 1..n
  <2> TAKE b \in Range(g[i].c)
  <2>1. PICK a \in Range(ms[i].c) : b = a \/ b = CutBlock(a)
    BY <1>2
  <2>2. OkBlock(a)
    BY <1>1 DEF Content
  <2>3. CutBlock(a).k = a.k /\ (\A p : Takes(p, a) => Takes(p, CutBlock(a)))
        /\ (a.k = "use" => CutBlock(a) = a)
    BY <2>2, CutBlockFacts
  <2> QED
    BY <2>1, <2>3
<1>4. \A i \in 1..n : MessageAt(g[i], i)
  <2> TAKE i \in 1..n
  <2>1. ms[i] = Message(RoleAt(i), ms[i].c) /\ MessageAt(ms[i], i)
    BY <1>1 DEF MessageAt
  <2>2. ms[i].role = RoleAt(i)
    BY <2>1, MessageFacts
  <2>3. g[i] = Message(RoleAt(i), g[i].c)
    BY <1>1, <2>2
  <2>4. \A b \in Range(g[i].c) : \E a \in Range(ms[i].c) : b.k = a.k
    BY <1>3
  <2> QED
    BY <1>2, <2>1, <2>3, <2>4 DEF MessageAt
<1>5. \A i \in 1..n : ResultIds(g[i]) = IF i = 1 THEN {} ELSE UseIds(g[i-1])
  <2> TAKE i \in 1..n
  <2>1. ResultIds(ms[i]) = IF i = 1 THEN {} ELSE UseIds(ms[i-1])
    BY DEF Formed, Answered
  <2>2. i # 1 => i - 1 \in 1..n
    BY <1>1
  <2> QED
    BY <1>2, <2>1, <2>2
<1>6. \A i, j \in 1..n : \A a \in UsesIn(g[i].c), b \in UsesIn(g[j].c) :
          a.id = b.id => i = j /\ a = b
  <2>1. \A i, j \in 1..n : \A a \in UsesIn(ms[i].c), b \in UsesIn(ms[j].c) :
            a.id = b.id => i = j /\ a = b
    BY DEF Formed, Distinct
  <2>2. \A i \in 1..n : UsesIn(g[i].c) = UsesIn(ms[i].c)
    BY <1>2
  <2> QED
    BY <2>1, <2>2, SMTT(30)
<1>7. Formed(g) /\ Len(g) = n
  <2>1. n \in Nat /\ g = [i \in 1..n |-> g[i]]
    BY <1>1
  <2> HIDE DEF n
  <2> QED
    BY <2>1, <1>4, <1>5, <1>6, MadeFormed
<1>8. \A p : Taken(ms, p) => Taken(g, p)
  BY <1>3, <1>7 DEF Taken, Bad
<1> QED
  BY <1>7, <1>8

LEMMA WithoutImagesMessage ==
    ASSUME NEW r, NEW c, Content(c)
    PROVE  /\ WithoutImages(Message(r, c)) = Message(r, WithoutImages(Message(r, c)).c)
           /\ Lighter(WithoutImages(Message(r, c)).c, c)
           /\ Range(WithoutImages(Message(r, c)).c) = {b \in Range(c) : b.k # "image"}
           /\ NoImages(c) => WithoutImages(Message(r, c)).c = c
<1> DEFINE d == Picked(c, {j \in DOMAIN c : c[j].k # "image"})
<1>1. WithoutImages(Message(r, c)) = Message(r, d)
  <2> DEFINE m == Message(r, c)
  <2>1. WithoutImages(m) = [m EXCEPT !.c = Picked(m.c, {j \in DOMAIN m.c : m.c[j].k # "image"})]
    BY DEF WithoutImages
  <2>2. m.c = c
    BY MessageFacts
  <2> HIDE DEF m
  <2>3. WithoutImages(m) = [m EXCEPT !.c = d]
    BY <2>1, <2>2
  <2> HIDE DEF d
  <2> QED
    BY <2>3, MessageFacts DEF m
<1>2. /\ Lighter(d, c) /\ Range(d) = {b \in Range(c) : b.k # "image"}
      /\ NoImages(c) => d = c
  BY WithoutImagesContent
<1> HIDE DEF d
<1> QED
  BY <1>1, <1>2, MessageFacts

\* g is ms with the images of the messages in J taken out.
StripOf(g, ms, J) ==
    \A i \in 1..Len(ms) : /\ i \notin J => g[i] = ms[i]
                          /\ i \in J => g[i] = WithoutImages(ms[i])
                          /\ NoImages(ms[i].c) => g[i] = ms[i]
                          /\ Range(g[i].c) \subseteq Range(ms[i].c)

LEMMA StripFormed ==
    ASSUME NEW ms, Formed(ms), NEW J,
           NEW g, g = [i \in DOMAIN ms |-> IF i \in J THEN WithoutImages(ms[i]) ELSE ms[i]]
    PROVE  /\ Formed(g) /\ Len(g) = Len(ms)
           /\ \A p : Taken(ms, p) => Taken(g, p)
           /\ StripOf(g, ms, J)
<1>1. /\ Len(ms) \in Nat /\ DOMAIN ms = 1..Len(ms)
      /\ \A i \in 1..Len(ms) : MessageAt(ms[i], i) /\ Content(ms[i].c)
  BY FormedFacts
<1>2. \A i \in 1..Len(ms) :
         /\ WithoutImages(ms[i]) = Message(ms[i].role, WithoutImages(ms[i]).c)
         /\ Lighter(WithoutImages(ms[i]).c, ms[i].c)
         /\ Range(WithoutImages(ms[i]).c) = {b \in Range(ms[i].c) : b.k # "image"}
         /\ NoImages(ms[i].c) => WithoutImages(ms[i]) = ms[i]
         /\ ms[i] = Message(ms[i].role, ms[i].c)
  <2> TAKE i \in 1..Len(ms)
  <2> DEFINE r == RoleAt(i)
             c == ms[i].c
  <2>1. ms[i] = Message(r, c) /\ Content(c)
    BY <1>1 DEF MessageAt
  <2>2. ms[i].role = r
    BY <2>1, MessageFacts
  <2> HIDE DEF r, c
  <2>3. /\ WithoutImages(ms[i]) = Message(r, WithoutImages(ms[i]).c)
        /\ Lighter(WithoutImages(ms[i]).c, c)
        /\ Range(WithoutImages(ms[i]).c) = {b \in Range(c) : b.k # "image"}
        /\ NoImages(c) => WithoutImages(ms[i]).c = c
    BY <2>1, WithoutImagesMessage
  <2> QED
    BY <2>1, <2>2, <2>3 DEF c
<1>3. \A i \in 1..Len(ms) : g[i] = IF i \in J THEN WithoutImages(ms[i]) ELSE ms[i]
  BY <1>1
<1>4. \A i \in DOMAIN ms : g[i] = Message(ms[i].role, g[i].c) /\ Lighter(g[i].c, ms[i].c)
  BY <1>1, <1>2, <1>3, SameIsLighter
<1>5. g = [i \in DOMAIN ms |-> g[i]]
  OBVIOUS
<1>6. Formed(g) /\ Len(g) = Len(ms) /\ \A p : Taken(ms, p) => Taken(g, p)
  BY <1>4, <1>5, LighterFormed
<1>7. StripOf(g, ms, J)
  BY <1>2, <1>3 DEF StripOf
<1> QED
  BY <1>6, <1>7

\* Images are gone from some messages, not from the first and the last.
Stripped(g, ms) ==
    /\ Formed(g) /\ Len(g) = Len(ms)
    /\ \A p : Taken(ms, p) => Taken(g, p)
    /\ \A i \in 1..Len(ms) :
          /\ g[i] = ms[i] \/ g[i] = WithoutImages(ms[i])
          /\ Range(g[i].c) \subseteq Range(ms[i].c)
          /\ NoImages(ms[i].c) => g[i] = ms[i]
          /\ i = 1 \/ (i = Len(ms) /\ MinRecent > 0) => g[i] = ms[i]

LEMMA SameIsStripped ==
    ASSUME NEW ms, Formed(ms)
    PROVE  Stripped(ms, ms)
BY DEF Stripped

LEMMA StripStripped ==
    ASSUME NEW ms, Formed(ms), NEW J, 1 \notin J, MinRecent > 0 => Len(ms) \notin J,
           NEW g, g = [i \in DOMAIN ms |-> IF i \in J THEN WithoutImages(ms[i]) ELSE ms[i]]
    PROVE  Stripped(g, ms)
<1>1. /\ Formed(g) /\ Len(g) = Len(ms)
      /\ \A p : Taken(ms, p) => Taken(g, p)
  BY StripFormed
<1>2. StripOf(g, ms, J)
  BY StripFormed
<1> QED
  BY <1>1, <1>2 DEF Stripped, StripOf

LEMMA RecentHasLast ==
    ASSUME NEW ms, Len(ms) \in Nat, MinRecent > 0, Len(ms) > 0
    PROVE  Len(ms) \in Recent(ms)
BY CompressionAssumption DEF Recent

LEMMA DropOldImagesStripped ==
    ASSUME NEW ms, Formed(ms)
    PROVE  Stripped(DropOldImages(ms), ms)
<1>1. Len(ms) \in Nat /\ DOMAIN ms = 1..Len(ms)
  BY FormedFacts
<1>2. CASE Len(ms) <= MinRecent
  BY <1>2, SameIsStripped DEF DropOldImages
<1>3. CASE ~(Len(ms) <= MinRecent)
  <2> DEFINE J == {i \in DOMAIN ms : ~(i = 1 \/ i \in Recent(ms))}
             g == [i \in DOMAIN ms |-> IF i = 1 \/ i \in Recent(ms) THEN ms[i]
                                       ELSE WithoutImages(ms[i])]
             h == [i \in DOMAIN ms |-> IF i \in J THEN WithoutImages(ms[i]) ELSE ms[i]]
  <2>1. g = h
    OBVIOUS
  <2>2. 1 \notin J /\ (MinRecent > 0 => Len(ms) \notin J)
    BY <1>1, RecentHasLast
  <2>3. DropOldImages(ms) = g
    BY <1>3 DEF DropOldImages
  <2> HIDE DEF J, g
  <2>4. Stripped(h, ms)
    BY <2>2, StripStripped
  <2> QED
    BY <2>1, <2>3, <2>4
<1> QED
  BY <1>2, <1>3

LEMMA ShrinkStripped ==
    ASSUME NEW ms, Formed(ms)
    PROVE  Stripped(ShrinkToByteBudget(ms), ms)
<1>1. Len(ms) \in Nat /\ DOMAIN ms = 1..Len(ms)
  BY FormedFacts
<1>2. CASE Len(ms) <= MinRecent
  BY <1>2, SameIsStripped DEF ShrinkToByteBudget
<1>3. CASE ~(Len(ms) <= MinRecent)
  <2> DEFINE Goes(i) == /\ i > 1
                        /\ i \notin Recent(ms)
                        /\ i = 2 \/ ImagesOf(StrippedTo(ms, i - 1)) > MaxImages
             J == {i \in DOMAIN ms : Goes(i)}
             g == [i \in DOMAIN ms |-> IF Goes(i) THEN WithoutImages(ms[i]) ELSE ms[i]]
             h == [i \in DOMAIN ms |-> IF i \in J THEN WithoutImages(ms[i]) ELSE ms[i]]
  <2>1. ShrinkToByteBudget(ms) = g
    BY <1>3 DEF ShrinkToByteBudget
  <2>2. 1 \notin J /\ (MinRecent > 0 => Len(ms) \notin J)
    <3>1. \A i : Goes(i) => i > 1 /\ i \notin Recent(ms)
      OBVIOUS
    <3> HIDE DEF Goes
    <3> QED
      BY <1>1, <3>1, RecentHasLast
  <2> HIDE DEF Goes
  <2>3. g = h
    OBVIOUS
  <2> HIDE DEF J, g
  <2>4. Stripped(h, ms)
    BY <2>2, StripStripped
  <2> QED
    BY <2>1, <2>3, <2>4
<1> QED
  BY <1>2, <1>3

\* Long texts and results of the user are cut, but for the first message.
Cut(g, ms) ==
    /\ Formed(g) /\ Len(g) = Len(ms)
    /\ \A p : Taken(ms, p) => Taken(g, p)
    /\ \A i \in 1..Len(ms) :
          /\ i = 1 \/ i % 2 = 0 => g[i] = ms[i]
          /\ i > 1 /\ i % 2 = 1 =>
                g[i] = Message(ms[i].role, [j \in DOMAIN ms[i].c |-> CutBlock(ms[i].c[j])])
          /\ Len(g[i].c) = Len(ms[i].c)
          /\ \A b \in ResultsOf(g[i].c) : b = [k |-> "result", id |-> b.id, big |-> FALSE]

LEMMA NoResults ==
    ASSUME NEW ms, Formed(ms), NEW i \in 1..Len(ms), i = 1 \/ i % 2 = 0
    PROVE  ResultsOf(ms[i].c) = {}
<1>1. CASE i = 1
  <2>1. ResultIds(ms[i]) = {}
    BY <1>1 DEF Formed, Answered
  <2>2. \A b \in ResultsOf(ms[i].c) : b.id \in ResultIds(ms[i])
    BY IdsOf
  <2> QED
    BY <2>1, <2>2
<1>2. CASE i % 2 = 0
  <2>1. MessageAt(ms[i], i)
    BY FormedFacts
  <2> QED
    BY <1>2, <2>1 DEF MessageAt, Asking, ResultsOf
<1> QED
  BY <1>1, <1>2

LEMMA NoUses ==
    ASSUME NEW ms, Formed(ms), NEW i \in 1..Len(ms), i % 2 = 1
    PROVE  UsesIn(ms[i].c) = {} /\ UseIds(ms[i]) = {}
<1>1. MessageAt(ms[i], i)
  BY FormedFacts
<1>2. UsesIn(ms[i].c) = {}
  BY <1>1 DEF MessageAt, Asking, UsesIn
<1> QED
  BY <1>2, IdsOf

LEMMA TruncateCut ==
    ASSUME NEW ms, Formed(ms)
    PROVE  Cut(TruncateToolResults(ms), ms)
<1> DEFINE n == Len(ms)
           CutOf(m) == Message(m.role, [j \in DOMAIN m.c |-> CutBlock(m.c[j])])
           g == TruncateToolResults(ms)
<1>1. /\ n \in Nat /\ DOMAIN ms = 1..n
      /\ \A i \in 1..n : MessageAt(ms[i], i) /\ Content(ms[i].c)
  BY FormedFacts
<1>2. \A i \in 1..n : ms[i] = Message(RoleAt(i), ms[i].c) /\ ms[i].role = RoleAt(i)
  BY <1>1, MessageFacts DEF MessageAt
<1>3. \A i \in 1..n : [ms[i] EXCEPT !.c = [j \in DOMAIN @ |-> CutBlock(@[j])]] = CutOf(ms[i])
  <2> TAKE i \in 1..n
  <2> DEFINE d == [j \in DOMAIN ms[i].c |-> CutBlock(ms[i].c[j])]
             r == RoleAt(i)
             c == ms[i].c
  <2>1. [ms[i] EXCEPT !.c = [j \in DOMAIN @ |-> CutBlock(@[j])]] = [ms[i] EXCEPT !.c = d]
    OBVIOUS
  <2>2. ms[i] = Message(r, c) /\ ms[i].role = r
    BY <1>2
  <2> HIDE DEF d, c, r
  <2>3. [ms[i] EXCEPT !.c = d] = Message(r, d)
    BY <2>2, MessageFacts
  <2> QED
    BY <2>1, <2>2, <2>3 DEF d
<1> HIDE DEF CutOf
<1>4. g = [i \in 1..n |-> IF i = 1 \/ ms[i].role # "user" THEN ms[i] ELSE CutOf(ms[i])]
  <2>1. g = [i \in 1..n |-> IF i = 1 \/ ms[i].role # "user" THEN ms[i]
                            ELSE [ms[i] EXCEPT !.c = [j \in DOMAIN @ |-> CutBlock(@[j])]]]
    BY <1>1 DEF TruncateToolResults
  <2> HIDE DEF g
  <2> QED
    BY <1>3, <2>1
<1> HIDE DEF g
<1>5. \A i \in 1..n : /\ i = 1 \/ i % 2 = 0 => g[i] = ms[i]
                      /\ i > 1 /\ i % 2 = 1 => g[i] = CutOf(ms[i])
  BY <1>1, <1>2, <1>4 DEF RoleAt
<1>6. \A i \in 1..n : LET d == [j \in DOMAIN ms[i].c |-> CutBlock(ms[i].c[j])]
                      IN  /\ CutOf(ms[i]) = Message(ms[i].role, d)
                          /\ CutOf(ms[i]).c = d
                          /\ Lighter(d, ms[i].c)
                          /\ Range(d) = {CutBlock(b) : b \in Range(ms[i].c)}
                          /\ Len(d) = Len(ms[i].c)
  BY <1>1, MessageFacts, CutContent DEF CutOf
<1>7. \A i \in 1..n : i % 2 = 0 \/ i % 2 = 1
  BY <1>1
<1>8. \A i \in DOMAIN ms : g[i] = Message(ms[i].role, g[i].c) /\ Lighter(g[i].c, ms[i].c)
  <2> SUFFICES ASSUME NEW i \in 1..n
               PROVE  g[i] = Message(ms[i].role, g[i].c) /\ Lighter(g[i].c, ms[i].c)
    BY <1>1
  <2>1. CASE i = 1 \/ i % 2 = 0
    BY <1>1, <1>2, <1>5, <2>1, SameIsLighter
  <2>2. CASE i > 1 /\ i % 2 = 1
    <3> DEFINE d == [j \in DOMAIN ms[i].c |-> CutBlock(ms[i].c[j])]
    <3>1. g[i] = Message(ms[i].role, d) /\ g[i].c = d /\ Lighter(d, ms[i].c)
      BY <1>5, <1>6, <2>2
    <3> HIDE DEF d
    <3> QED
      BY <3>1
  <2> QED
    BY <1>1, <1>7, <2>1, <2>2
<1>9. g = [i \in DOMAIN ms |-> g[i]]
  BY <1>1, <1>4
<1>10. Formed(g) /\ Len(g) = n /\ \A p : Taken(ms, p) => Taken(g, p)
  BY <1>8, <1>9, LighterFormed
<1>11. \A i \in 1..n : Len(g[i].c) = Len(ms[i].c)
  <2> TAKE i \in 1..n
  <2>1. CASE i = 1 \/ i % 2 = 0
    BY <1>5, <2>1
  <2>2. CASE i > 1 /\ i % 2 = 1
    BY <1>5, <1>6, <2>2
  <2> QED
    BY <1>1, <1>7, <2>1, <2>2
<1>12. \A i \in 1..n : \A b \in ResultsOf(g[i].c) : b = [k |-> "result", id |-> b.id, big |-> FALSE]
  <2> TAKE i \in 1..n
  <2>1. CASE i = 1 \/ i % 2 = 0
    BY <1>5, <2>1, NoResults
  <2>2. CASE i > 1 /\ i % 2 = 1
    <3> TAKE b \in ResultsOf(g[i].c)
    <3>1. b \in Range(g[i].c) /\ b.k = "result"
      BY DEF ResultsOf
    <3>2. Range(g[i].c) = {CutBlock(a) : a \in Range(ms[i].c)}
      BY <1>5, <1>6, <2>2
    <3>3. PICK a \in Range(ms[i].c) : b = CutBlock(a)
      BY <3>1, <3>2
    <3>4. OkBlock(a)
      BY <1>1 DEF Content
    <3>5. a.k = "result" /\ CutBlock(a) = [k |-> "result", id |-> a.id, big |-> FALSE]
      BY <3>1, <3>3, <3>4, CutBlockFacts
    <3> QED
      BY <3>3, <3>5
  <2> QED
    BY <1>1, <1>7, <2>1, <2>2
<1>13. \A i \in 1..n : i > 1 /\ i % 2 = 1 =>
           g[i] = Message(ms[i].role, [j \in DOMAIN ms[i].c |-> CutBlock(ms[i].c[j])])
  BY <1>5 DEF CutOf
<1>14. \A i \in 1..n : i = 1 \/ i % 2 = 0 => g[i] = ms[i]
  BY <1>5
<1> HIDE DEF n
<1> QED
  BY <1>10, <1>11, <1>12, <1>13, <1>14 DEF Cut, n, g

-----------------------------------------------------------------------------
(* Compression drops the oldest messages but the first. *)

\* Calls stand next to their results.
IsPartner(ms, i, j) ==
    \/ j = i + 1 /\ UseIds(ms[i]) # {}
    \/ j = i - 1 /\ ResultIds(ms[i]) # {}

LEMMA PartnersFacts ==
    ASSUME NEW ms, Formed(ms), NEW i \in 1..Len(ms)
    PROVE  Partners(ms, i) = {j \in 1..Len(ms) : IsPartner(ms, i, j)}
<1> DEFINE n == Len(ms)
<1>1. n \in Nat /\ DOMAIN ms = 1..n
  BY FormedFacts
<1>2. \A j \in 1..n : ResultIds(ms[j]) = IF j = 1 THEN {} ELSE UseIds(ms[j-1])
  BY DEF Formed, Answered
<1>3. \A j, k \in 1..n : UseIds(ms[j]) \cap UseIds(ms[k]) # {} => j = k
  <2>1. \A j, k \in 1..n : \A a \in UsesIn(ms[j].c), b \in UsesIn(ms[k].c) :
            a.id = b.id => j = k
    BY DEF Formed, Distinct
  <2> QED
    BY <2>1, IdsOf
<1>4. ASSUME NEW j \in 1..n
      PROVE  UseIds(ms[i]) \cap ResultIds(ms[j]) # {} <=> (j = i + 1 /\ UseIds(ms[i]) # {})
  <2>1. CASE j = 1
    BY <1>1, <1>2, <2>1
  <2>2. CASE j # 1
    <3>1. j - 1 \in 1..n /\ ResultIds(ms[j]) = UseIds(ms[j-1])
      BY <1>1, <1>2, <2>2
    <3>2. UseIds(ms[i]) \cap UseIds(ms[j-1]) # {} => j - 1 = i
      BY <1>3, <3>1
    <3>3. j = i + 1 <=> j - 1 = i
      BY <1>1
    <3> QED
      BY <3>1, <3>2, <3>3
  <2> QED
    BY <2>1, <2>2
<1>5. ASSUME NEW j \in 1..n
      PROVE  ResultIds(ms[i]) \cap UseIds(ms[j]) # {} <=> (j = i - 1 /\ ResultIds(ms[i]) # {})
  <2>1. CASE i = 1
    BY <1>2, <2>1
  <2>2. CASE i # 1
    <3>1. i - 1 \in 1..n /\ ResultIds(ms[i]) = UseIds(ms[i-1])
      BY <1>1, <1>2, <2>2
    <3>2. UseIds(ms[i-1]) \cap UseIds(ms[j]) # {} => j = i - 1
      BY <1>3, <3>1
    <3> QED
      BY <3>1, <3>2
  <2> QED
    BY <2>1, <2>2
<1>6. \A j \in 1..n : (UseIds(ms[i]) \cap ResultIds(ms[j]) # {}
                         \/ ResultIds(ms[i]) \cap UseIds(ms[j]) # {}) <=> IsPartner(ms, i, j)
  BY <1>4, <1>5 DEF IsPartner
<1>7. Partners(ms, i) = {j \in 1..n : UseIds(ms[i]) \cap ResultIds(ms[j]) # {}
                                      \/ ResultIds(ms[i]) \cap UseIds(ms[j]) # {}}
  BY <1>1 DEF Partners
<1> QED
  BY <1>6, <1>7

\* The first message and those from a to the last.
From(a, n) == {1} \cup a..n

LEMMA FromCardinality ==
    ASSUME NEW n \in Nat, n > 0, NEW a \in 1..n+1
    PROVE  /\ IsFiniteSet(From(a, n))
           /\ Cardinality(From(a, n)) = IF a = 1 THEN n ELSE n - a + 2
<1>1. IsFiniteSet(a..n) /\ Cardinality(a..n) = n - a + 1
  BY FS_Interval
<1>2. CASE a = 1
  <2>1. From(a, n) = a..n
    BY <1>2 DEF From
  <2> QED
    BY <1>1, <1>2, <2>1
<1>3. CASE a # 1
  <2>1. 1 \notin a..n
    BY <1>3
  <2>2. IsFiniteSet(a..n \cup {1}) /\ Cardinality(a..n \cup {1}) = Cardinality(a..n) + 1
    BY <1>1, <2>1, FS_AddElement
  <2>3. From(a, n) = a..n \cup {1}
    BY DEF From
  <2> QED
    BY <1>1, <1>3, <2>2, <2>3
<1> QED
  BY <1>2, <1>3

\* A step of the loop keeps what it may and is still closed under partners.
StageAt(ms, target, kept, a) ==
    /\ kept.is = From(a, Len(ms))
    /\ a <= Len(ms) => ResultIds(ms[a]) = {}
    /\ ~kept.more => Len(ms) - a + 1 >= MinRecent
    /\ TokensAt(ms, kept.is) <= target \/ Cardinality(kept.is) <= MinRecent + 2

Stage(ms, target, kept, i) ==
    \E a \in 1..Len(ms)+1 : StageAt(ms, target, kept, a) /\ (kept.more => a \in {i - 1, i})

LEMMA KeptStart ==
    ASSUME NEW ms, Formed(ms), Len(ms) > 0, NEW target
    PROVE  Stage(ms, target, [is |-> {1} \cup Partners(ms, 1), more |-> TRUE], Len(ms) + 1)
<1> DEFINE n == Len(ms)
           a == n + 1
<1>1. n \in Nat /\ 1 \in 1..n
  BY FormedFacts
<1>2. ResultIds(ms[1]) = {} /\ UseIds(ms[1]) = {}
  <2>1. 1 % 2 = 1
    OBVIOUS
  <2>2. UseIds(ms[1]) = {}
    BY <1>1, <2>1, NoUses
  <2>3. ResultIds(ms[1]) = {}
    BY <1>1 DEF Formed, Answered
  <2> QED
    BY <2>2, <2>3
<1>3. Partners(ms, 1) = {}
  BY <1>1, <1>2, PartnersFacts DEF IsPartner
<1>4. {1} \cup Partners(ms, 1) = From(a, n)
  BY <1>1, <1>3 DEF From
<1>5. Cardinality(From(a, n)) = 1
  BY <1>1, FromCardinality
<1> DEFINE kept == [is |-> {1} \cup Partners(ms, 1), more |-> TRUE]
<1>6. kept.is = From(a, n) /\ kept.more
  BY <1>4
<1>7. a \in 1..n+1 /\ ~(a <= n) /\ 1 <= MinRecent + 2
  BY <1>1, CompressionAssumption
<1> HIDE DEF kept
<1>8. StageAt(ms, target, kept, a)
  BY <1>5, <1>6, <1>7 DEF StageAt
<1> QED
  BY <1>6, <1>7, <1>8 DEF Stage, kept

LEMMA VisitedStage ==
    ASSUME NEW ms, Formed(ms), NEW target, NEW i \in 1..Len(ms),
           NEW kept, kept.more \in BOOLEAN, Stage(ms, target, kept, i + 1)
    PROVE  Stage(ms, target, Visited(ms, target, kept, i), i)
<1> DEFINE n == Len(ms)
           with == kept.is \cup {i} \cup Partners(ms, i)
<1>1. n \in Nat /\ MinRecent \in Nat
  BY FormedFacts, CompressionAssumption
<1>2. PICK a \in 1..n+1 : StageAt(ms, target, kept, a) /\ (kept.more => a \in {i, i + 1})
  BY <1>1 DEF Stage
<1>3. ResultIds(ms[1]) = {} /\ 1 \in 1..n
  BY <1>1 DEF Formed, Answered
<1>4. CASE ~kept.more \/ i \in kept.is
  <2>1. Visited(ms, target, kept, i) = kept
    BY <1>4 DEF Visited
  <2>2. CASE kept.more => a \in {i - 1, i}
    BY <1>2, <2>1, <2>2 DEF Stage
  <2>3. CASE kept.more /\ a = i + 1
    <3>1. i \in {1} \cup a..n
      BY <1>2, <1>4, <2>3 DEF StageAt, From
    <3>2. i = 1 /\ a = 2
      BY <1>1, <2>3, <3>1
    <3>3. From(a, n) = From(1, n)
      BY <1>1, <1>3, <3>2 DEF From
    <3>4. StageAt(ms, target, kept, 1)
      BY <1>2, <1>3, <2>3, <3>3 DEF StageAt
    <3>5. 1 \in 1..n+1
      BY <1>1
    <3> QED
      BY <2>1, <3>2, <3>4, <3>5 DEF Stage
  <2> QED
    BY <1>2, <2>2, <2>3
<1>5. CASE ~(~kept.more \/ i \in kept.is)
  <2>1. kept.more /\ a = i + 1 /\ i # 1 /\ kept.is = {1} \cup (i+1)..n
    <3>1. i \notin {1} \cup a..n /\ kept.more
      BY <1>2, <1>5 DEF StageAt, From
    <3>2. a \in {i, i + 1}
      BY <1>2, <3>1
    <3>3. a # i
      BY <1>1, <3>1
    <3> QED
      BY <1>2, <3>1, <3>2, <3>3 DEF StageAt, From
  <2>2. Cardinality(kept.is) = n - i + 1
    <3>1. kept.is = From(i + 1, n) /\ i + 1 \in 1..n+1 /\ n > 0 /\ i + 1 # 1
      BY <1>1, <2>1 DEF From
    <3>2. Cardinality(From(i + 1, n)) = n - (i + 1) + 2
      BY <1>1, <3>1, FromCardinality
    <3> QED
      BY <1>1, <3>1, <3>2
  <2>3. CASE Cardinality(kept.is) - 1 < MinRecent \/ TokensAt(ms, with) <= target
    <3>1. Visited(ms, target, kept, i) = [is |-> with, more |-> TRUE]
      BY <1>5, <2>3 DEF Visited
    <3> DEFINE c == IF ResultIds(ms[i]) # {} THEN i - 1 ELSE i
    <3>2. c \in 1..n /\ c \in {i - 1, i}
      BY <1>1, <2>1
    <3>3. with = From(c, n)
      <4>1. Partners(ms, i) = {j \in 1..n : IsPartner(ms, i, j)}
        BY PartnersFacts
      <4>2. CASE ResultIds(ms[i]) # {}
        <5>1. i - 1 \in Partners(ms, i) /\ Partners(ms, i) \subseteq {i - 1} \cup (i+1)..n
          BY <1>1, <2>1, <4>1, <4>2 DEF IsPartner
        <5>2. {1} \cup (i-1)..n = {1} \cup (i+1)..n \cup {i} \cup {i - 1}
          BY <1>1, <2>1
        <5>3. c = i - 1
          BY <4>2
        <5> HIDE DEF c
        <5> QED
          BY <2>1, <5>1, <5>2, <5>3 DEF From
      <4>3. CASE ResultIds(ms[i]) = {}
        <5>1. Partners(ms, i) \subseteq (i+1)..n
          BY <1>1, <4>1, <4>3 DEF IsPartner
        <5>2. {1} \cup i..n = {1} \cup (i+1)..n \cup {i}
          BY <1>1
        <5>3. c = i
          BY <4>3
        <5> HIDE DEF c
        <5> QED
          BY <2>1, <5>1, <5>2, <5>3 DEF From
      <4> QED
        BY <4>2, <4>3
    <3>4. ResultIds(ms[c]) = {}
      <4>1. CASE ResultIds(ms[i]) = {}
        BY <4>1
      <4>2. CASE ResultIds(ms[i]) # {}
        <5>1. i - 1 \in 1..n /\ c = i - 1
          BY <1>1, <2>1, <4>2
        <5>2. i % 2 # 0
          <6> SUFFICES ASSUME i % 2 = 0
                       PROVE  FALSE
            OBVIOUS
          <6>1. ResultsOf(ms[i].c) = {}
            BY NoResults
          <6> QED
            BY <4>2, <6>1, IdsOf
        <5>3. (i - 1) % 2 = 0
          BY <1>1, <5>2
        <5>4. ResultsOf(ms[i-1].c) = {}
          BY <5>1, <5>3, NoResults
        <5> QED
          BY <5>1, <5>4, IdsOf
      <4> QED
        BY <4>1, <4>2
    <3>5. TokensAt(ms, with) <= target \/ Cardinality(with) <= MinRecent + 2
      <4> SUFFICES ASSUME Cardinality(kept.is) - 1 < MinRecent
                   PROVE  Cardinality(with) <= MinRecent + 2
        BY <2>3
      <4>1. Cardinality(From(c, n)) = IF c = 1 THEN n ELSE n - c + 2
        <5>1. n > 0 /\ c \in 1..n+1
          BY <1>1, <3>2
        <5> HIDE DEF c
        <5> QED
          BY <1>1, <5>1, FromCardinality
      <4> HIDE DEF c, with
      <4> QED
        BY <1>1, <2>2, <3>2, <3>3, <4>1
    <3> DEFINE new == [is |-> with, more |-> TRUE]
    <3>6. new.is = with /\ new.more
      OBVIOUS
    <3> HIDE DEF new, with, c
    <3>7. StageAt(ms, target, new, c)
      BY <3>3, <3>4, <3>5, <3>6 DEF StageAt
    <3>8. c \in 1..n+1
      BY <1>1, <3>2
    <3> QED
      BY <3>1, <3>2, <3>7, <3>8 DEF Stage, new
  <2>4. CASE ~(Cardinality(kept.is) - 1 < MinRecent \/ TokensAt(ms, with) <= target)
    <3> DEFINE new == [is |-> kept.is, more |-> FALSE]
    <3>1. Visited(ms, target, kept, i) = new
      BY <1>5, <2>4 DEF Visited
    <3>2. new.is = kept.is /\ ~new.more
      OBVIOUS
    <3> HIDE DEF new
    <3>3. n - a + 1 >= MinRecent
      BY <1>1, <2>1, <2>2, <2>4
    <3>4. StageAt(ms, target, new, a)
      BY <1>2, <3>2, <3>3 DEF StageAt
    <3> QED
      BY <3>1, <3>2, <3>4 DEF Stage
  <2> QED
    BY <2>3, <2>4
<1> QED
  BY <1>4, <1>5

\* What the loop keeps: the first message and all from one on that answers no call.
LEMMA KeptShape ==
    ASSUME NEW ms, Formed(ms), Len(ms) > MinRecent, NEW target
    PROVE  \E a \in 1..Len(ms)+1 :
              /\ KeptIndices(ms, target) = From(a, Len(ms))
              /\ a <= Len(ms) => ResultIds(ms[a]) = {}
              /\ Len(ms) - a + 1 >= MinRecent
              /\ \/ TokensAt(ms, From(a, Len(ms))) <= target
                 \/ Cardinality(From(a, Len(ms))) <= MinRecent + 2
<1> DEFINE n == Len(ms)
           S == [is : SUBSET (1..n), more : BOOLEAN]
           b == [is |-> {1} \cup Partners(ms, 1), more |-> TRUE]
           G == [q \in (1..n) \X S |-> Visited(ms, target, q[2], n + 1 - q[1])]
           Value(f, i) == IF i = 0 THEN b ELSE Visited(ms, target, f[i-1], n + 1 - i)
           kept == CHOOSE f : f = [i \in 0..n |-> Value(f, i)]
<1>1. n \in Nat /\ n > 0 /\ MinRecent \in Nat /\ 1 \in 1..n
  BY FormedFacts, CompressionAssumption
<1>2. \A i \in 1..n : Partners(ms, i) \subseteq 1..n
  BY PartnersFacts
<1>3. b \in S
  BY <1>1, <1>2
<1>4. G \in [(1..n) \X S -> S]
  <2>1. ASSUME NEW i \in 1..n, NEW u \in S
        PROVE  Visited(ms, target, u, n + 1 - i) \in S
    <3>1. n + 1 - i \in 1..n
      BY <1>1
    <3>2. u.is \cup {n + 1 - i} \cup Partners(ms, n + 1 - i) \in SUBSET (1..n)
      BY <1>2, <3>1
    <3> QED
      BY <3>2 DEF Visited
  <2> HIDE DEF S
  <2> QED
    BY <2>1
<1>5. PICK p \in [0..n -> S] : p[0] = b /\ \A i \in 1..n : p[i] = G[<<i, p[i-1]>>]
  <2> HIDE DEF S, n, G, Value, kept, b
  <2>1. \E f \in [0..n -> S] : Follows(f, n, b, G)
    BY <1>1, <1>3, <1>4, Recursion
  <2> QED
    BY <2>1 DEF Follows
<1>6. \A i \in 1..n : p[i] = Visited(ms, target, p[i-1], n + 1 - i)
  <2> HIDE DEF S
  <2> TAKE i \in 1..n
  <2>1. <<i, p[i-1]>> \in (1..n) \X S
    BY <1>1, <1>5
  <2> QED
    BY <1>5, <2>1
<1>7. p = [i \in 0..n |-> Value(p, i)]
  <2>1. ASSUME NEW i \in 0..n
        PROVE  p[i] = Value(p, i)
    <3>1. i # 0 => i \in 1..n
      BY <1>1
    <3> HIDE DEF b
    <3> QED
      BY <1>5, <1>6, <3>1
  <2> HIDE DEF S, Value
  <2> QED
    BY <1>5, <2>1
<1>8. kept = [i \in 0..n |-> Value(kept, i)]
  BY <1>7
<1>9. KeptIndices(ms, target) = kept[n].is
  BY DEF KeptIndices, kept
<1> HIDE DEF kept
<1>10. kept[0] = b /\ \A i \in 1..n : kept[i] = Visited(ms, target, kept[i-1], n + 1 - i)
  <2>1. 0 \in 0..n /\ \A i \in 1..n : i \in 0..n /\ i # 0
    BY <1>1
  <2> HIDE DEF b
  <2> QED
    BY <1>8, <2>1
<1> DEFINE Good(i) == kept[i] \in S /\ Stage(ms, target, kept[i], n + 1 - i)
<1>11. \A i \in 0..n : Good(i)
  <2> DEFINE P == {i \in 0..n : Good(i)}
  <2>1. 0 \in P
    <3>1. Stage(ms, target, b, n + 1)
      BY <1>1, KeptStart
    <3>2. n + 1 - 0 = n + 1 /\ 0 \in 0..n
      BY <1>1
    <3> HIDE DEF b, S
    <3> QED
      BY <1>3, <1>10, <3>1, <3>2
  <2>2. ASSUME NEW i \in 0..n, i \in P, i < n
        PROVE  i + 1 \in P
    <3> DEFINE j == n + 1 - (i + 1)
    <3>1. i + 1 \in 1..n /\ i + 1 \in 0..n /\ (i + 1) - 1 = i /\ n + 1 - i = j + 1 /\ j \in 1..n
      BY <1>1, <2>2
    <3>2. kept[i+1] = Visited(ms, target, kept[i], j)
      BY <1>10, <3>1
    <3>3. kept[i] \in S /\ Stage(ms, target, kept[i], j + 1)
      BY <2>2, <3>1
    <3>4. kept[i].more \in BOOLEAN
      BY <3>3
    <3> HIDE DEF S, j
    <3>5. Stage(ms, target, Visited(ms, target, kept[i], j), j)
      BY <3>1, <3>3, <3>4, VisitedStage
    <3>6. Visited(ms, target, kept[i], j) \in S
      <4>1. \A i_1 \in 1..n, u \in S : G[<<i_1, u>>] = Visited(ms, target, u, n + 1 - i_1)
        OBVIOUS
      <4>2. G[<<i + 1, kept[i]>>] \in S
        <5> HIDE DEF G
        <5> QED
          BY <1>4, <3>1, <3>3
      <4> QED
        BY <3>1, <3>3, <4>1, <4>2 DEF j
    <3> QED
      BY <3>1, <3>2, <3>5, <3>6 DEF j
  <2>3. \A i \in 0..n : i \in P
    <3> HIDE DEF P, n
    <3> QED
      BY <1>1, <2>1, <2>2, Induction
  <2> QED
    BY <2>3
<1>12. Stage(ms, target, kept[n], 1) /\ kept[n].more \in BOOLEAN
  <2>1. n \in 0..n /\ n + 1 - n = 1
    BY <1>1
  <2> QED
    BY <1>11, <2>1
<1>13. PICK a \in 1..n+1 : StageAt(ms, target, kept[n], a) /\ (kept[n].more => a \in {0, 1})
  BY <1>12 DEF Stage
<1>14. n - a + 1 >= MinRecent
  <2>1. CASE kept[n].more
    BY <1>1, <1>13, <2>1
  <2>2. CASE ~kept[n].more
    BY <1>13, <2>2 DEF StageAt
  <2> QED
    BY <2>1, <2>2
<1> QED
  BY <1>9, <1>13, <1>14 DEF StageAt

LEMMA Roles ==
    ASSUME NEW ms, Formed(ms), NEW i \in 1..Len(ms)
    PROVE  ms[i].role = RoleAt(i)
<1>1. ms[i] = Message(RoleAt(i), ms[i].c)
  BY FormedFacts DEF MessageAt
<1> QED
  BY <1>1, MessageFacts

\* Neighbours clash only at the gap after the first message.
LEMMA Neighbours ==
    ASSUME NEW ms, Formed(ms), NEW a \in 2..Len(ms)+1,
           NEW i \in Clashes(ms, From(a, Len(ms)))
    PROVE  i = 1 /\ a <= Len(ms) /\ a % 2 = 1
<1> DEFINE n == Len(ms)
           kept == From(a, n)
<1>1. n \in Nat
  BY FormedFacts
<1>2. PICK j \in kept : i \in kept /\ i < j /\ ms[i].role = ms[j].role
                        /\ ~\E k \in kept : i < k /\ k < j
  BY DEF Clashes
<1>3. \A k : k \in kept <=> k = 1 \/ (k \in a..n)
  BY DEF From
<1> HIDE DEF kept
<1>4. i \in 1..n /\ j \in 1..n /\ j \in a..n
  BY <1>1, <1>2, <1>3
<1>5. i % 2 = j % 2
  <2>1. RoleAt(i) = RoleAt(j)
    BY <1>2, <1>4, Roles
  <2> QED
    BY <1>4, <2>1 DEF RoleAt
<1>6. CASE i = 1
  <2>1. a \in kept
    BY <1>1, <1>3, <1>4
  <2>2. ~(1 < a /\ a < j)
    BY <1>2, <1>6, <2>1
  <2>3. j = a
    BY <1>1, <1>4, <2>2
  <2> QED
    BY <1>1, <1>4, <1>5, <1>6, <2>3
<1>7. CASE i # 1
  <2>1. i + 1 \in kept
    BY <1>1, <1>2, <1>3, <1>4, <1>7
  <2>2. ~(i + 1 < j)
    BY <1>1, <1>2, <1>4, <2>1
  <2>3. j = i + 1
    BY <1>1, <1>2, <1>4, <2>2
  <2> QED
    BY <1>1, <1>4, <1>5, <2>3
<1> QED
  BY <1>6, <1>7

Even(a) == IF a % 2 = 1 THEN a + 1 ELSE a

LEMMA SettledShape ==
    ASSUME NEW ms, Formed(ms), Len(ms) % 2 = 1, NEW a \in 1..Len(ms)+1,
           a <= Len(ms) => ResultIds(ms[a]) = {}
    PROVE  /\ Settled(ms, From(a, Len(ms))) = From(Even(a), Len(ms))
           /\ Even(a) \in 2..Len(ms)+1 /\ Even(a) % 2 = 0
<1> DEFINE n == Len(ms)
           kept == From(a, n)
<1>1. n \in Nat /\ 1 \in 1..n
  BY FormedFacts
<1>2. Even(a) \in 2..n+1 /\ Even(a) % 2 = 0
  BY <1>1 DEF Even
<1>3. CASE a = 1
  <2>1. From(1, n) = From(2, n)
    BY <1>1 DEF From
  <2>2. Clashes(ms, From(2, n)) = {}
    <3>1. 2 \in 2..n+1 /\ 2 % 2 = 0
      BY <1>1
    <3> QED
      BY <3>1, Neighbours
  <2>3. Even(a) = 2
    BY <1>3 DEF Even
  <2> QED
    BY <1>2, <1>3, <2>1, <2>2, <2>3 DEF Settled
<1>4. CASE a % 2 = 0
  <2>1. a \in 2..n+1
    BY <1>1, <1>4
  <2>2. Clashes(ms, From(a, n)) = {}
    BY <1>4, <2>1, Neighbours
  <2>3. Even(a) = a
    BY <1>4 DEF Even
  <2> QED
    BY <1>2, <2>2, <2>3 DEF Settled
<1>5. CASE a # 1 /\ a % 2 = 1
  <2>1. a \in 2..n /\ a \in 1..n /\ n # a - 1
    BY <1>1, <1>5
  <2>2. \A k : k \in kept <=> k = 1 \/ k \in a..n
    BY DEF From
  <2>3. Clashes(ms, kept) = {1}
    <3>1. \A i \in Clashes(ms, kept) : i = 1
      BY <1>1, <2>1, Neighbours
    <3>2. 1 \in kept /\ a \in kept /\ ~\E k \in kept : 1 < k /\ k < a
      BY <1>1, <2>1, <2>2
    <3>3. ms[1].role = ms[a].role
      <4>1. ms[1].role = RoleAt(1) /\ ms[a].role = RoleAt(a)
        BY <1>1, <2>1, Roles
      <4> QED
        BY <1>5, <4>1 DEF RoleAt
    <3>4. 1 \in Clashes(ms, kept)
      BY <2>1, <3>2, <3>3 DEF Clashes
    <3> QED
      BY <3>1, <3>4
  <2>4. Min(Clashes(ms, kept)) = 1
    BY <2>3 DEF Min
  <2>5. Min(kept \ {1}) = a
    <3>1. kept \ {1} = a..n
      BY <1>1, <2>1, <2>2
    <3>2. a \in a..n /\ \A y \in a..n : a <= y
      BY <1>1, <2>1
    <3>3. \A x \in a..n : (\A y \in a..n : x <= y) => x = a
      BY <1>1, <2>1, <3>2
    <3> QED
      BY <3>1, <3>2, <3>3 DEF Min
  <2>6. Loser(ms, kept) = a
    BY <2>4, <2>5 DEF Loser
  <2>7. Partners(ms, a) = {}
    <3>1. UseIds(ms[a]) = {}
      BY <1>5, <2>1, NoUses
    <3>2. ResultIds(ms[a]) = {}
      BY <1>1, <2>1
    <3> QED
      BY <2>1, <3>1, <3>2, PartnersFacts DEF IsPartner
  <2>8. Settled(ms, kept) = kept \ {a}
    BY <2>3, <2>6, <2>7 DEF Settled
  <2>9. kept \ {a} = From(a + 1, n)
    <3>1. kept = {1} \cup a..n
      BY DEF From
    <3>2. a..n = {a} \cup (a+1)..n /\ a \notin (a+1)..n
      BY <1>1, <2>1
    <3> HIDE DEF kept
    <3> QED
      BY <1>5, <3>1, <3>2 DEF From
  <2>10. Even(a) = a + 1
    BY <1>5 DEF Even
  <2> QED
    BY <1>2, <2>8, <2>9, <2>10
<1>6. a % 2 = 0 \/ a % 2 = 1
  BY <1>1
<1> QED
  BY <1>3, <1>4, <1>5, <1>6

\* One round settles what the loop kept.
LEMMA EnforcedShape ==
    ASSUME NEW ms, Formed(ms), Len(ms) % 2 = 1, NEW a \in 1..Len(ms)+1,
           a <= Len(ms) => ResultIds(ms[a]) = {}
    PROVE  /\ EnforceAlternation(ms, From(a, Len(ms))) = From(Even(a), Len(ms))
           /\ Even(a) \in 2..Len(ms)+1 /\ Even(a) % 2 = 0
<1> DEFINE n == Len(ms)
           b == From(a, n)
           e == From(Even(a), n)
           S == {b, e}
           G == [q \in (1..n) \X S |-> Settled(ms, q[2])]
           Value(f, i) == IF i = 0 THEN b ELSE Settled(ms, f[i-1])
           settled == CHOOSE f : f = [i \in 0..n |-> Value(f, i)]
<1>1. n \in Nat /\ n > 0 /\ 1 \in 1..n
  BY FormedFacts
<1>2. Settled(ms, b) = e /\ Even(a) \in 2..n+1 /\ Even(a) % 2 = 0
  BY SettledShape
<1>3. Settled(ms, e) = e
  <2>1. \A i : i \notin Clashes(ms, e)
    BY <1>2, Neighbours
  <2> HIDE DEF e
  <2> QED
    BY <2>1 DEF Settled
<1> HIDE DEF b, e
<1>4. b \in S /\ G \in [(1..n) \X S -> S]
  BY <1>2, <1>3
<1>5. PICK p \in [0..n -> S] : p[0] = b /\ \A i \in 1..n : p[i] = G[<<i, p[i-1]>>]
  <2> HIDE DEF S, n, G, Value, settled
  <2>1. \E f \in [0..n -> S] : Follows(f, n, b, G)
    BY <1>1, <1>4, Recursion
  <2> QED
    BY <2>1 DEF Follows
<1>6. \A i \in 1..n : p[i] = Settled(ms, p[i-1])
  <2> HIDE DEF S
  <2> TAKE i \in 1..n
  <2>1. <<i, p[i-1]>> \in (1..n) \X S
    BY <1>1, <1>5
  <2> QED
    BY <1>5, <2>1
<1>7. p = [i \in 0..n |-> Value(p, i)]
  <2>1. ASSUME NEW i \in 0..n
        PROVE  p[i] = Value(p, i)
    <3>1. i # 0 => i \in 1..n
      BY <1>1
    <3> QED
      BY <1>5, <1>6, <3>1
  <2> HIDE DEF S, Value
  <2> QED
    BY <1>5, <2>1
<1>8. settled = [i \in 0..n |-> Value(settled, i)]
  BY <1>7
<1>9. EnforceAlternation(ms, b) = settled[n]
  BY DEF EnforceAlternation, settled
<1> HIDE DEF settled
<1>10. settled[0] = b /\ \A i \in 1..n : settled[i] = Settled(ms, settled[i-1])
  <2>1. 0 \in 0..n /\ \A i \in 1..n : i \in 0..n /\ i # 0
    BY <1>1
  <2> QED
    BY <1>8, <2>1
<1>11. \A i \in 0..n : i > 0 => settled[i] = e
  <2> DEFINE P == {i \in 0..n : i > 0 => settled[i] = e}
  <2>1. 0 \in P
    BY <1>1
  <2>2. ASSUME NEW i \in 0..n, i \in P, i < n
        PROVE  i + 1 \in P
    <3>1. i + 1 \in 1..n /\ i + 1 \in 0..n /\ (i + 1) - 1 = i /\ (i = 0 \/ i > 0)
      BY <1>1, <2>2
    <3>2. settled[i+1] = Settled(ms, settled[i])
      BY <1>10, <3>1
    <3>3. settled[i] = b \/ settled[i] = e
      BY <1>10, <2>2, <3>1
    <3> QED
      BY <1>2, <1>3, <3>1, <3>2, <3>3
  <2>3. \A i \in 0..n : i \in P
    <3> HIDE DEF P, n
    <3> QED
      BY <1>1, <2>1, <2>2, Induction
  <2> QED
    BY <2>3
<1>12. settled[n] = e
  BY <1>1, <1>11
<1> QED
  BY <1>2, <1>9, <1>12 DEF b, e

\* The first message and those from a on.
Thinned(ms, a) == [j \in 1..(Len(ms) - a + 2) |-> IF j = 1 THEN ms[1] ELSE ms[a + j - 2]]

LEMMA PickedFrom ==
    ASSUME NEW T, NEW s \in Seq(T), Len(s) > 0, NEW a \in 2..Len(s)+1
    PROVE  Picked(s, From(a, Len(s))) = Thinned(s, a)
<1> DEFINE n == Len(s)
           is == From(a, n)
           Size(i) == IF i = 0 THEN 0 ELSE IF i < a THEN 1 ELSE i - a + 2
           Same(u, i) == /\ Len(u) = Size(i)
                         /\ \A j \in 1..Size(i) : u[j] = IF j = 1 THEN s[1] ELSE s[a + j - 2]
<1>1. n \in Nat /\ \A i \in 1..n : s[i] \in T
  BY SeqFacts
<1>2. PICK p \in [0..n -> Seq(T)] : Picks(p, s, is) /\ Picked(s, is) = p[n]
  BY PickedSteps
<1>3. \A i \in 1..n : i \in is <=> i = 1 \/ i >= a
  BY <1>1 DEF From
<1> HIDE DEF is
<1>4. \A i \in 0..n : Same(p[i], i)
  <2> DEFINE P == {i \in 0..n : Same(p[i], i)}
  <2>1. 0 \in P
    <3>1. p[0] = << >> /\ Len(<< >>) = 0
      BY <1>2 DEF Picks
    <3> QED
      BY <1>1, <3>1
  <2>2. ASSUME NEW i \in 0..n, i \in P, i < n
        PROVE  i + 1 \in P
    <3>1. i + 1 \in 1..n /\ i + 1 \in 0..n /\ (i + 1) - 1 = i
      BY <1>1, <2>2
    <3>2. p[i] \in Seq(T) /\ s[i+1] \in T /\ Same(p[i], i)
      BY <1>1, <1>2, <2>2, <3>1
    <3>3. CASE i + 1 \in is
      <4>1. p[i+1] = Append(p[i], s[i+1])
        BY <1>2, <3>1, <3>3 DEF Picks
      <4>2. /\ Len(Append(p[i], s[i+1])) = Len(p[i]) + 1
            /\ \A j \in 1..Len(p[i]) : Append(p[i], s[i+1])[j] = p[i][j]
            /\ Append(p[i], s[i+1])[Len(p[i])+1] = s[i+1]
        BY <3>2, AppendProperties
      <4>3. i = 0 \/ i + 1 >= a
        BY <1>3, <3>1, <3>3
      <4>4. Size(i + 1) = Size(i) + 1 /\ Size(i) \in Nat
        BY <1>1, <4>3
      <4>5. i + 1 = IF Size(i + 1) = 1 THEN 1 ELSE a + Size(i + 1) - 2
        BY <1>1, <4>3
      <4> HIDE DEF Size
      <4>6. s[i+1] = IF Size(i + 1) = 1 THEN s[1] ELSE s[a + Size(i + 1) - 2]
        BY <4>5
      <4>7. \A j \in 1..Size(i+1) : j \in 1..Size(i) \/ j = Size(i + 1)
        BY <4>4
      <4>8. Same(p[i+1], i + 1)
        BY <3>2, <4>1, <4>2, <4>4, <4>6, <4>7
      <4> QED
        BY <3>1, <4>8
    <3>4. CASE i + 1 \notin is
      <4>1. p[i+1] = p[i]
        BY <1>2, <3>1, <3>4 DEF Picks
      <4>2. i # 0 /\ i + 1 < a
        BY <1>3, <3>1, <3>4
      <4>3. Size(i + 1) = Size(i)
        BY <1>1, <4>2
      <4> HIDE DEF Size
      <4> QED
        BY <3>1, <3>2, <4>1, <4>3
    <3> QED
      BY <3>3, <3>4
  <2>3. \A i \in 0..n : i \in P
    <3> HIDE DEF P, n
    <3> QED
      BY <1>1, <2>1, <2>2, Induction
  <2> QED
    BY <2>3
<1>5. Size(n) = n - a + 2
  BY <1>1
<1> DEFINE q == Picked(s, is)
           m == n - a + 2
<1>6. q \in Seq(T) /\ Len(q) = m /\ \A j \in 1..m : q[j] = IF j = 1 THEN s[1] ELSE s[a + j - 2]
  <2>1. Same(p[n], n) /\ n \in 0..n
    BY <1>1, <1>4
  <2> HIDE DEF is
  <2> QED
    BY <1>2, <1>5, <2>1
<1> HIDE DEF q
<1>7. q = [j \in 1..Len(q) |-> q[j]]
  BY <1>6, SeqFacts
<1>8. q = [j \in 1..m |-> IF j = 1 THEN s[1] ELSE s[a + j - 2]]
  BY <1>6, <1>7
<1> QED
  BY <1>8 DEF q, is, Thinned

LEMMA ThinnedFormed ==
    ASSUME NEW ms, Formed(ms), Len(ms) % 2 = 1, NEW a \in 2..Len(ms)+1, a % 2 = 0
    PROVE  /\ Formed(Thinned(ms, a)) /\ Len(Thinned(ms, a)) = Len(ms) - a + 2
           /\ Len(Thinned(ms, a)) % 2 = 1 /\ Thinned(ms, a)[1] = ms[1]
           /\ \A j \in 2..Len(Thinned(ms, a)) : /\ a + j - 2 \in 1..Len(ms)
                                                /\ Thinned(ms, a)[j] = ms[a + j - 2]
           /\ \A j \in 1..Len(Thinned(ms, a)) : \E i \in 1..Len(ms) : Thinned(ms, a)[j] = ms[i]
<1> DEFINE n == Len(ms)
           m == n - a + 2
           g == Thinned(ms, a)
           At(j) == IF j = 1 THEN 1 ELSE a + j - 2
<1>1. n \in Nat /\ m \in Nat /\ m >= 1 /\ m % 2 = 1
  <2>1. n \in Nat /\ n % 2 = 1
    BY FormedFacts
  <2> HIDE DEF n
  <2>2. a \in 2..n+1
    BY DEF n
  <2> QED
    BY <2>1, <2>2
<1>2. \A j \in 1..m : At(j) \in 1..n /\ At(j) % 2 = j % 2
  BY <1>1
<1>3. g = [j \in 1..m |-> g[j]] /\ \A j \in 1..m : g[j] = ms[At(j)]
  BY <1>1 DEF Thinned
<1> HIDE DEF g
<1>4. \A j \in 1..m : MessageAt(g[j], j)
  <2> TAKE j \in 1..m
  <2>1. MessageAt(ms[At(j)], At(j)) /\ g[j] = ms[At(j)]
    BY <1>2, <1>3, FormedFacts
  <2>2. At(j) % 2 = j % 2
    BY <1>2
  <2> HIDE DEF At
  <2> QED
    BY <2>1, <2>2 DEF MessageAt, RoleAt
<1>5. \A j \in 1..m : ResultIds(g[j]) = IF j = 1 THEN {} ELSE UseIds(g[j-1])
  <2> TAKE j \in 1..m
  <2>1. \A i \in 1..n : ResultIds(ms[i]) = IF i = 1 THEN {} ELSE UseIds(ms[i-1])
    BY DEF Formed, Answered
  <2>2. CASE j = 1
    <3>1. g[j] = ms[1] /\ 1 \in 1..n
      BY <1>1, <1>3, <2>2
    <3> QED
      BY <2>1, <2>2, <3>1
  <2>3. CASE j = 2
    <3>4. /\ 1 \in 1..m /\ 2 \in 1..m /\ At(1) = 1 /\ At(2) = a /\ j - 1 = 1
          /\ a \in 1..n /\ a # 1 /\ 1 \in 1..n
      BY <1>1, <2>3
    <3>1. g[j] = ms[a] /\ g[j-1] = ms[1] /\ a \in 1..n /\ a # 1 /\ 1 \in 1..n
      <4> HIDE DEF At, m, n
      <4> QED
        BY <1>3, <2>3, <3>4
    <3>2. ResultIds(ms[a]) = {}
      <4>1. ResultsOf(ms[a].c) = {}
        BY <3>1, NoResults
      <4> QED
        BY <4>1, IdsOf
    <3>3. UseIds(ms[1]) = {}
      <4>1. 1 % 2 = 1
        OBVIOUS
      <4> QED
        BY <3>1, <4>1, NoUses
    <3> QED
      BY <2>3, <3>1, <3>2, <3>3
  <2>4. CASE j > 2
    <3>1. /\ j - 1 \in 1..m /\ g[j] = ms[a + j - 2] /\ g[j-1] = ms[a + j - 3]
          /\ a + j - 2 \in 1..n /\ a + j - 2 # 1
      <4>1. /\ j - 1 \in 1..m /\ At(j) = a + j - 2 /\ At(j - 1) = a + j - 3
            /\ a + j - 2 \in 1..n /\ a + j - 2 # 1
        BY <1>1, <2>4
      <4> HIDE DEF At, m, n
      <4> QED
        BY <1>3, <4>1
    <3>2. (a + j - 2) - 1 = a + j - 3 /\ j # 1
      BY <2>4
    <3> QED
      BY <2>1, <3>1, <3>2
  <2> QED
    BY <1>1, <2>2, <2>3, <2>4
<1>6. \A i, j \in 1..m : \A x \in UsesIn(g[i].c), y \in UsesIn(g[j].c) :
          x.id = y.id => i = j /\ x = y
  <2> TAKE i, j \in 1..m
  <2> TAKE x \in UsesIn(g[i].c), y \in UsesIn(g[j].c)
  <2>1. At(i) \in 1..n /\ At(j) \in 1..n /\ x \in UsesIn(ms[At(i)].c) /\ y \in UsesIn(ms[At(j)].c)
    BY <1>2, <1>3
  <2>2. x.id = y.id => At(i) = At(j) /\ x = y
    <3> HIDE DEF At
    <3> QED
      BY <2>1 DEF Formed, Distinct
  <2>3. At(i) = At(j) => i = j
    BY <1>1
  <2> QED
    BY <2>2, <2>3
<1>7. Formed(g) /\ Len(g) = m
  <2> HIDE DEF m
  <2> QED
    BY <1>1, <1>3, <1>4, <1>5, <1>6, MadeFormed
<1>8. g[1] = ms[1] /\ \A j \in 2..m : g[j] = ms[a + j - 2] /\ a + j - 2 \in 1..n
  BY <1>1, <1>3, SMTT(30)
<1>9. \A j \in 1..m : \E i \in 1..n : g[j] = ms[i]
  BY <1>2, <1>3
<1> HIDE DEF n
<1> QED
  BY <1>1, <1>7, <1>8, <1>9 DEF n, g

\* What is dropped, and how much of the rest there is.
LEMMA DropShape ==
    ASSUME NEW ms, Formed(ms), Len(ms) % 2 = 1, NEW target
    PROVE  \E a \in 2..Len(ms)+1 :
              /\ a % 2 = 0
              /\ DropOldMessages(ms, target) = Thinned(ms, a)
              /\ MinRecent > 1 /\ Len(ms) > 1 => a <= Len(ms)
              /\ \/ Len(ms) - a + 2 <= MinRecent + 2
                 \/ \E is : From(a, Len(ms)) \subseteq is /\ TokensAt(ms, is) <= target
<1> DEFINE n == Len(ms)
<1>1. /\ n \in Nat /\ n > 0 /\ MinRecent \in Nat
      /\ ms \in Seq(Range(ms)) /\ ms = [i \in 1..n |-> ms[i]]
  BY FormedFacts, CompressionAssumption
<1>2. CASE n <= MinRecent
  <2>1. DropOldMessages(ms, target) = ms
    BY <1>2 DEF DropOldMessages
  <2>2. Thinned(ms, 2) = [i \in 1..n |-> ms[i]]
    <3>1. n - 2 + 2 = n /\ \A j \in 1..n : (IF j = 1 THEN ms[1] ELSE ms[2 + j - 2]) = ms[j]
      BY <1>1
    <3> HIDE DEF n
    <3> QED
      BY <3>1 DEF Thinned, n
  <2>3. 2 \in 2..n+1 /\ 2 % 2 = 0 /\ n - 2 + 2 <= MinRecent + 2 /\ (n > 1 => 2 <= n)
    BY <1>1, <1>2
  <2> QED
    BY <1>1, <2>1, <2>2, <2>3
<1>3. CASE n > MinRecent
  <2>1. PICK c \in 1..n+1 :
            /\ KeptIndices(ms, target) = From(c, n)
            /\ c <= n => ResultIds(ms[c]) = {}
            /\ n - c + 1 >= MinRecent
            /\ \/ TokensAt(ms, From(c, n)) <= target
               \/ Cardinality(From(c, n)) <= MinRecent + 2
    BY <1>3, KeptShape
  <2>2. /\ EnforceAlternation(ms, From(c, n)) = From(Even(c), n)
        /\ Even(c) \in 2..n+1 /\ Even(c) % 2 = 0
    <3>1. c \in 1..Len(ms)+1 /\ (c <= Len(ms) => ResultIds(ms[c]) = {})
      BY <2>1
    <3> QED
      BY <3>1, EnforcedShape
  <2>3. DropOldMessages(ms, target) = Picked(ms, From(Even(c), n))
    <3>1. ~(Len(ms) <= MinRecent)
      BY <1>1, <1>3
    <3>2. KeptIndices(ms, target) = From(c, n)
      BY <2>1
    <3> QED
      BY <2>2, <3>1, <3>2 DEF DropOldMessages
  <2>4. Picked(ms, From(Even(c), n)) = Thinned(ms, Even(c))
    BY <1>1, <2>2, PickedFrom
  <2>5. Even(c) \in {c, c + 1}
    BY DEF Even
  <2>12. n - c + 1 >= MinRecent /\ c \in 1..n+1
    BY <2>1
  <2>6. MinRecent > 1 => Even(c) <= n
    BY <1>1, <2>5, <2>12
  <2>7. From(Even(c), n) \subseteq From(c, n)
    BY <1>1, <2>5 DEF From
  <2>8. Cardinality(From(c, n)) = IF c = 1 THEN n ELSE n - c + 2
    BY <1>1, FromCardinality
  <2>9. n - Even(c) + 2 <= Cardinality(From(c, n))
    BY <1>1, <2>2, <2>5, <2>8 DEF Even
  <2>10. \/ n - Even(c) + 2 <= MinRecent + 2
         \/ \E is : From(Even(c), n) \subseteq is /\ TokensAt(ms, is) <= target
    <3>1. Cardinality(From(c, n)) \in Int /\ n - Even(c) + 2 \in Int
      BY <1>1, <2>2, <2>8
    <3>2. CASE TokensAt(ms, From(c, n)) <= target
      BY <2>7, <3>2
    <3>3. CASE Cardinality(From(c, n)) <= MinRecent + 2
      <4> DEFINE x == Cardinality(From(c, n))
                 y == n - Even(c) + 2
      <4>1. x \in Int /\ y \in Int /\ y <= x /\ x <= MinRecent + 2
        BY <2>9, <3>1, <3>3
      <4> HIDE DEF x, y
      <4>2. y <= MinRecent + 2
        BY <1>1, <4>1
      <4> QED
        BY <4>2 DEF y
    <3> QED
      BY <2>1, <3>2, <3>3
  <2> QED
    BY <2>2, <2>3, <2>4, <2>6, <2>10
<1> QED
  BY <1>1, <1>2, <1>3

-----------------------------------------------------------------------------
(* Compression as a whole. *)

Smaller(ms, model) ==
    IF OverTrigger(ms, model)
    THEN DropOldMessages(TruncateToolResults(DropOldImages(ms)), MessageTarget(model, IsFirst(ms)))
    ELSE ms

LEMMA CompressedIs ==
    ASSUME NEW ms, NEW model
    PROVE  Compressed(ms, model) = IF ImagesOf(ms) > MaxImages
                                   THEN ShrinkToByteBudget(Smaller(ms, model))
                                   ELSE Smaller(ms, model)
BY DEF Compressed, Smaller

\* A conversation that weighs too much, without old images and with its texts cut.
Trimmed(ms) == TruncateToolResults(DropOldImages(ms))

LEMMA TrimmedShape ==
    ASSUME NEW ms, Formed(ms)
    PROVE  Stripped(DropOldImages(ms), ms) /\ Cut(Trimmed(ms), DropOldImages(ms))
<1>1. Stripped(DropOldImages(ms), ms)
  BY DropOldImagesStripped
<1>2. Formed(DropOldImages(ms))
  BY <1>1 DEF Stripped
<1> QED
  BY <1>1, <1>2, TruncateCut DEF Trimmed

AllCut(ms) ==
    \A i \in 1..Len(ms) : \A b \in ResultsOf(ms[i].c) : b = [k |-> "result", id |-> b.id, big |-> FALSE]
Imageless(ms) == \A i \in 1..Len(ms) : NoImages(ms[i].c)

LEMMA StrippedFacts ==
    ASSUME NEW ms, Formed(ms), NEW g, Stripped(g, ms)
    PROVE  /\ Formed(g) /\ Len(g) = Len(ms)
           /\ \A p : Taken(ms, p) => Taken(g, p)
           /\ AllCut(ms) => AllCut(g)
           /\ Imageless(ms) => g = ms
           /\ Len(ms) > 0 => g[1] = ms[1]
<1>1. /\ Formed(g) /\ Len(g) = Len(ms)
      /\ \A p : Taken(ms, p) => Taken(g, p)
  BY DEF Stripped
<1>2. \A i \in 1..Len(ms) : Range(g[i].c) \subseteq Range(ms[i].c)
  BY DEF Stripped
<1>3. AllCut(ms) => AllCut(g)
  BY <1>1, <1>2 DEF AllCut, ResultsOf
<1>4. Imageless(ms) => g = ms
  <2> SUFFICES ASSUME Imageless(ms)
               PROVE  g = ms
    OBVIOUS
  <2>1. \A i \in 1..Len(ms) : g[i] = ms[i]
    BY DEF Stripped, Imageless
  <2>2. ms = [i \in 1..Len(ms) |-> ms[i]] /\ g = [i \in 1..Len(g) |-> g[i]]
    BY <1>1, FormedFacts
  <2> QED
    BY <1>1, <2>1, <2>2
<1>5. Len(ms) > 0 => g[1] = ms[1]
  <2>1. Len(ms) > 0 => 1 \in 1..Len(ms)
    BY FormedFacts
  <2> QED
    BY <2>1 DEF Stripped
<1> QED
  BY <1>1, <1>3, <1>4, <1>5

LEMMA CutFacts ==
    ASSUME NEW ms, Formed(ms), NEW g, Cut(g, ms)
    PROVE  /\ Formed(g) /\ Len(g) = Len(ms)
           /\ \A p : Taken(ms, p) => Taken(g, p)
           /\ AllCut(g)
           /\ Imageless(ms) => Imageless(g)
           /\ NoneEmpty(ms) => NoneEmpty(g)
           /\ Len(ms) > 0 => g[1] = ms[1]
<1>1. /\ Formed(g) /\ Len(g) = Len(ms)
      /\ \A p : Taken(ms, p) => Taken(g, p)
  BY DEF Cut
<1>2. AllCut(g)
  BY <1>1 DEF Cut, AllCut
<1>3. Len(ms) > 0 => g[1] = ms[1]
  <2>1. Len(ms) > 0 => 1 \in 1..Len(ms)
    BY FormedFacts
  <2> QED
    BY <2>1 DEF Cut
<1>4. \A i \in 1..Len(ms) : NoImages(ms[i].c) => NoImages(g[i].c)
  <2> TAKE i \in 1..Len(ms)
  <2>1. CASE i = 1 \/ i % 2 = 0
    BY <2>1 DEF Cut
  <2>2. CASE i > 1 /\ i % 2 = 1
    <3> DEFINE d == [j \in DOMAIN ms[i].c |-> CutBlock(ms[i].c[j])]
    <3>1. g[i] = Message(ms[i].role, d)
      BY <2>2 DEF Cut
    <3>2. Content(ms[i].c)
      BY FormedFacts
    <3>3. Range(d) = {CutBlock(b) : b \in Range(ms[i].c)}
      BY <3>2, CutContent
    <3>4. \A b \in Range(ms[i].c) : CutBlock(b).k = b.k
      BY <3>2, CutBlockFacts DEF Content
    <3> HIDE DEF d
    <3>5. g[i].c = d
      BY <3>1, MessageFacts
    <3> QED
      BY <3>3, <3>4, <3>5 DEF NoImages
  <2>3. i % 2 = 0 \/ i % 2 = 1
    BY FormedFacts
  <2> QED
    BY <2>1, <2>2, <2>3, FormedFacts
<1>5. Imageless(ms) => Imageless(g)
  BY <1>1, <1>4 DEF Imageless
<1>6. NoneEmpty(ms) => NoneEmpty(g)
  <2>1. \A i \in 1..Len(ms) : ms[i].c = << >> <=> Len(ms[i].c) = 0
    BY FormedFacts, ContentFacts
  <2>2. \A i \in 1..Len(g) : g[i].c = << >> <=> Len(g[i].c) = 0
    BY <1>1, FormedFacts, ContentFacts
  <2>3. \A i \in 1..Len(ms) : Len(g[i].c) = Len(ms[i].c)
    BY DEF Cut
  <2> QED
    BY <1>1, <2>1, <2>2, <2>3 DEF NoneEmpty
<1> QED
  BY <1>1, <1>2, <1>3, <1>5, <1>6

LEMMA SmallerShape ==
    ASSUME NEW ms, Formed(ms), Len(ms) % 2 = 1, NEW model, OverTrigger(ms, model)
    PROVE  \E a \in 2..Len(ms)+1 :
              /\ a % 2 = 0
              /\ Smaller(ms, model) = Thinned(Trimmed(ms), a)
              /\ MinRecent > 1 /\ Len(ms) > 1 => a <= Len(ms)
              /\ \/ Len(ms) - a + 2 <= MinRecent + 2
                 \/ \E is : /\ From(a, Len(ms)) \subseteq is
                            /\ TokensAt(Trimmed(ms), is) <= MessageTarget(model, IsFirst(ms))
<1> DEFINE t == Trimmed(ms)
           target == MessageTarget(model, IsFirst(ms))
<1>1. Stripped(DropOldImages(ms), ms) /\ Cut(t, DropOldImages(ms))
  BY TrimmedShape
<1>2. Formed(t) /\ Len(t) = Len(ms)
  BY <1>1 DEF Stripped, Cut
<1>3. Smaller(ms, model) = DropOldMessages(t, target)
  BY DEF Smaller, Trimmed
<1> HIDE DEF t, target
<1>4. \E a \in 2..Len(t)+1 :
         /\ a % 2 = 0
         /\ DropOldMessages(t, target) = Thinned(t, a)
         /\ MinRecent > 1 /\ Len(t) > 1 => a <= Len(t)
         /\ \/ Len(t) - a + 2 <= MinRecent + 2
            \/ \E is : From(a, Len(t)) \subseteq is /\ TokensAt(t, is) <= target
  BY <1>2, DropShape
<1> QED
  BY <1>2, <1>3, <1>4 DEF t, target

LEMMA SmallerFacts ==
    ASSUME NEW ms, Formed(ms), Len(ms) % 2 = 1, NEW model
    PROVE  /\ Formed(Smaller(ms, model)) /\ Len(Smaller(ms, model)) % 2 = 1
           /\ \A p : Taken(ms, p) => Taken(Smaller(ms, model), p)
           /\ OverTrigger(ms, model) => AllCut(Smaller(ms, model))
           /\ Imageless(ms) => Imageless(Smaller(ms, model))
           /\ Imageless(ms) /\ NoneEmpty(ms) => NoneEmpty(Smaller(ms, model))
           /\ Smaller(ms, model)[1] = ms[1]
<1>1. CASE ~OverTrigger(ms, model)
  <2>1. Smaller(ms, model) = ms
    BY <1>1 DEF Smaller
  <2> QED
    BY <1>1, <2>1
<1>2. CASE OverTrigger(ms, model)
  <2> DEFINE d == DropOldImages(ms)
             t == Trimmed(ms)
  <2>1. Len(ms) > 0
    BY FormedFacts
  <2>2. Stripped(d, ms) /\ Cut(t, d)
    BY TrimmedShape
  <2>3. PICK a \in 2..Len(ms)+1 : a % 2 = 0 /\ Smaller(ms, model) = Thinned(t, a)
    BY <1>2, SmallerShape
  <2> HIDE DEF d, t
  <2>4. /\ Formed(d) /\ Len(d) = Len(ms)
        /\ \A p : Taken(ms, p) => Taken(d, p)
        /\ Imageless(ms) => d = ms
        /\ d[1] = ms[1]
    BY <2>1, <2>2, StrippedFacts
  <2>5. /\ Formed(t) /\ Len(t) = Len(ms)
        /\ \A p : Taken(d, p) => Taken(t, p)
        /\ AllCut(t)
        /\ Imageless(d) => Imageless(t)
        /\ NoneEmpty(d) => NoneEmpty(t)
        /\ t[1] = d[1]
    BY <2>1, <2>2, <2>4, CutFacts
  <2> DEFINE g == Thinned(t, a)
  <2>6. /\ Formed(g) /\ Len(g) % 2 = 1 /\ g[1] = t[1]
        /\ \A j \in 1..Len(g) : \E i \in 1..Len(t) : g[j] = t[i]
    BY <2>3, <2>5, ThinnedFormed
  <2> HIDE DEF g
  <2>7. \A p : Taken(t, p) => Taken(g, p)
    BY <2>6 DEF Taken
  <2>8. AllCut(g)
    BY <2>5, <2>6 DEF AllCut
  <2>9. Imageless(t) => Imageless(g)
    BY <2>6 DEF Imageless
  <2>10. NoneEmpty(t) => NoneEmpty(g)
    BY <2>6 DEF NoneEmpty
  <2>11. Smaller(ms, model) = g
    BY <2>3 DEF g
  <2> QED
    BY <2>4, <2>5, <2>6, <2>7, <2>8, <2>9, <2>10, <2>11
<1> QED
  BY <1>1, <1>2

LEMMA CompressedShape ==
    ASSUME NEW ms, Formed(ms), Len(ms) % 2 = 1, NEW model
    PROVE  Stripped(Compressed(ms, model), Smaller(ms, model))
<1>1. Formed(Smaller(ms, model))
  BY SmallerFacts
<1>2. CASE ImagesOf(ms) > MaxImages
  BY <1>1, <1>2, CompressedIs, ShrinkStripped
<1>3. CASE ~(ImagesOf(ms) > MaxImages)
  BY <1>1, <1>3, CompressedIs, SameIsStripped
<1> QED
  BY <1>2, <1>3

\* What compression keeps of the form of a conversation.
LEMMA CompressedFacts ==
    ASSUME NEW ms, Formed(ms), Len(ms) % 2 = 1, NEW model
    PROVE  /\ Formed(Compressed(ms, model)) /\ Len(Compressed(ms, model)) % 2 = 1
           /\ \A p : Taken(ms, p) => Taken(Compressed(ms, model), p)
           /\ OverTrigger(ms, model) => AllCut(Compressed(ms, model))
           /\ Imageless(ms) => Imageless(Compressed(ms, model))
           /\ Imageless(ms) /\ NoneEmpty(ms) => NoneEmpty(Compressed(ms, model))
           /\ Compressed(ms, model)[1] = ms[1]
           /\ ~OverTrigger(ms, model) => Len(Compressed(ms, model)) = Len(ms)
<1> DEFINE s == Smaller(ms, model)
           g == Compressed(ms, model)
<1>1. /\ Formed(s) /\ Len(s) % 2 = 1
      /\ \A p : Taken(ms, p) => Taken(s, p)
      /\ OverTrigger(ms, model) => AllCut(s)
      /\ Imageless(ms) => Imageless(s)
      /\ Imageless(ms) /\ NoneEmpty(ms) => NoneEmpty(s)
      /\ s[1] = ms[1]
  BY SmallerFacts
<1>2. Stripped(g, s)
  BY CompressedShape
<1>3. ~OverTrigger(ms, model) => s = ms
  BY DEF Smaller
<1> HIDE DEF s, g
<1>4. Len(s) > 0
  BY <1>1, FormedFacts
<1>5. /\ Formed(g) /\ Len(g) = Len(s)
      /\ \A p : Taken(s, p) => Taken(g, p)
      /\ AllCut(s) => AllCut(g)
      /\ Imageless(s) => g = s
      /\ g[1] = s[1]
  BY <1>1, <1>2, <1>4, StrippedFacts
<1> QED
  BY <1>1, <1>3, <1>5 DEF g

\* A message without content is what compression leaves of one with images only.
OnlyImages(c) == \A b \in Range(c) : b.k = "image"

LEMMA StrippedOnlyImages ==
    ASSUME NEW ms, Formed(ms), NEW g, Stripped(g, ms), NEW i \in 1..Len(ms), OnlyImages(g[i].c)
    PROVE  OnlyImages(ms[i].c) /\ g[i].role = ms[i].role
<1>1. g[i] = ms[i] \/ g[i] = WithoutImages(ms[i])
  BY DEF Stripped
<1>2. CASE g[i] = ms[i]
  BY <1>2
<1>3. CASE g[i] = WithoutImages(ms[i])
  <2> DEFINE r == RoleAt(i)
             c == ms[i].c
             d == WithoutImages(Message(r, c)).c
  <2>1. ms[i] = Message(r, c) /\ Content(c)
    BY FormedFacts DEF MessageAt
  <2>2. ms[i].role = r
    BY <2>1, MessageFacts
  <2> HIDE DEF r, c
  <2>3. g[i] = Message(r, d) /\ Range(d) = {b \in Range(c) : b.k # "image"}
    BY <1>3, <2>1, WithoutImagesMessage
  <2> HIDE DEF d
  <2>4. g[i].c = d /\ g[i].role = r
    BY <2>3, MessageFacts
  <2>5. OnlyImages(c)
    BY <2>3, <2>4 DEF OnlyImages
  <2> QED
    BY <2>2, <2>4, <2>5 DEF c
<1> QED
  BY <1>1, <1>2, <1>3

LEMMA CutOnlyImages ==
    ASSUME NEW ms, Formed(ms), NEW g, Cut(g, ms), NEW i \in 1..Len(ms), OnlyImages(g[i].c)
    PROVE  OnlyImages(ms[i].c) /\ g[i].role = ms[i].role
<1>1. CASE i = 1 \/ i % 2 = 0
  <2>1. g[i] = ms[i]
    BY <1>1 DEF Cut
  <2> QED
    BY <2>1
<1>2. CASE i > 1 /\ i % 2 = 1
  <2> DEFINE d == [j \in DOMAIN ms[i].c |-> CutBlock(ms[i].c[j])]
  <2>1. g[i] = Message(ms[i].role, d)
    BY <1>2 DEF Cut
  <2>2. Content(ms[i].c)
    BY FormedFacts
  <2>3. Range(d) = {CutBlock(b) : b \in Range(ms[i].c)}
    BY <2>2, CutContent
  <2>4. \A b \in Range(ms[i].c) : CutBlock(b).k = b.k
    BY <2>2, CutBlockFacts DEF Content
  <2> HIDE DEF d
  <2>5. g[i].c = d /\ g[i].role = ms[i].role
    BY <2>1, MessageFacts
  <2> QED
    BY <2>3, <2>4, <2>5 DEF OnlyImages
<1>3. i % 2 = 0 \/ i % 2 = 1
  BY FormedFacts
<1> QED
  BY <1>1, <1>2, <1>3, FormedFacts

LEMMA SmallerOnlyImages ==
    ASSUME NEW ms, Formed(ms), Len(ms) % 2 = 1, NEW model,
           NEW i \in 1..Len(Smaller(ms, model)), OnlyImages(Smaller(ms, model)[i].c)
    PROVE  \E j \in 1..Len(ms) : OnlyImages(ms[j].c) /\ Smaller(ms, model)[i].role = ms[j].role
<1>1. CASE ~OverTrigger(ms, model)
  <2>1. Smaller(ms, model) = ms
    BY <1>1 DEF Smaller
  <2> QED
    BY <2>1
<1>2. CASE OverTrigger(ms, model)
  <2> DEFINE d == DropOldImages(ms)
             t == Trimmed(ms)
  <2>1. Stripped(d, ms) /\ Cut(t, d)
    BY TrimmedShape
  <2>2. PICK a \in 2..Len(ms)+1 : a % 2 = 0 /\ Smaller(ms, model) = Thinned(t, a)
    BY <1>2, SmallerShape
  <2> HIDE DEF d, t
  <2>3. Formed(d) /\ Len(d) = Len(ms) /\ Formed(t) /\ Len(t) = Len(ms)
    BY <2>1 DEF Stripped, Cut
  <2> DEFINE g == Thinned(t, a)
  <2>4. \A j \in 1..Len(g) : \E k \in 1..Len(t) : g[j] = t[k]
    BY <2>2, <2>3, ThinnedFormed
  <2> HIDE DEF g
  <2>5. g = Smaller(ms, model)
    BY <2>2 DEF g
  <2>6. PICK k \in 1..Len(ms) : Smaller(ms, model)[i] = t[k]
    BY <2>3, <2>4, <2>5
  <2>7. OnlyImages(d[k].c) /\ t[k].role = d[k].role
    BY <2>1, <2>3, <2>6, CutOnlyImages
  <2>8. OnlyImages(ms[k].c) /\ d[k].role = ms[k].role
    BY <2>1, <2>7, StrippedOnlyImages
  <2> QED
    BY <2>6, <2>7, <2>8
<1> QED
  BY <1>1, <1>2

LEMMA EmptiedByCompression ==
    ASSUME NEW ms, Formed(ms), Len(ms) % 2 = 1, NEW model,
           NEW i \in 1..Len(Compressed(ms, model)), Compressed(ms, model)[i].c = << >>
    PROVE  \E j \in 1..Len(ms) :
              OnlyImages(ms[j].c) /\ Compressed(ms, model)[i] = WithoutImages(ms[j])
<1> DEFINE s == Smaller(ms, model)
           g == Compressed(ms, model)
<1>1. Formed(s) /\ Stripped(g, s)
  BY SmallerFacts, CompressedShape
<1>2. \A j \in 1..Len(s) : OnlyImages(s[j].c) =>
         \E k \in 1..Len(ms) : OnlyImages(ms[k].c) /\ s[j].role = ms[k].role
  BY SmallerOnlyImages
<1> HIDE DEF s, g
<1>3. Formed(g) /\ Len(g) = Len(s) /\ i \in 1..Len(s) /\ g[i].c = << >>
  BY <1>1 DEF Stripped, g
<1>4. Range(<< >>) = {}
  BY DEF Range
<1>5. OnlyImages(g[i].c)
  BY <1>3, <1>4 DEF OnlyImages
<1>6. OnlyImages(s[i].c) /\ g[i].role = s[i].role
  BY <1>1, <1>3, <1>5, StrippedOnlyImages
<1>7. PICK k \in 1..Len(ms) : OnlyImages(ms[k].c) /\ s[i].role = ms[k].role
  BY <1>2, <1>3, <1>6
<1> DEFINE r == ms[k].role
           c == ms[k].c
           d == WithoutImages(Message(r, c)).c
<1>8. ms[k] = Message(r, c) /\ Content(c)
  BY FormedFacts, MessageFacts DEF MessageAt
<1>9. g[i] = Message(r, << >>)
  <2>1. MessageAt(g[i], i)
    BY <1>3, FormedFacts
  <2>2. g[i] = Message(RoleAt(i), g[i].c)
    BY <2>1 DEF MessageAt
  <2>3. g[i].role = RoleAt(i)
    BY <2>2, MessageFacts
  <2> QED
    BY <1>3, <1>6, <1>7, <2>2, <2>3
<1> HIDE DEF r, c
<1>10. /\ WithoutImages(Message(r, c)) = Message(r, d) /\ Lighter(d, c)
       /\ Range(d) = {b \in Range(c) : b.k # "image"}
  BY <1>8, WithoutImagesMessage
<1> HIDE DEF d
<1>11. Range(d) = {}
  BY <1>7, <1>10 DEF OnlyImages, c
<1>12. d = << >>
  <2>1. Content(d)
    BY <1>10 DEF Lighter
  <2>2. Len(d) \in Nat /\ \A j \in 1..Len(d) : d[j] \in Range(d)
    BY <2>1, ContentFacts
  <2>3. ~(1 \in 1..Len(d))
    BY <1>11, <2>2
  <2>4. Len(d) = 0
    BY <2>2, <2>3
  <2> QED
    BY <2>1, <2>4, ContentFacts
<1> QED
  BY <1>7, <1>8, <1>9, <1>10, <1>12 DEF g

-----------------------------------------------------------------------------
(* What models write and the gateway makes of it. *)

\* The content of an assistant's message, before its calls are numbered.
Body(c) == Content(c) /\ \A b \in Range(c) : b.k \notin {"image", "result"}

LEMMA MadeBody ==
    ASSUME NEW n \in Nat, NEW f, f = [i \in 1..n |-> f[i]],
           \A i \in 1..n : OkBlock(f[i]) /\ f[i].k \notin {"image", "result"}
    PROVE  Body(f) /\ Len(f) = n
<1>1. Content(f) /\ Len(f) = n /\ Range(f) = {f[i] : i \in 1..n}
  BY MadeContent
<1> QED
  BY <1>1 DEF Body

LEMMA BodyFacts ==
    ASSUME NEW c, Body(c)
    PROVE  /\ Content(c) /\ Len(c) \in Nat /\ DOMAIN c = 1..Len(c)
           /\ c = [i \in 1..Len(c) |-> c[i]]
           /\ \A i \in 1..Len(c) : OkBlock(c[i]) /\ c[i].k \notin {"image", "result"}
BY ContentFacts DEF Body

LEMMA OneBlockBody ==
    ASSUME NEW b, OkBlock(b), b.k \notin {"image", "result"}
    PROVE  Body(<<b>>)
BY OneBlock DEF Body

LEMMA EmptyBody == Body(<< >>)
BY NoBlock DEF Body

LEMMA UseIsOk ==
    \A tool, step : /\ OkBlock(Use(tool, step, TRUE))
                    /\ Use(tool, step, TRUE).k = "use"
BY DEF OkBlock, Use

LEMMA TextIsBody ==
    \A t : OkBlock(Text(t)) /\ Text(t).k = "text"
BY DEF OkBlock, Text

LEMMA CallsBody ==
    ASSUME NEW n \in Nat, NEW f, DOMAIN f = 1..n
    PROVE  Body(CallsOf(f))
<1> DEFINE g == CallsOf(f)
<1>1. g = [i \in 1..n |-> g[i]] /\ \A i \in 1..n : g[i] = Use(f[i].tool, f[i].step, TRUE)
  BY DEF CallsOf
<1>2. \A i \in 1..n : OkBlock(g[i]) /\ g[i].k \notin {"image", "result"}
  BY <1>1, UseIsOk
<1> HIDE DEF g
<1> QED
  BY <1>1, <1>2, MadeBody DEF g

\* There are as many calls as marks that are recognised.
LEMMA ExtractedDomain ==
    ASSUME NEW t, NEW req
    PROVE  \E n \in Nat : /\ DOMAIN Extracted(t, req) = 1..n
                          /\ Extracted(t, req) = [i \in 1..n |-> Extracted(t, req)[i]]
<1> DEFINE found == {m \in AllMarks : m \in Marks[t] /\ Recognised(m, req)}
<1>1. IsFiniteSet(found)
  BY MarksAssumption, FS_Subset
<1>2. Cardinality(found) \in Nat
  BY <1>1, FS_CardinalityType
<1>3. /\ DOMAIN Extracted(t, req) = 1..Cardinality(found)
      /\ Extracted(t, req) = [i \in 1..Cardinality(found) |-> Extracted(t, req)[i]]
  BY DEF Extracted
<1> QED
  BY <1>2, <1>3

LEMMA ExtractedBody ==
    ASSUME NEW t, NEW req
    PROVE  Body(CallsOf(Extracted(t, req)))
BY ExtractedDomain, CallsBody

\* Those that do not overlap are again a sequence.
LEMMA NonOverlappingDomain ==
    ASSUME NEW k \in Nat, NEW found, found = [i \in 1..k |-> found[i]]
    PROVE  \E n \in Nat : DOMAIN NonOverlapping(found) = 1..n
<1> DEFINE marks == Range(found)
           n == Cardinality(marks)
           At(i) == Nth(marks, i, Before)
           T == {At(i) : i \in 1..n}
           S == Seq(T)
           take(taken, m) == IF taken = << >> \/ m.from >= Last(taken).to
                             THEN Append(taken, m) ELSE taken
           b == << >>
           G == [q \in (1..n) \X S |-> take(q[2], At(q[1]))]
           Value(f, i) == IF i = 0 THEN b ELSE take(f[i-1], At(i))
           taken == CHOOSE f : f = [i \in 0..n |-> Value(f, i)]
<1>1. n \in Nat
  <2>1. IsFiniteSet(1..k)
    BY FS_Interval
  <2>2. found \in Surjection(1..k, marks)
    <3>1. marks = {found[i] : i \in 1..k}
      BY DEF Range
    <3> HIDE DEF marks
    <3> QED
      BY <3>1 DEF Surjection
  <2>3. IsFiniteSet(marks)
    BY <2>1, <2>2, FS_Surjection
  <2> QED
    BY <2>3, FS_CardinalityType
<1> HIDE DEF marks, n, At
<1>2. b \in S
  BY EmptySeq
<1>3. G \in [(1..n) \X S -> S]
  <2>1. ASSUME NEW i \in 1..n, NEW u \in S
        PROVE  take(u, At(i)) \in S
    <3>1. At(i) \in T
      OBVIOUS
    <3> HIDE DEF T
    <3>2. Append(u, At(i)) \in S
      BY <3>1, AppendProperties
    <3> QED
      BY <3>2
  <2> HIDE DEF S, take
  <2> QED
    BY <2>1
<1>4. PICK p \in [0..n -> S] : p[0] = b /\ \A i \in 1..n : p[i] = G[<<i, p[i-1]>>]
  <2> HIDE DEF S, G, Value, taken, b
  <2>1. \E f \in [0..n -> S] : Follows(f, n, b, G)
    BY <1>1, <1>2, <1>3, Recursion
  <2> QED
    BY <2>1 DEF Follows
<1>5. \A i \in 1..n : p[i] = take(p[i-1], At(i))
  <2> HIDE DEF S, take
  <2> TAKE i \in 1..n
  <2>1. <<i, p[i-1]>> \in (1..n) \X S
    BY <1>1, <1>4
  <2> QED
    BY <1>4, <2>1
<1>6. p = [i \in 0..n |-> Value(p, i)]
  <2>1. ASSUME NEW i \in 0..n
        PROVE  p[i] = Value(p, i)
    <3>1. i # 0 => i \in 1..n
      BY <1>1
    <3> HIDE DEF take
    <3> QED
      BY <1>4, <1>5, <3>1
  <2> HIDE DEF S, Value
  <2> QED
    BY <1>4, <2>1
<1>7. taken = [i \in 0..n |-> Value(taken, i)]
  BY <1>6
<1>8. NonOverlapping(found) = taken[n]
  BY DEF NonOverlapping, taken, n, marks, At
<1> HIDE DEF taken, take
<1>9. taken[0] = b /\ \A i \in 1..n : taken[i] = take(taken[i-1], At(i))
  <2>1. 0 \in 0..n /\ \A i \in 1..n : i \in 0..n /\ i # 0
    BY <1>1
  <2> QED
    BY <1>7, <2>1
<1>10. \A i \in 0..n : taken[i] \in S
  <2> DEFINE P == {i \in 0..n : taken[i] \in S}
  <2> HIDE DEF S
  <2>1. 0 \in P
    BY <1>1, <1>2, <1>9
  <2>2. ASSUME NEW i \in 0..n, i \in P, i < n
        PROVE  i + 1 \in P
    <3>1. i + 1 \in 1..n /\ i + 1 \in 0..n /\ (i + 1) - 1 = i
      BY <1>1, <2>2
    <3>2. taken[i+1] = take(taken[i], At(i+1))
      BY <1>9, <3>1
    <3>3. <<i + 1, taken[i]>> \in (1..n) \X S
      BY <2>2, <3>1
    <3>4. G[<<i + 1, taken[i]>>] = take(taken[i], At(i+1))
      BY <3>3
    <3>5. G[<<i + 1, taken[i]>>] \in S
      <4> HIDE DEF G
      <4> QED
        BY <1>3, <3>3
    <3> QED
      BY <3>1, <3>2, <3>4, <3>5
  <2>3. \A i \in 0..n : i \in P
    <3> HIDE DEF P
    <3> QED
      BY <1>1, <2>1, <2>2, Induction
  <2> QED
    BY <2>3
<1>11. NonOverlapping(found) \in S
  BY <1>1, <1>8, <1>10
<1> HIDE DEF T
<1> QED
  BY <1>11, LenProperties

LEMMA JoinedBody ==
    ASSUME NEW c, NEW d, Body(c), Body(d)
    PROVE  Body(c \o d)
<1> DEFINE T == Range(c) \cup Range(d)
           e == c \o d
<1>1. c \in Seq(T) /\ d \in Seq(T)
  BY SeqOfRange DEF Body, Content
<1>2. \A b \in T : OkBlock(b) /\ b.k \notin {"image", "result"}
  BY DEF Body, Content
<1> HIDE DEF T
<1>3. e \in Seq(T)
  BY <1>1, ConcatProperties
<1> HIDE DEF e
<1>4. e \in Seq(Range(e)) /\ Range(e) \subseteq T
  BY <1>3, SeqFacts
<1>5. Body(e)
  BY <1>2, <1>4 DEF Body, Content
<1> QED
  BY <1>5 DEF e

\* Calls that stand in the text of a reply take its place.
LEMMA NativeCallsBody ==
    ASSUME NEW c, Body(c), NEW req
    PROVE  Body(NativeCalls(c, req))
<1> DEFINE texts == KindsOf(c, "text")
           found == IF texts = << >> THEN << >> ELSE Extracted(texts[1], req)
           rest == Picked(c, {i \in DOMAIN c : c[i].k # "text"})
<1>1. NativeCalls(c, req) = IF found = << >> THEN c ELSE rest \o CallsOf(NonOverlapping(found))
  BY DEF NativeCalls
<1>2. found = << >> \/ found = Extracted(texts[1], req)
  OBVIOUS
<1>3. Body(rest)
  <2> DEFINE is == {i \in DOMAIN c : c[i].k # "text"}
  <2>1. /\ Content(c) /\ DOMAIN c = 1..Len(c)
        /\ \A i \in 1..Len(c) : OkBlock(c[i]) /\ c[i].k \notin {"image", "result"}
    BY BodyFacts
  <2> HIDE DEF is
  <2>2. Content(Picked(c, is)) /\ Range(Picked(c, is)) = {c[i] : i \in is \cap 1..Len(c)}
    BY <2>1, PickedContent
  <2>3. Body(Picked(c, is))
    BY <2>1, <2>2 DEF Body
  <2> QED
    BY <2>3 DEF is
<1> HIDE DEF rest, texts, found
<1>4. CASE found = << >>
  BY <1>1, <1>4
<1>5. CASE found # << >>
  <2>1. found = Extracted(texts[1], req)
    BY <1>2, <1>5
  <2>2. PICK k \in Nat : found = [i \in 1..k |-> found[i]]
    BY <2>1, ExtractedDomain
  <2>3. PICK n \in Nat : DOMAIN NonOverlapping(found) = 1..n
    BY <2>2, NonOverlappingDomain
  <2>4. Body(CallsOf(NonOverlapping(found)))
    BY <2>3, CallsBody
  <2>5. Body(rest \o CallsOf(NonOverlapping(found)))
    BY <1>3, <2>4, JoinedBody
  <2> QED
    BY <1>1, <1>5, <2>5
<1> QED
  BY <1>4, <1>5

LEMMA MadeBodies ==
    ASSUME NEW req
    PROVE  /\ Body(<<PlannedCall(req)>>) /\ Body(<<Use("Agent", 0, TRUE)>>)
           /\ Body(<<Use("Bash", 0, TRUE)>>) /\ Body(<<Text("final")>>) /\ Body(NoMessage)
           /\ OkBlock(PlannedCall(req)) /\ PlannedCall(req).k = "use"
           /\ OkBlock(Note) /\ Note.k = "text"
<1>1. OkBlock(PlannedCall(req)) /\ PlannedCall(req).k = "use"
  BY UseIsOk DEF PlannedCall
<1>2. OkBlock(Note) /\ Note.k = "text"
  BY TextIsBody DEF Note
<1>3. Body(<<PlannedCall(req)>>)
  BY <1>1, OneBlockBody
<1>4. Body(<<Use("Agent", 0, TRUE)>>) /\ Body(<<Use("Bash", 0, TRUE)>>)
  BY UseIsOk, OneBlockBody
<1>5. Body(<<Text("final")>>)
  BY TextIsBody, OneBlockBody
<1>6. Body(NoMessage)
  BY EmptyBody DEF NoMessage
<1> QED
  BY <1>1, <1>2, <1>3, <1>4, <1>5, <1>6

LEMMA TextRecord ==
    \A k, t, big, u : [[k |-> k, t |-> t, big |-> big] EXCEPT !.t = u]
                       = [k |-> k, t |-> u, big |-> big]
OBVIOUS

\* A reply that came whole, before what may not be shown or run is taken out.
Rewritten(c, req) ==
    RewrittenCall(TextCommand(PlannedFinal(PlannedAgent(PlannedRead(NativeCalls(c, req),
        req), req), req), req), req)

LEMMA RewrittenBody ==
    ASSUME NEW c, Body(c), NEW req
    PROVE  Body(Rewritten(c, req))
<1> DEFINE native == NativeCalls(c, req)
           read == PlannedRead(native, req)
           agent == PlannedAgent(read, req)
           final == PlannedFinal(agent, req)
           texts == TextCommand(final, req)
           new == RewrittenCall(texts, req)
<1>1. Body(native)
  BY NativeCallsBody
<1> HIDE DEF native
<1>2. Body(read)
  BY <1>1, MadeBodies DEF PlannedRead
<1> HIDE DEF read
<1>3. Body(agent)
  BY <1>2, MadeBodies DEF PlannedAgent
<1> HIDE DEF agent
<1>4. Body(final)
  BY <1>3, MadeBodies DEF PlannedFinal
<1> HIDE DEF final
<1>5. Body(texts)
  BY <1>4, MadeBodies DEF TextCommand
<1> HIDE DEF texts
<1>6. Body(new)
  <2> DEFINE g == [i \in DOMAIN texts |->
                      IF texts[i].k = "use" /\ ~AsPlanned(texts[i], req)
                      THEN PlannedCall(req) ELSE texts[i]]
  <2>1. new = g \/ new = texts
    BY DEF RewrittenCall
  <2>2. /\ Len(texts) \in Nat /\ DOMAIN texts = 1..Len(texts)
        /\ \A i \in 1..Len(texts) : OkBlock(texts[i]) /\ texts[i].k \notin {"image", "result"}
    BY <1>5, BodyFacts
  <2>3. /\ g = [i \in 1..Len(texts) |-> g[i]]
        /\ \A i \in 1..Len(texts) : g[i] = texts[i] \/ g[i] = PlannedCall(req)
    BY <2>2
  <2> HIDE DEF g, new
  <2>4. \A i \in 1..Len(texts) : OkBlock(g[i]) /\ g[i].k \notin {"image", "result"}
    BY <2>2, <2>3, MadeBodies
  <2>5. Body(g)
    BY <2>2, <2>3, <2>4, MadeBody
  <2> QED
    BY <1>5, <2>1, <2>5
<1> QED
  BY <1>6 DEF Rewritten, new, texts, final, agent, read, native

\* What the hooks make of a reply that came whole can be a message.
LEMMA RepairedReplyBody ==
    ASSUME NEW c, Body(c), NEW req
    PROVE  Body(RepairedReply(c, req))
<1> DEFINE new == Rewritten(c, req)
           shown == WithoutThinkTags(new)
           whole == WithoutMalformed(shown)
<1>1. Body(new)
  BY RewrittenBody
<1> HIDE DEF new
<1>2. Body(shown)
  <2> DEFINE Tagged(b) == b.k = "text" /\ b.t = "tagged"
             Plain(b) == [b EXCEPT !.t = "prose"]
             g == [i \in DOMAIN new |-> IF Tagged(new[i]) THEN Plain(new[i]) ELSE new[i]]
  <2>1. shown = g
    BY DEF WithoutThinkTags
  <2>2. /\ Len(new) \in Nat /\ DOMAIN new = 1..Len(new)
        /\ \A i \in 1..Len(new) : OkBlock(new[i]) /\ new[i].k \notin {"image", "result"}
    BY <1>1, BodyFacts
  <2>3. /\ g = [i \in 1..Len(new) |-> g[i]]
        /\ \A i \in 1..Len(new) : g[i] = new[i] \/ (new[i].k = "text" /\ g[i] = Plain(new[i]))
    BY <2>2
  <2>4. ASSUME NEW b, OkBlock(b), b.k = "text"
        PROVE  OkBlock(Plain(b)) /\ Plain(b).k = "text"
    <3> DEFINE x == "text"
               u == "prose"
               d == [k |-> x, t |-> u, big |-> b.big]
    <3>1. b = [k |-> x, t |-> b.t, big |-> b.big]
      BY <2>4 DEF OkBlock
    <3>2. Plain(b) = [b EXCEPT !.t = u]
      OBVIOUS
    <3>3. OkBlock(d) /\ d.k = "text"
      BY DEF OkBlock
    <3> HIDE DEF x, u, Plain
    <3>4. Plain(b) = d
      BY <3>1, <3>2, TextRecord
    <3> QED
      BY <3>3, <3>4
  <2> HIDE DEF g, Plain, shown
  <2>5. \A i \in 1..Len(new) : OkBlock(g[i]) /\ g[i].k \notin {"image", "result"}
    <3> TAKE i \in 1..Len(new)
    <3>1. CASE g[i] = new[i]
      BY <2>2, <3>1
    <3>2. CASE new[i].k = "text" /\ g[i] = Plain(new[i])
      BY <2>2, <2>4, <3>2
    <3> QED
      BY <2>3, <3>1, <3>2
  <2>6. Body(g)
    BY <2>2, <2>3, <2>5, MadeBody
  <2> QED
    BY <2>1, <2>6
<1> HIDE DEF shown
<1>3. Body(whole)
  <2> DEFINE g == [i \in DOMAIN shown |->
                      IF shown[i].k = "use" /\ ~shown[i].good THEN Note ELSE shown[i]]
  <2>1. whole = g
    BY DEF WithoutMalformed
  <2>2. /\ Len(shown) \in Nat /\ DOMAIN shown = 1..Len(shown)
        /\ \A i \in 1..Len(shown) : OkBlock(shown[i]) /\ shown[i].k \notin {"image", "result"}
    BY <1>2, BodyFacts
  <2>3. /\ g = [i \in 1..Len(shown) |-> g[i]]
        /\ \A i \in 1..Len(shown) : g[i] = shown[i] \/ g[i] = Note
    BY <2>2
  <2> HIDE DEF g
  <2>4. \A i \in 1..Len(shown) : OkBlock(g[i]) /\ g[i].k \notin {"image", "result"}
    BY <2>2, <2>3, MadeBodies
  <2>5. Body(g)
    BY <2>2, <2>3, <2>4, MadeBody
  <2> QED
    BY <2>1, <2>5
<1>4. RepairedReply(c, req) = whole
  BY DEF RepairedReply, Rewritten, whole, shown, new
<1> HIDE DEF whole
<1> QED
  BY <1>3, <1>4

\* The first answer is one of those that were asked for.
LEMMA FirstOfBody ==
    ASSUME NEW n \in Nat, NEW bodies, DOMAIN bodies = 1..n, \A i \in 1..n : Body(bodies[i])
    PROVE  Body(FirstOf(bodies))
<1> DEFINE some == {i \in DOMAIN bodies : bodies[i] # NoMessage}
<1>1. FirstOf(bodies) = IF some = {} THEN NoMessage ELSE bodies[Min(some)]
  BY DEF FirstOf
<1>2. some \subseteq Nat /\ some \subseteq 1..n
  OBVIOUS
<1> HIDE DEF some
<1>3. some # {} => Min(some) \in some
  <2> SUFFICES ASSUME some # {}
               PROVE  Min(some) \in some
    OBVIOUS
  <2>1. \E x \in some : \A y \in some : x <= y
    BY <1>2, Least
  <2> QED
    BY <2>1 DEF Min
<1>4. Body(NoMessage)
  BY MadeBodies
<1> QED
  BY <1>1, <1>2, <1>3, <1>4

LEMMA WrittenCallsBody ==
    ASSUME NEW items, NEW req
    PROVE  Body(WrittenCalls(items, req))
<1> DEFINE calls(kind) ==
              IF TextSeen(items, kind) = << >> THEN << >>
              ELSE CallsOf(Extracted(Head(TextSeen(items, kind)), req))
<1>1. WrittenCalls(items, req) = IF calls("text") # << >> THEN calls("text") ELSE calls("think")
  BY DEF WrittenCalls
<1>2. \A kind : Body(calls(kind))
  BY ExtractedBody, EmptyBody
<1> HIDE DEF calls
<1> QED
  BY <1>1, <1>2

\* So is what answers in the place of a stream.
LEMMA AnswersBody ==
    ASSUME NEW items, NEW req
    PROVE  Body(EarlyAnswer(items, req)) /\ Body(LateAnswer(items, req))
<1>1. Body(PlannedRewrite(items, req))
  BY MadeBodies DEF PlannedRewrite
<1>2. ASSUME NEW its
      PROVE  Body(NativeOrPlanned(its, req))
  <2> DEFINE read == IF IsPlanned(req, "Read") THEN <<PlannedCall(req)>> ELSE NoMessage
             agent == IF "Agent" \in req.tools /\ req.agent = "call"
                      THEN <<Use("Agent", 0, TRUE)>> ELSE NoMessage
             written == WrittenCalls(its, req)
             all == <<written, read, agent>>
  <2>1. Body(read) /\ Body(agent) /\ Body(written)
    BY MadeBodies, WrittenCallsBody
  <2>2. NativeOrPlanned(its, req) = NoMessage \/ NativeOrPlanned(its, req) = FirstOf(all)
    BY DEF NativeOrPlanned
  <2> HIDE DEF read, agent, written
  <2>3. DOMAIN all = 1..3 /\ all[1] = written /\ all[2] = read /\ all[3] = agent
    OBVIOUS
  <2> HIDE DEF all
  <2>4. \A i \in 1..3 : Body(all[i])
    BY <2>1, <2>3
  <2>5. Body(FirstOf(all))
    BY <2>3, <2>4, FirstOfBody
  <2> QED
    BY <2>2, <2>5, MadeBodies
<1>3. \A its : Body(Command(its, req)) /\ Body(FinalText(its, req))
  BY MadeBodies DEF Command, FinalText
<1>4. Body(EarlyAnswer(items, req))
  <2> DEFINE a == PlannedRewrite(items, req)
             b == NativeOrPlanned(<< >>, req)
             c == Command(<< >>, req)
             all == <<a, b, c>>
  <2>1. EarlyAnswer(items, req) = FirstOf(all)
    BY DEF EarlyAnswer
  <2>2. Body(a) /\ Body(b) /\ Body(c)
    BY <1>1, <1>2, <1>3
  <2> HIDE DEF a, b, c
  <2>3. DOMAIN all = 1..3 /\ all[1] = a /\ all[2] = b /\ all[3] = c
    OBVIOUS
  <2> HIDE DEF all
  <2>4. \A i \in 1..3 : Body(all[i])
    BY <2>2, <2>3
  <2> QED
    BY <2>1, <2>3, <2>4, FirstOfBody
<1>5. Body(LateAnswer(items, req))
  <2> DEFINE a == PlannedRewrite(items, req)
             b == NativeOrPlanned(items, req)
             c == Command(items, req)
             d == FinalText(items, req)
             all == <<a, b, c, d>>
  <2>1. LateAnswer(items, req) = FirstOf(all)
    BY DEF LateAnswer
  <2>2. Body(a) /\ Body(b) /\ Body(c) /\ Body(d)
    BY <1>1, <1>2, <1>3
  <2> HIDE DEF a, b, c, d
  <2>3. DOMAIN all = 1..4 /\ all[1] = a /\ all[2] = b /\ all[3] = c /\ all[4] = d
    OBVIOUS
  <2> HIDE DEF all
  <2>4. \A i \in 1..4 : Body(all[i])
    BY <2>2, <2>3
  <2> QED
    BY <2>1, <2>3, <2>4, FirstOfBody
<1> QED
  BY <1>4, <1>5

\* What a model writes can be a message, with what its provider signs.
LEMMA WrittenBody ==
    ASSUME NEW raw \in Replies, NEW p
    PROVE  Body(Written(raw, p)) /\ Body(AsIs(Written(raw, p), p))
<1> DEFINE R == TextBlocks \cup [k : {"think"}, t : STRING, big : BOOLEAN]
                \cup [k : {"use"}, tool : STRING, step : Nat, good : BOOLEAN]
                \cup [k : {"redacted", "search", "reference"}]
           n == Len(raw)
           g == Written(raw, p)
           h == AsIs(g, p)
           Signed(b) == [k |-> "think", t |-> b.t, big |-> b.big, signed |-> p = "anthropic"]
<1>1. raw \in Seq(R)
  BY ConversationAssumption
<1>2. \A b \in R : /\ b.k \notin {"image", "result"}
                   /\ b.k # "think" => OkBlock(b)
  BY DEF OkBlock, TextBlocks
<1> HIDE DEF R
<1>3. n \in Nat /\ DOMAIN raw = 1..n /\ \A i \in 1..n : raw[i] \in R
  BY <1>1, SeqFacts
<1>4. /\ g = [i \in 1..n |-> g[i]] /\ DOMAIN g = 1..n
      /\ \A i \in 1..n : g[i] = IF raw[i].k = "think" THEN Signed(raw[i]) ELSE raw[i]
  BY <1>3 DEF Written
<1>5. /\ h = [i \in 1..n |-> h[i]]
      /\ \A i \in 1..n : h[i] = g[i] \/ h[i] = BlockText(g[i].t)
  BY <1>4 DEF AsIs
<1> HIDE DEF g, n, h
<1>6. \A b : OkBlock(Signed(b)) /\ Signed(b).k = "think"
  BY DEF OkBlock
<1> HIDE DEF Signed
<1>7. \A i \in 1..n : OkBlock(g[i]) /\ g[i].k \notin {"image", "result"}
  BY <1>2, <1>3, <1>4, <1>6
<1>8. \A i \in 1..n : OkBlock(h[i]) /\ h[i].k \notin {"image", "result"}
  BY <1>5, <1>7, TextIsOk
<1>9. Body(g) /\ Body(h)
  BY <1>3, <1>4, <1>5, <1>7, <1>8, MadeBody
<1> QED
  BY <1>9 DEF g, h

LEMMA RepliesBody ==
    ASSUME NEW raw \in Replies
    PROVE  Body(RepairedWhole(raw)) /\ Body(RepairedStream(raw))
<1>1. Body(RepairedWhole(raw))
  BY WrittenBody, RepairedReplyBody DEF RepairedWhole
<1>2. Body(RepairedStream(raw))
  <2> DEFINE a == LateAnswer(Whole(raw), Req)
             b == AsIs(Written(raw, route[attempt]), route[attempt])
             all == <<a, b>>
  <2>1. RepairedStream(raw) = FirstOf(all)
    BY DEF RepairedStream
  <2>2. Body(a) /\ Body(b)
    BY WrittenBody, AnswersBody
  <2> HIDE DEF a, b
  <2>3. DOMAIN all = 1..2 /\ all[1] = a /\ all[2] = b
    OBVIOUS
  <2> HIDE DEF all
  <2>4. \A i \in 1..2 : Body(all[i])
    BY <2>2, <2>3
  <2> QED
    BY <2>1, <2>3, <2>4, FirstOfBody
<1> QED
  BY <1>1, <1>2

LEMMA NothingBody == Body(RepairedNothing)
BY AnswersBody DEF RepairedNothing

\* The client's numbers tell calls apart, and say which message made them.
LEMMA DeliveredFacts ==
    ASSUME NEW c, Body(c), NEW n, n = Len(history) + 1
    PROVE  /\ Content(Delivered(c))
           /\ \A b \in Range(Delivered(c)) : b.k \notin {"image", "result"}
           /\ \A b \in UsesIn(Delivered(c)) : b.id[1] = n
           /\ \A a, b \in UsesIn(Delivered(c)) : a.id = b.id => a = b
<1> DEFINE g == Delivered(c)
           Given(b, i) == [k |-> "use", tool |-> b.tool, step |-> b.step,
                           good |-> b.good, id |-> <<n, i>>]
<1>1. /\ Len(c) \in Nat /\ DOMAIN c = 1..Len(c)
      /\ \A i \in 1..Len(c) : OkBlock(c[i]) /\ c[i].k \notin {"image", "result"}
  BY BodyFacts
<1>2. /\ g = [i \in 1..Len(c) |-> g[i]]
      /\ \A i \in 1..Len(c) : g[i] = IF c[i].k = "use" THEN Given(c[i], i) ELSE c[i]
  BY <1>1 DEF Delivered
<1> HIDE DEF g
<1>3. \A b, i : /\ b.good \in BOOLEAN => OkBlock(Given(b, i))
                /\ Given(b, i).k = "use"
                /\ Given(b, i).id[1] = n /\ Given(b, i).id[2] = i
  BY DEF OkBlock
<1> HIDE DEF Given
<1>4. \A i \in 1..Len(c) : OkBlock(g[i]) /\ g[i].k \notin {"image", "result"}
  <2>1. \A b : OkBlock(b) /\ b.k = "use" => b.good \in BOOLEAN
    BY DEF OkBlock
  <2> QED
    BY <1>1, <1>2, <1>3, <2>1
<1>5. Body(g) /\ Content(g) /\ Range(g) = {g[i] : i \in 1..Len(c)}
  BY <1>1, <1>2, <1>4, MadeBody, MadeContent
<1>6. \A b \in UsesIn(g) : \E i \in 1..Len(c) : b = g[i] /\ b = Given(c[i], i)
  BY <1>2, <1>5 DEF UsesIn
<1>7. /\ \A b \in UsesIn(g) : b.id[1] = n
      /\ \A a, b \in UsesIn(g) : a.id = b.id => a = b
  BY <1>3, <1>6
<1> QED
  BY <1>5, <1>7 DEF Body, g

-----------------------------------------------------------------------------
(* The client's conversation grows. *)

\* A call is numbered by the message it stands in.
Numbered(ms) == \A i \in 1..Len(ms) : \A b \in UsesIn(ms[i].c) : b.id[1] = i

LEMMA ExtendedFormed ==
    ASSUME NEW ms, Formed(ms), Numbered(ms), NEW m, MessageAt(m, Len(ms) + 1),
           ResultIds(m) = IF Len(ms) = 0 THEN {} ELSE UseIds(ms[Len(ms)]),
           \A b \in UsesIn(m.c) : b.id[1] = Len(ms) + 1,
           \A a, b \in UsesIn(m.c) : a.id = b.id => a = b
    PROVE  /\ Formed(Append(ms, m)) /\ Numbered(Append(ms, m))
           /\ Len(Append(ms, m)) = Len(ms) + 1
           /\ \A i \in 1..Len(ms) : Append(ms, m)[i] = ms[i]
           /\ Append(ms, m)[Len(ms) + 1] = m
<1> DEFINE n == Len(ms) + 1
           T == Range(ms) \cup {m}
           f == Append(ms, m)
<1>1. /\ ms \in Seq(Range(ms)) /\ Len(ms) \in Nat
      /\ \A i \in 1..Len(ms) : MessageAt(ms[i], i)
  BY FormedFacts
<1>2. n \in Nat
  BY <1>1
<1>3. f \in Seq(T) /\ Len(f) = n /\ f[n] = m /\ \A i \in 1..Len(ms) : f[i] = ms[i]
  <2>1. ms \in Seq(T) /\ m \in T
    BY <1>1, SeqOfRange
  <2> HIDE DEF T
  <2> QED
    BY <2>1, AppendProperties
<1>4. f = [i \in 1..n |-> f[i]]
  <2> HIDE DEF T, f
  <2> QED
    BY <1>3, SeqFacts
<1>5. \A i \in 1..n : i \in 1..Len(ms) \/ i = n
  BY <1>1
<1> HIDE DEF f
<1>6. \A i \in 1..n : MessageAt(f[i], i)
  BY <1>1, <1>3, <1>5
<1>7. \A i \in 1..n : ResultIds(f[i]) = IF i = 1 THEN {} ELSE UseIds(f[i-1])
  <2> TAKE i \in 1..n
  <2>1. CASE i \in 1..Len(ms)
    <3>1. f[i] = ms[i] /\ (i # 1 => i - 1 \in 1..Len(ms) /\ f[i-1] = ms[i-1])
      BY <1>1, <1>3, <2>1
    <3>2. ResultIds(ms[i]) = IF i = 1 THEN {} ELSE UseIds(ms[i-1])
      BY <2>1 DEF Formed, Answered
    <3> QED
      BY <3>1, <3>2
  <2>2. CASE i = n
    <3>1. (n = 1 <=> Len(ms) = 0) /\ (n # 1 => n - 1 = Len(ms) /\ Len(ms) \in 1..Len(ms))
      BY <1>1
    <3>2. ResultIds(m) = IF n = 1 THEN {} ELSE UseIds(f[n-1])
      BY <1>3, <3>1
    <3> QED
      BY <1>3, <2>2, <3>2
  <2> QED
    BY <1>5, <2>1, <2>2
<1>8. \A i \in 1..n : \A b \in UsesIn(f[i].c) : b.id[1] = i
  BY <1>3, <1>5 DEF Numbered
<1>9. \A i, j \in 1..n : \A a \in UsesIn(f[i].c), b \in UsesIn(f[j].c) :
          a.id = b.id => i = j /\ a = b
  <2> SUFFICES ASSUME NEW i \in 1..n, NEW j \in 1..n,
                      NEW a \in UsesIn(f[i].c), NEW b \in UsesIn(f[j].c), a.id = b.id
               PROVE  i = j /\ a = b
    OBVIOUS
  <2>1. i = j
    BY <1>8
  <2>2. CASE i = n
    BY <1>3, <2>1, <2>2
  <2>3. CASE i \in 1..Len(ms)
    BY <1>3, <2>1, <2>3 DEF Formed, Distinct
  <2> QED
    BY <1>5, <2>1, <2>2, <2>3
<1>10. Formed(f)
  BY <1>2, <1>4, <1>6, <1>7, <1>9, MadeFormed
<1>11. Numbered(f)
  BY <1>3, <1>8 DEF Numbered
<1> QED
  BY <1>3, <1>10, <1>11 DEF f

LEMMA SameIds ==
    ASSUME NEW S, NEW T, \A b \in S : \E a \in T : b.id = a.id,
           \A a \in T : \E b \in S : b.id = a.id
    PROVE  {b.id : b \in S} = {b.id : b \in T}
OBVIOUS

LEMMA LastOfFormed ==
    ASSUME NEW ms, Formed(ms), ms # << >>
    PROVE  /\ Len(ms) \in Nat /\ Len(ms) > 0 /\ Last(ms) = ms[Len(ms)]
           /\ Content(Last(ms).c) /\ MessageAt(Last(ms), Len(ms))
           /\ Last(ms).role = "user" <=> Len(ms) % 2 = 1
           /\ Last(ms).role = "assistant" <=> Len(ms) % 2 = 0
           /\ Len(ms) % 2 = 1 => UseIds(Last(ms)) = {}
           /\ Len(ms) % 2 = 0 => ResultIds(Last(ms)) = {}
<1>1. /\ Len(ms) \in Nat /\ Len(ms) > 0
      /\ \A i \in 1..Len(ms) : MessageAt(ms[i], i) /\ Content(ms[i].c)
  BY FormedFacts
<1>2. Last(ms) = ms[Len(ms)]
  BY DEF Last
<1>3. MessageAt(Last(ms), Len(ms)) /\ Content(Last(ms).c)
  BY <1>1, <1>2
<1>4. Last(ms).role = RoleAt(Len(ms))
  <2> DEFINE r == RoleAt(Len(ms))
             d == Last(ms).c
  <2>1. Last(ms) = Message(r, d)
    BY <1>3 DEF MessageAt
  <2> HIDE DEF r, d
  <2>2. Message(r, d).role = r
    BY MessageFacts
  <2> QED
    BY <2>1, <2>2 DEF r
<1>5. Len(ms) % 2 = 0 \/ Len(ms) % 2 = 1
  BY <1>1
<1>6. Len(ms) % 2 = 1 => UsesIn(Last(ms).c) = {}
  BY <1>3 DEF MessageAt, Asking, UsesIn
<1>7. Len(ms) % 2 = 0 => ResultsOf(Last(ms).c) = {}
  BY <1>3 DEF MessageAt, Asking, ResultsOf
<1>8. /\ Len(ms) % 2 = 1 => UseIds(Last(ms)) = {}
      /\ Len(ms) % 2 = 0 => ResultIds(Last(ms)) = {}
  BY <1>6, <1>7, IdsOf
<1> QED
  BY <1>1, <1>2, <1>3, <1>4, <1>5, <1>8 DEF RoleAt

\* The reply is appended after a message of the user,
LEMMA RepliedFormed ==
    ASSUME Formed(history), Numbered(history), Len(history) % 2 = 1, NEW c, Body(c),
           NEW new, new = Append(history, Message("assistant", Delivered(c)))
    PROVE  /\ Formed(new) /\ Numbered(new) /\ Len(new) = Len(history) + 1
           /\ \A i \in 1..Len(history) : new[i] = history[i]
<1> DEFINE n == Len(history) + 1
           d == Delivered(c)
           m == Message("assistant", d)
<1>1. Len(history) \in Nat /\ history # << >>
  BY FormedFacts
<1>2. n \in Nat /\ n % 2 = 0 /\ Len(history) # 0
  BY <1>1
<1>3. /\ Content(d)
      /\ \A b \in Range(d) : b.k \notin {"image", "result"}
      /\ \A b \in UsesIn(d) : b.id[1] = n
      /\ \A a, b \in UsesIn(d) : a.id = b.id => a = b
  BY DeliveredFacts
<1> HIDE DEF d
<1>4. m.c = d /\ m = Message(RoleAt(n), m.c)
  BY <1>2 DEF RoleAt, Message
<1> HIDE DEF m
<1>5. MessageAt(m, n)
  BY <1>2, <1>3, <1>4 DEF MessageAt, Asking
<1>6. ResultIds(m) = {} /\ UseIds(history[Len(history)]) = {}
  <2>1. ResultsOf(d) = {}
    BY <1>3 DEF ResultsOf
  <2> QED
    BY <1>1, <1>4, <2>1, IdsOf, LastOfFormed
<1>7. new = Append(history, m)
  BY DEF m, d
<1>8. /\ ResultIds(m) = IF Len(history) = 0 THEN {} ELSE UseIds(history[Len(history)])
      /\ \A b \in UsesIn(m.c) : b.id[1] = Len(history) + 1
      /\ \A a, b \in UsesIn(m.c) : a.id = b.id => a = b
  BY <1>2, <1>3, <1>4, <1>6
<1> QED
  BY <1>5, <1>7, <1>8, ExtendedFormed

\* and what the user says, or what the calls gave, after one of the assistant.
LEMMA AnsweredFormed ==
    ASSUME Formed(history), Numbered(history), history # << >>, Len(history) % 2 = 0,
           NEW c, Content(c), \A b \in Range(c) : b.k \in Asking,
           {b.id : b \in ResultsOf(c)} = UseIds(Last(history)),
           NEW new, new = Append(history, Message("user", c))
    PROVE  /\ Formed(new) /\ Numbered(new) /\ Len(new) = Len(history) + 1
           /\ \A i \in 1..Len(history) : new[i] = history[i]
<1> DEFINE n == Len(history) + 1
           m == Message("user", c)
<1>1. Len(history) \in Nat /\ Len(history) # 0 /\ Last(history) = history[Len(history)]
  BY LastOfFormed
<1>2. n \in Nat /\ n % 2 = 1
  BY <1>1
<1>3. m.c = c /\ m = Message(RoleAt(n), m.c)
  BY <1>2 DEF RoleAt, Message
<1> HIDE DEF m
<1>4. MessageAt(m, n)
  BY <1>2, <1>3 DEF MessageAt
<1>5. ResultIds(m) = UseIds(history[Len(history)])
  BY <1>1, <1>3, IdsOf
<1>6. UsesIn(m.c) = {}
  BY <1>3 DEF UsesIn, Asking
<1>7. new = Append(history, m)
  BY DEF m
<1> QED
  BY <1>1, <1>4, <1>5, <1>6, <1>7, ExtendedFormed

LEMMA OpeningContent ==
    ASSUME NEW c \in Openings
    PROVE  Content(c) /\ (\A b \in Range(c) : b.k \in Asking) /\ ResultsOf(c) = {}
<1> DEFINE R == TextBlocks \cup {Image}
<1>1. c \in Seq(R)
  BY ConversationAssumption
<1>2. \A b \in R : OkBlock(b) /\ b.k \in {"text", "image"}
  BY DEF TextBlocks, Image, OkBlock
<1> HIDE DEF R
<1>3. c \in Seq(Range(c)) /\ Range(c) \subseteq R
  BY <1>1, SeqFacts
<1> QED
  BY <1>2, <1>3 DEF Content, Asking, ResultsOf

Results(uses, big) ==
    [i \in DOMAIN uses |-> [k |-> "result", id |-> uses[i].id, big |-> big]]

\* Each call of the last message gets its result.
LEMMA ResultsContent ==
    ASSUME Formed(history), history # << >>, NEW big, NEW also \in {<< >>, <<Image>>},
           NEW uses, uses = Blocks(Last(history).c, "use"),
           NEW results, results = Results(uses, big)
    PROVE  /\ Content(results \o also)
           /\ \A b \in Range(results \o also) : b.k \in Asking
           /\ {b.id : b \in ResultsOf(results \o also)} = UseIds(Last(history))
           /\ \A b \in Range(results \o also) : b.k \in {"result", "image"}
<1> DEFINE c == Last(history).c
           is == {i \in DOMAIN c : c[i].k = "use"}
           all == results \o also
           Result(b) == [k |-> "result", id |-> b.id, big |-> big]
<1>1. Content(c)
  BY LastOfFormed
<1> HIDE DEF c
<1>2. /\ DOMAIN c = 1..Len(c) /\ Len(c) \in Nat /\ Range(c) = {c[i] : i \in 1..Len(c)}
  BY <1>1, ContentFacts
<1>3. uses = Picked(c, is)
  BY DEF Blocks, c
<1>4. Content(uses) /\ Range(uses) = UsesIn(c)
  <2>1. Content(Picked(c, is)) /\ Range(Picked(c, is)) = {c[i] : i \in is \cap 1..Len(c)}
    BY <1>1, PickedContent
  <2>2. {c[i] : i \in is \cap 1..Len(c)} = UsesIn(c)
    BY <1>2 DEF UsesIn
  <2> QED
    BY <1>3, <2>1, <2>2
<1>5. /\ Len(uses) \in Nat /\ DOMAIN uses = 1..Len(uses)
      /\ Range(uses) = {uses[i] : i \in 1..Len(uses)}
  BY <1>4, ContentFacts
<1>6. /\ results = [i \in 1..Len(uses) |-> results[i]]
      /\ \A i \in 1..Len(uses) : results[i] = Result(uses[i])
  BY <1>5 DEF Results
<1>7. \A b : OkBlock(Result(b)) /\ Result(b).k = "result" /\ Result(b).id = b.id
  BY DEF OkBlock
<1> HIDE DEF Result, is
<1>8. Content(results) /\ Range(results) = {results[i] : i \in 1..Len(uses)}
  <2> DEFINE n == Len(uses)
  <2>1. n \in Nat /\ results = [i \in 1..n |-> results[i]]
    BY <1>5, <1>6
  <2>2. \A i \in 1..n : OkBlock(results[i])
    BY <1>6, <1>7
  <2> HIDE DEF n
  <2>3. Content(results) /\ Range(results) = {results[i] : i \in 1..n}
    BY <2>1, <2>2, MadeContent
  <2> QED
    BY <2>3 DEF n
<1>9. \A b \in Range(results) : b.k = "result"
  BY <1>6, <1>7, <1>8
<1>10. {b.id : b \in Range(results)} = UseIds(Last(history))
  <2>1. UseIds(Last(history)) = {b.id : b \in UsesIn(c)}
    BY IdsOf DEF c
  <2>2. \A i \in 1..Len(uses) : results[i].id = uses[i].id
    BY <1>6, <1>7
  <2> DEFINE S == Range(results)
             T == UsesIn(c)
  <2>3. S = {results[i] : i \in 1..Len(uses)} /\ T = {uses[i] : i \in 1..Len(uses)}
    BY <1>4, <1>5, <1>8
  <2> HIDE DEF S, T
  <2>4. \A b \in S : \E a \in T : b.id = a.id
    BY <2>2, <2>3
  <2>5. \A a \in T : \E b \in S : b.id = a.id
    BY <2>2, <2>3
  <2>6. {b.id : b \in S} = {b.id : b \in T}
    BY <2>4, <2>5, SameIds
  <2> QED
    BY <2>1, <2>6 DEF S, T
<1>11. Content(also) /\ \A b \in Range(also) : b.k = "image"
  <2>1. OkBlock(Image) /\ Image.k = "image"
    BY DEF Image, OkBlock
  <2>2. also = << >> \/ also = <<Image>>
    OBVIOUS
  <2> QED
    BY <2>1, <2>2, OneBlock, NoBlock
<1>12. all \in Seq(Range(all)) /\ Range(all) = Range(results) \cup Range(also)
  <2> DEFINE T == Range(results) \cup Range(also)
  <2>1. results \in Seq(T) /\ also \in Seq(T)
    <3>1. results \in Seq(Range(results)) /\ also \in Seq(Range(also))
      BY <1>8, <1>11 DEF Content
    <3> QED
      BY <3>1, SeqMonotonic
  <2> HIDE DEF T
  <2>2. all \in Seq(T)
    BY <2>1, ConcatProperties
  <2>3. Range(results \o also) = Range(results) \cup Range(also)
    BY <2>1, RangeConcatenation
  <2>4. Range(all) = Range(results) \cup Range(also)
    BY <2>3
  <2> HIDE DEF all
  <2>5. all \in Seq(Range(all))
    BY <2>2, SeqFacts
  <2> QED
    BY <2>4, <2>5
<1> HIDE DEF all
<1>13. Content(all)
  BY <1>8, <1>11, <1>12 DEF Content
<1>14. ResultsOf(all) = Range(results)
  BY <1>9, <1>11, <1>12 DEF ResultsOf
<1>15. \A b \in Range(all) : b.k \in {"result", "image"}
  BY <1>9, <1>11, <1>12
<1>16. \A b \in Range(all) : b.k \in Asking
  BY <1>15 DEF Asking
<1> QED
  BY <1>10, <1>13, <1>14, <1>15, <1>16 DEF all

-----------------------------------------------------------------------------
(* Sums. *)

\* f[i] is the sum of the first i numbers of s.
Sums(f, n, s) == f[0] = 0 /\ \A i \in 1..n : f[i] = f[i-1] + s[i]

\* Total adds one number after the other.
LEMMA TotalSteps ==
    ASSUME NEW n \in Nat, NEW s, Len(s) = n, \A i \in 1..n : s[i] \in Nat
    PROVE  \E f \in [0..n -> Nat] : Sums(f, n, s) /\ Total(s) = f[n]
<1> DEFINE S == Nat
           b == 0
           G == [q \in (1..n) \X S |-> q[2] + s[q[1]]]
           Value(f, i) == IF i = 0 THEN 0 ELSE f[i-1] + s[i]
           total == CHOOSE f : f = [i \in 0..n |-> Value(f, i)]
<1>1. G \in [(1..n) \X S -> S] /\ b \in S
  OBVIOUS
<1>2. PICK f \in [0..n -> S] : f[0] = b /\ \A i \in 1..n : f[i] = G[<<i, f[i-1]>>]
  <2> HIDE DEF S, b, G, Value, total
  <2>1. \E f \in [0..n -> S] : Follows(f, n, b, G)
    BY <1>1, Recursion
  <2> QED
    BY <2>1 DEF Follows
<1>3. \A i \in 1..n : f[i] = f[i-1] + s[i]
  <2> TAKE i \in 1..n
  <2>1. i - 1 \in 0..n
    OBVIOUS
  <2>2. <<i, f[i-1]>> \in (1..n) \X S
    BY <1>2, <2>1
  <2> QED
    BY <1>2, <2>2
<1>4. f = [i \in 0..n |-> Value(f, i)]
  <2>1. \A i \in 0..n : f[i] = Value(f, i)
    BY <1>2, <1>3
  <2> HIDE DEF Value
  <2> QED
    BY <1>2, <2>1
<1>5. total = [i \in 0..n |-> Value(total, i)]
  BY <1>4
<1>6. Total(s) = total[n]
  BY DEF Total
<1> HIDE DEF total
<1>7. total[0] = 0 /\ \A i \in 1..n : total[i] = total[i-1] + s[i]
  <2>1. 0 \in 0..n /\ \A i \in 1..n : i \in 0..n /\ i # 0
    OBVIOUS
  <2> QED
    BY <1>5, <2>1
<1>8. \A i \in 0..n : total[i] = f[i]
  <2> DEFINE P == {i \in 0..n : total[i] = f[i]}
  <2>1. 0 \in P
    BY <1>2, <1>7
  <2>2. ASSUME NEW i \in 0..n, i \in P, i < n
        PROVE  i + 1 \in P
    <3>1. i + 1 \in 1..n /\ i + 1 \in 0..n /\ (i + 1) - 1 = i
      BY <2>2
    <3> QED
      BY <1>3, <1>7, <2>2, <3>1
  <2>3. \A i \in 0..n : i \in P
    <3> HIDE DEF P
    <3> QED
      BY <2>1, <2>2, Induction
  <2> QED
    BY <2>3
<1>9. Total(s) = f[n]
  BY <1>6, <1>8
<1> QED
  BY <1>2, <1>3, <1>9 DEF Sums

\* One more number adds itself.
LEMMA TotalOne ==
    ASSUME NEW n \in Nat, NEW s, Len(s) = n, \A i \in 1..n : s[i] \in Nat,
           NEW t, Len(t) = n + 1, \A i \in 1..n : t[i] = s[i], t[n+1] \in Nat
    PROVE  Total(t) = Total(s) + t[n+1]
<1>1. n + 1 \in Nat /\ \A i \in 1..n+1 : t[i] \in Nat
  <2>1. \A i \in 1..n+1 : i \in 1..n \/ i = n + 1
    OBVIOUS
  <2> QED
    BY <2>1
<1>2. PICK f \in [0..n -> Nat] : Sums(f, n, s) /\ Total(s) = f[n]
  BY TotalSteps
<1>3. PICK g \in [0..n+1 -> Nat] : Sums(g, n + 1, t) /\ Total(t) = g[n+1]
  BY <1>1, TotalSteps
<1>4. \A i \in 0..n : f[i] = g[i]
  <2> DEFINE P == {i \in 0..n : f[i] = g[i]}
  <2>1. 0 \in P
    BY <1>2, <1>3 DEF Sums
  <2>2. ASSUME NEW i \in 0..n, i \in P, i < n
        PROVE  i + 1 \in P
    <3>1. i + 1 \in 1..n /\ i + 1 \in 1..n+1 /\ i + 1 \in 0..n /\ (i + 1) - 1 = i
      BY <2>2
    <3>2. f[i+1] = f[i] + s[i+1] /\ g[i+1] = g[i] + t[i+1]
      BY <1>2, <1>3, <3>1 DEF Sums
    <3> QED
      BY <2>2, <3>1, <3>2
  <2>3. \A i \in 0..n : i \in P
    <3> HIDE DEF P
    <3> QED
      BY <2>1, <2>2, Induction
  <2> QED
    BY <2>3
<1>5. n \in 0..n /\ n + 1 \in 1..n+1 /\ (n + 1) - 1 = n
  OBVIOUS
<1>6. g[n+1] = g[n] + t[n+1]
  BY <1>3, <1>5 DEF Sums
<1> QED
  BY <1>2, <1>3, <1>4, <1>5, <1>6

LEMMA TotalIsNat ==
    ASSUME NEW n \in Nat, NEW s, Len(s) = n, \A i \in 1..n : s[i] \in Nat
    PROVE  Total(s) \in Nat
<1>1. PICK f \in [0..n -> Nat] : Sums(f, n, s) /\ Total(s) = f[n]
  BY TotalSteps
<1>2. n \in 0..n
  OBVIOUS
<1> QED
  BY <1>1, <1>2

\* A sum is no larger than one whose last numbers, and first, are no smaller.
LEMMA TotalShifted ==
    ASSUME NEW n \in Nat, NEW s, Len(s) = n, \A i \in 1..n : s[i] \in Nat,
           NEW k \in Nat, NEW t, Len(t) = k, \A i \in 1..k : t[i] \in Nat,
           n <= k, n > 0 => s[1] <= t[1],
           \A i \in 2..n : s[i] <= t[i + k - n]
    PROVE  Total(s) <= Total(t)
<1> DEFINE d == k - n
<1>0. d \in Nat /\ n + d = k
  OBVIOUS
<1>1. PICK f \in [0..n -> Nat] : Sums(f, n, s) /\ Total(s) = f[n]
  BY TotalSteps
<1>2. PICK g \in [0..k -> Nat] : Sums(g, k, t) /\ Total(t) = g[k]
  BY TotalSteps
<1>3. k > 0 => \A i \in 0..k : i > 0 => g[i] >= t[1]
  <2> SUFFICES ASSUME k > 0
               PROVE  \A i \in 0..k : i > 0 => g[i] >= t[1]
    OBVIOUS
  <2> DEFINE P == {i \in 0..k : i > 0 => g[i] >= t[1]}
  <2>1. 0 \in P
    OBVIOUS
  <2>2. ASSUME NEW i \in 0..k, i \in P, i < k
        PROVE  i + 1 \in P
    <3>1. i + 1 \in 1..k /\ i + 1 \in 0..k /\ (i + 1) - 1 = i
      BY <2>2
    <3>2. g[i+1] = g[i] + t[i+1] /\ g[0] = 0
      BY <1>2, <3>1 DEF Sums
    <3>3. g[i] \in Nat /\ t[i+1] \in Nat /\ t[1] \in Nat
      BY <3>1
    <3>4. i = 0 \/ i > 0
      OBVIOUS
    <3> QED
      BY <2>2, <3>1, <3>2, <3>3, <3>4
  <2>3. \A i \in 0..k : i \in P
    <3> HIDE DEF P
    <3> QED
      BY <2>1, <2>2, Induction
  <2> QED
    BY <2>3
<1>4. \A i \in 0..n : i > 0 => f[i] <= g[i+d]
  <2> DEFINE P == {i \in 0..n : i > 0 => f[i] <= g[i+d]}
  <2>1. 0 \in P
    OBVIOUS
  <2>2. ASSUME NEW i \in 0..n, i \in P, i < n
        PROVE  i + 1 \in P
    <3>1. /\ i + 1 \in 1..n /\ i + 1 \in 0..n /\ (i + 1) - 1 = i
          /\ i + 1 + d \in 1..k /\ i + 1 + d \in 0..k /\ (i + 1 + d) - 1 = i + d
          /\ i + d \in 0..k /\ (i + 1) + d = i + 1 + d
      BY <1>0, <2>2
    <3>2. f[i+1] = f[i] + s[i+1] /\ g[i+1+d] = g[i+d] + t[i+1+d] /\ f[0] = 0
      BY <1>1, <1>2, <3>1 DEF Sums
    <3>3. f[i] \in Nat /\ g[i+d] \in Nat /\ s[i+1] \in Nat /\ t[i+1+d] \in Nat
      BY <1>1, <1>2, <3>1
    <3>4. CASE i = 0
      <4>1. f[i+1] = s[1] /\ s[1] <= t[1]
        BY <2>2, <3>2, <3>3, <3>4
      <4>2. i + 1 + d > 0 /\ k > 0
        BY <1>0, <3>4, <2>2
      <4>3. g[i+1+d] >= t[1]
        BY <1>3, <3>1, <4>2
      <4>4. s[1] \in Nat /\ t[1] \in Nat /\ g[i+1+d] \in Nat
        BY <1>2, <3>1, <3>4, <4>2
      <4>5. f[i+1] <= g[i+1+d]
        BY <4>1, <4>3, <4>4
      <4> QED
        BY <3>1, <4>5
    <3>5. CASE i > 0
      <4>1. i + 1 \in 2..n /\ (i + 1) + k - n = i + 1 + d
        BY <2>2, <3>1, <3>5
      <4>2. s[i+1] <= t[i+1+d]
        BY <4>1
      <4>3. f[i] <= g[i+d]
        BY <2>2, <3>5
      <4>4. f[i+1] <= g[i+1+d]
        <5>1. \A w, x, y, z \in Nat : w <= x /\ y <= z => w + y <= x + z
          OBVIOUS
        <5>2. f[i] + s[i+1] <= g[i+d] + t[i+1+d]
          <6> HIDE DEF d
          <6> QED
            BY <3>3, <4>2, <4>3, <5>1
        <5> QED
          BY <3>2, <5>2
      <4> QED
        BY <3>1, <4>4
    <3> QED
      BY <3>4, <3>5
  <2>3. \A i \in 0..n : i \in P
    <3> HIDE DEF P
    <3> QED
      BY <2>1, <2>2, Induction
  <2> QED
    BY <2>3
<1>5. CASE n = 0
  <2>1. f[n] = 0 /\ g[k] \in Nat
    BY <1>1, <1>2, <1>5 DEF Sums
  <2> QED
    BY <1>1, <1>2, <2>1
<1>6. CASE n > 0
  <2>1. n \in 0..n
    OBVIOUS
  <2>2. f[n] <= g[n+d]
    BY <1>4, <1>6, <2>1
  <2> QED
    BY <1>0, <1>1, <1>2, <2>2
<1> QED
  BY <1>5, <1>6

-----------------------------------------------------------------------------
(* What messages weigh. *)

Weights(c) == [j \in DOMAIN c |-> BlockTokens(c[j])]

LEMMA BlockTokensFacts == \A b : BlockTokens(b) \in Nat
BY DEF BlockTokens, Long, Short

LEMMA WeightsFacts ==
    ASSUME NEW c, NEW n \in Nat, DOMAIN c = 1..n
    PROVE  /\ Len(Weights(c)) = n
           /\ \A i \in 1..n : Weights(c)[i] = BlockTokens(c[i]) /\ Weights(c)[i] \in Nat
<1> DEFINE w == Weights(c)
<1>1. w = [i \in 1..n |-> w[i]] /\ \A i \in 1..n : w[i] = BlockTokens(c[i])
  BY DEF Weights
<1> HIDE DEF w
<1>2. Len(w) = n
  BY <1>1, FunctionIsSeq
<1> QED
  BY <1>1, <1>2, BlockTokensFacts DEF w

LEMMA TokensFacts ==
    ASSUME NEW m, Content(m.c)
    PROVE  Tokens(m) = Total(Weights(m.c)) /\ Tokens(m) \in Nat
<1>1. Tokens(m) = Total(Weights(m.c))
  BY DEF Tokens, Weights
<1>2. Len(m.c) \in Nat /\ DOMAIN m.c = 1..Len(m.c)
  BY ContentFacts
<1>3. /\ Len(Weights(m.c)) = Len(m.c)
      /\ \A i \in 1..Len(m.c) : Weights(m.c)[i] \in Nat
  BY <1>2, WeightsFacts
<1>4. Total(Weights(m.c)) \in Nat
  BY <1>2, <1>3, TotalIsNat
<1> QED
  BY <1>1, <1>4

\* What is taken out does not add weight.
LEMMA PickedWeights ==
    ASSUME NEW c, Content(c), NEW is
    PROVE  Total(Weights(Picked(c, is))) <= Total(Weights(c))
<1> DEFINE n == Len(c)
           T == Range(c)
           w == Weights(c)
           W(u) == Total(Weights(u))
<1>1. n \in Nat /\ DOMAIN c = 1..n /\ c \in Seq(T) /\ \A i \in 1..n : c[i] \in T
  BY ContentFacts
<1>2. Len(w) = n /\ \A i \in 1..n : w[i] = BlockTokens(c[i]) /\ w[i] \in Nat
  BY <1>1, WeightsFacts
<1> HIDE DEF w, n, T
<1>3. PICK g \in [0..n -> Nat] : Sums(g, n, w) /\ Total(w) = g[n]
  BY <1>1, <1>2, TotalSteps
<1>4. PICK p \in [0..n -> Seq(T)] : Picks(p, c, is) /\ Picked(c, is) = p[n]
  <2>1. \E p \in [0..Len(c) -> Seq(T)] : Picks(p, c, is) /\ Picked(c, is) = p[Len(c)]
    BY <1>1, PickedSteps
  <2> QED
    BY <2>1 DEF n
<1>5. ASSUME NEW u \in Seq(T), NEW x \in T
      PROVE  W(u) \in Nat /\ W(Append(u, x)) = W(u) + BlockTokens(x)
  <2> DEFINE k == Len(u)
             v == Append(u, x)
  <2>1. k \in Nat /\ DOMAIN u = 1..k
    BY SeqFacts
  <2>2. v \in Seq(T) /\ Len(v) = k + 1 /\ v[k+1] = x /\ \A i \in 1..k : v[i] = u[i]
    BY AppendProperties
  <2> HIDE DEF v, k
  <2>3. k + 1 \in Nat /\ DOMAIN v = 1..k+1
    BY <2>1, <2>2, SeqFacts
  <2>4. Len(Weights(u)) = k /\ \A i \in 1..k : Weights(u)[i] = BlockTokens(u[i]) /\ Weights(u)[i] \in Nat
    BY <2>1, WeightsFacts
  <2>5. /\ Len(Weights(v)) = k + 1
        /\ \A i \in 1..k+1 : Weights(v)[i] = BlockTokens(v[i]) /\ Weights(v)[i] \in Nat
    BY <2>3, WeightsFacts
  <2>6. k + 1 \in 1..k+1 /\ \A i \in 1..k : i \in 1..k+1
    BY <2>1
  <2>7. \A i \in 1..k : Weights(v)[i] = Weights(u)[i]
    BY <2>2, <2>4, <2>5, <2>6
  <2>8. Weights(v)[k+1] \in Nat /\ Weights(v)[k+1] = BlockTokens(x)
    BY <2>2, <2>5, <2>6
  <2>9. Total(Weights(v)) = Total(Weights(u)) + Weights(v)[k+1]
    BY <2>1, <2>4, <2>5, <2>7, <2>8, TotalOne
  <2>10. Total(Weights(u)) \in Nat
    BY <2>1, <2>4, TotalIsNat
  <2> QED
    BY <2>8, <2>9, <2>10 DEF v
<1>6. \A i \in 0..n : W(p[i]) \in Nat /\ W(p[i]) <= g[i]
  <2> DEFINE P == {i \in 0..n : W(p[i]) \in Nat /\ W(p[i]) <= g[i]}
  <2>1. 0 \in P
    <3>1. p[0] = << >> /\ DOMAIN << >> = 1..0
      BY <1>4 DEF Picks
    <3>2. Len(Weights(<< >>)) = 0 /\ \A i \in 1..0 : Weights(<< >>)[i] \in Nat
      BY <3>1, WeightsFacts
    <3>3. Total(Weights(<< >>)) = 0
      <4> DEFINE v == Weights(<< >>)
                 z == 0
      <4>1. z \in Nat /\ Len(v) = z /\ \A i \in 1..z : v[i] \in Nat
        BY <3>2
      <4> HIDE DEF v, z
      <4>2. \E f \in [0..z -> Nat] : Sums(f, z, v) /\ Total(v) = f[z]
        BY <4>1, TotalSteps
      <4> QED
        BY <4>2 DEF Sums, v, z
    <3>4. W(p[0]) = 0 /\ g[0] = 0
      BY <1>3, <3>1, <3>3 DEF Sums
    <3> QED
      BY <1>1, <3>4
  <2>2. ASSUME NEW i \in 0..n, i \in P, i < n
        PROVE  i + 1 \in P
    <3>1. i + 1 \in 1..n /\ i + 1 \in 0..n /\ (i + 1) - 1 = i
      BY <1>1, <2>2
    <3>2. p[i] \in Seq(T) /\ c[i+1] \in T /\ g[i] \in Nat
      BY <1>1, <1>3, <1>4, <3>1
    <3>3. W(p[i]) \in Nat /\ W(p[i]) <= g[i]
      BY <2>2
    <3>4. g[i+1] = g[i] + w[i+1] /\ w[i+1] = BlockTokens(c[i+1]) /\ w[i+1] \in Nat
      BY <1>2, <1>3, <3>1 DEF Sums
    <3>5. p[i+1] = IF i + 1 \in is THEN Append(p[i], c[i+1]) ELSE p[i]
      BY <1>4, <3>1 DEF Picks, n
    <3>6. W(Append(p[i], c[i+1])) = W(p[i]) + BlockTokens(c[i+1])
      BY <1>5, <3>2
    <3> HIDE DEF W
    <3>7. W(p[i+1]) \in Nat /\ W(p[i+1]) <= g[i+1]
      <4>1. CASE i + 1 \in is
        BY <3>2, <3>3, <3>4, <3>5, <3>6, <4>1
      <4>2. CASE i + 1 \notin is
        BY <3>2, <3>3, <3>4, <3>5, <4>2
      <4> QED
        BY <4>1, <4>2
    <3> QED
      BY <3>1, <3>7
  <2>3. \A i \in 0..n : i \in P
    <3> HIDE DEF P
    <3> QED
      BY <1>1, <2>1, <2>2, Induction
  <2> QED
    BY <2>3
<1>7. n \in 0..n
  BY <1>1
<1> QED
  BY <1>3, <1>4, <1>6, <1>7 DEF w

\* The weights of messages.
Loads(ms) == [i \in DOMAIN ms |-> Tokens(ms[i])]

LEMMA LoadsFacts ==
    ASSUME NEW ms, Formed(ms)
    PROVE  /\ TokensOf(ms) = Total(Loads(ms)) /\ TokensOf(ms) \in Nat
           /\ Len(Loads(ms)) = Len(ms)
           /\ \A i \in 1..Len(ms) : Loads(ms)[i] = Tokens(ms[i]) /\ Loads(ms)[i] \in Nat
<1> DEFINE w == Loads(ms)
           n == Len(ms)
<1>1. n \in Nat /\ DOMAIN ms = 1..n /\ \A i \in 1..n : Content(ms[i].c)
  BY FormedFacts
<1>2. w = [i \in 1..n |-> w[i]] /\ \A i \in 1..n : w[i] = Tokens(ms[i])
  BY <1>1 DEF Loads
<1>3. TokensOf(ms) = Total(w)
  BY DEF TokensOf, Loads
<1> HIDE DEF w, n
<1>4. \A i \in 1..n : w[i] \in Nat
  BY <1>1, <1>2, TokensFacts
<1>5. Len(w) = n
  BY <1>1, <1>2, FunctionIsSeq
<1>6. Total(w) \in Nat
  BY <1>1, <1>4, <1>5, TotalIsNat
<1> QED
  BY <1>2, <1>3, <1>4, <1>5, <1>6 DEF w, n

LEMMA StrippedTokens ==
    ASSUME NEW ms, Formed(ms), NEW g, Stripped(g, ms)
    PROVE  TokensOf(g) <= TokensOf(ms)
<1> DEFINE n == Len(ms)
           s == Loads(g)
           t == Loads(ms)
<1>1. Formed(g) /\ Len(g) = n /\ n \in Nat
  BY FormedFacts DEF Stripped
<1>2. /\ TokensOf(g) = Total(s) /\ Len(s) = n
      /\ \A i \in 1..n : s[i] = Tokens(g[i]) /\ s[i] \in Nat
  BY <1>1, LoadsFacts
<1>3. /\ TokensOf(ms) = Total(t) /\ Len(t) = n
      /\ \A i \in 1..n : t[i] = Tokens(ms[i]) /\ t[i] \in Nat
  BY LoadsFacts
<1> HIDE DEF n, s, t
<1>4. \A i \in 1..n : s[i] <= t[i]
  <2> TAKE i \in 1..n
  <2> DEFINE m == ms[i]
             c == m.c
  <2>1. g[i] = m \/ g[i] = WithoutImages(m)
    BY DEF Stripped, n
  <2>2. Content(c) /\ m = Message(RoleAt(i), c)
    BY FormedFacts DEF MessageAt, n
  <2>3. Tokens(WithoutImages(m)) <= Tokens(m)
    <3> DEFINE d == Picked(c, {j \in DOMAIN c : c[j].k # "image"})
               r == RoleAt(i)
    <3>1. WithoutImages(m).c = d
      <4>1. WithoutImages(m) = [m EXCEPT !.c = d]
        BY DEF WithoutImages
      <4> HIDE DEF d, m, c, r
      <4>2. m = Message(r, c)
        BY <2>2 DEF r
      <4> QED
        BY <4>1, <4>2, MessageFacts
    <3>2. Content(d) /\ Total(Weights(d)) <= Total(Weights(c))
      <4> HIDE DEF m, c
      <4> QED
        BY <2>2, PickedContent, PickedWeights
    <3> HIDE DEF d, m
    <3>3. Content(WithoutImages(m).c)
      BY <3>1, <3>2
    <3>4. Tokens(WithoutImages(m)) = Total(Weights(WithoutImages(m).c))
      BY <3>3, TokensFacts
    <3>5. Tokens(m) = Total(Weights(c))
      BY <2>2, TokensFacts
    <3> QED
      BY <3>1, <3>2, <3>4, <3>5
  <2> HIDE DEF m
  <2>4. s[i] = Tokens(g[i]) /\ t[i] = Tokens(m) /\ s[i] \in Nat /\ t[i] \in Nat
    BY <1>2, <1>3 DEF m
  <2> QED
    BY <2>1, <2>3, <2>4
<1>5. /\ n > 0 => s[1] <= t[1]
      /\ \A i \in 2..n : s[i] <= t[i + n - n]
  <2>1. n > 0 => 1 \in 1..n
    BY <1>1
  <2>2. \A i \in 2..n : i \in 1..n /\ i + n - n = i
    BY <1>1
  <2> QED
    BY <1>4, <2>1, <2>2
<1>6. \A i \in 1..n : s[i] \in Nat /\ t[i] \in Nat
  BY <1>2, <1>3
<1>7. n <= n
  BY <1>1
<1>8. Total(s) <= Total(t)
  BY <1>1, <1>2, <1>3, <1>5, <1>6, <1>7, TotalShifted
<1> QED
  BY <1>2, <1>3, <1>8

LEMMA ThinnedTokens ==
    ASSUME NEW ms, Formed(ms), Len(ms) % 2 = 1, NEW a \in 2..Len(ms)+1, a % 2 = 0,
           NEW is, From(a, Len(ms)) \subseteq is
    PROVE  TokensOf(Thinned(ms, a)) <= TokensAt(ms, is)
<1> DEFINE k == Len(ms)
           g == Thinned(ms, a)
           n == Len(g)
           s == Loads(g)
           t == [i \in DOMAIN ms |-> IF i \in is THEN Tokens(ms[i]) ELSE 0]
<1>1. /\ k \in Nat /\ DOMAIN ms = 1..k /\ k # 0
      /\ \A i \in 1..k : Content(ms[i].c)
  BY FormedFacts
<1>2. /\ Formed(g) /\ n = k - a + 2 /\ g[1] = ms[1]
      /\ \A j \in 2..n : a + j - 2 \in 1..k /\ g[j] = ms[a + j - 2]
  <2>1. Formed(Thinned(ms, a)) /\ Len(Thinned(ms, a)) = Len(ms) - a + 2
    BY ThinnedFormed, Zenon
  <2>2. a \in 2..k+1
    OBVIOUS
  <2> DEFINE m == k - a + 2
             At(j) == IF j = 1 THEN ms[1] ELSE ms[a + j - 2]
  <2>3. Thinned(ms, a) = [j \in 1..m |-> At(j)]
    BY DEF Thinned
  <2> HIDE DEF k
  <2>4. 1 \in 1..m /\ \A j \in 2..m : j \in 1..m /\ j # 1 /\ a + j - 2 \in 1..k
    BY <1>1, <2>2
  <2> HIDE DEF m
  <2>5. Thinned(ms, a)[1] = ms[1] /\ \A j \in 2..m : Thinned(ms, a)[j] = ms[a + j - 2]
    BY <2>3, <2>4
  <2> HIDE DEF g
  <2> QED
    BY <2>1, <2>4, <2>5 DEF g, k, m
<1>3. n \in Nat /\ n > 0 /\ n <= k
  <2> HIDE DEF k, n
  <2>1. a \in 2..k+1
    BY DEF k
  <2> QED
    BY <1>1, <1>2, <2>1
<1> HIDE DEF g, n
<1>4. /\ TokensOf(g) = Total(s) /\ Len(s) = n
      /\ \A i \in 1..n : s[i] = Tokens(g[i]) /\ s[i] \in Nat
  BY <1>2, LoadsFacts DEF n
<1>5. t = [i \in 1..k |-> t[i]] /\ \A i \in 1..k : t[i] = IF i \in is THEN Tokens(ms[i]) ELSE 0
  BY <1>1
<1>6. TokensAt(ms, is) = Total(t)
  BY DEF TokensAt
<1> HIDE DEF s, t
<1>7. Len(t) = k
  BY <1>1, <1>5, FunctionIsSeq
<1>8. \A i \in 1..k : t[i] \in Nat
  BY <1>1, <1>5, TokensFacts
<1>9. \A i \in 1..k : i = 1 \/ i >= a => t[i] = Tokens(ms[i])
  <2> TAKE i \in 1..k
  <2>1. i = 1 \/ i >= a => i \in From(a, k)
    BY <1>1 DEF From
  <2> QED
    BY <1>5, <2>1
<1> HIDE DEF k
<1>10. s[1] <= t[1]
  <2>1. 1 \in 1..n /\ 1 \in 1..k
    BY <1>1, <1>3
  <2>2. s[1] = t[1] /\ t[1] \in Nat
    BY <1>2, <1>4, <1>8, <1>9, <2>1
  <2> QED
    BY <2>2
<1>11. \A i \in 2..n : s[i] <= t[i + k - n]
  <2> TAKE i \in 2..n
  <2>1. a \in 2..k+1 /\ i \in 1..n
    BY <1>3 DEF k
  <2>2. i + k - n = a + i - 2 /\ a + i - 2 >= a /\ a + i - 2 \in 1..k
    BY <1>1, <1>2, <1>3, <2>1
  <2>3. s[i] = Tokens(ms[a + i - 2]) /\ t[a + i - 2] = Tokens(ms[a + i - 2]) /\ s[i] \in Nat
    BY <1>2, <1>4, <1>9, <2>1, <2>2
  <2>4. s[i] = t[i + k - n] /\ s[i] \in Nat
    BY <2>2, <2>3
  <2> QED
    BY <2>4
<1>12. Total(s) <= Total(t)
  <2>1. \A i \in 1..n : s[i] \in Nat
    BY <1>4
  <2>2. n > 0 => s[1] <= t[1]
    BY <1>10
  <2> QED
    BY <1>1, <1>3, <1>4, <1>7, <1>8, <1>11, <2>1, <2>2, TotalShifted
<1> QED
  BY <1>4, <1>6, <1>12 DEF g

-----------------------------------------------------------------------------
(* A conversation that grows does not get lighter. *)

LEMMA LargerIs ==
    ASSUME NEW a \in Int, NEW b \in Int
    PROVE  Larger(a, b) = IF a >= b THEN a ELSE b
<1> DEFINE S == {a, b}
           c == IF a >= b THEN a ELSE b
<1>1. c \in S /\ \A y \in S : c >= y
  OBVIOUS
<1>2. \A x \in S : (\A y \in S : x >= y) => x = c
  OBVIOUS
<1>3. Larger(a, b) = CHOOSE x \in S : \A y \in S : x >= y
  BY DEF Larger, Max
<1> HIDE DEF S, c
<1>4. Larger(a, b) = c
  BY <1>1, <1>2, <1>3
<1> QED
  BY <1>4 DEF c

LEMMA LargerGrows ==
    ASSUME NEW a \in Int, NEW b \in Int, NEW c \in Nat, a <= b
    PROVE  Larger(a, c) <= Larger(b, c) /\ Larger(a, c) \in Nat /\ Larger(b, c) \in Nat
<1>1. Larger(a, c) = IF a >= c THEN a ELSE c
  BY LargerIs
<1>2. Larger(b, c) = IF b >= c THEN b ELSE c
  BY LargerIs
<1>3. c <= Larger(b, c) /\ b <= Larger(b, c) /\ Larger(b, c) \in Nat
  BY <1>2
<1>4. (Larger(a, c) = a /\ a >= c) \/ Larger(a, c) = c
  BY <1>1
<1> HIDE DEF Larger
<1>5. CASE Larger(a, c) = a /\ a >= c
  BY <1>3, <1>5
<1>6. CASE Larger(a, c) = c
  BY <1>3, <1>6
<1> QED
  BY <1>3, <1>4, <1>5, <1>6

LEMMA NotLess ==
    ASSUME NEW w \in Nat, NEW x \in Nat, NEW y \in Nat, NEW z \in Nat,
           w <= x, x < y, y <= z
    PROVE  z > w
OBVIOUS

\* What a first request may weigh, one with an answer in it may not.
LEMMA TriggerOfFirst ==
    ASSUME NEW p \in DOMAIN Window
    PROVE  /\ MessageTrigger(p, FALSE) <= MessageTrigger(p, TRUE)
           /\ MessageTrigger(p, FALSE) \in Nat /\ MessageTrigger(p, TRUE) \in Nat
<1> DEFINE w == Window[p]
           part == (w * 90) \div 100
           most == (w * 75) \div 100
           floor == Larger(Calibrated(most) \div 4, 1000)
           low == Calibrated(part) - Overhead
           high == Calibrated(w) - Overhead
<1>1. w \in Nat /\ Overhead \in Nat
  BY CompressionAssumption
<1> HIDE DEF w
<1>2. part \in Nat /\ most \in Nat /\ part <= w /\ part \div 2 <= most /\ part \div 2 \in Nat
  BY <1>1
<1>3. Trigger(p, FALSE) = part /\ Trigger(p, TRUE) = w
  BY DEF Trigger, w
<1>4. Target(p, FALSE) = most /\ Target(p, TRUE) = most
  <2>1. Target(p, FALSE) = Larger(most, part \div 2)
    BY <1>3 DEF Target, w
  <2>2. Target(p, TRUE) = Larger(most, 0)
    <3>1. 0 <= most
      BY <1>2
    <3>2. Target(p, TRUE) = Larger(most, IF TRUE THEN 0 ELSE Trigger(p, TRUE) \div 2)
      BY DEF Target, w
    <3> QED
      BY <3>2
  <2> DEFINE half == part \div 2
  <2>3. half \in Nat /\ most \in Nat /\ half <= most
    BY <1>2
  <2>4. Target(p, FALSE) = Larger(most, half)
    BY <2>1
  <2> HIDE DEF part, most, half
  <2>5. Larger(most, half) = most
    <3>1. Larger(most, half) = IF most >= half THEN most ELSE half
      BY <2>3, LargerIs
    <3> QED
      BY <2>3, <3>1
  <2>6. Larger(most, 0) = most
    <3>1. Larger(most, 0) = IF most >= 0 THEN most ELSE 0
      BY <2>3, LargerIs
    <3> QED
      BY <2>3, <3>1
  <2> QED
    BY <2>2, <2>4, <2>5, <2>6
<1>5. /\ MessageTrigger(p, FALSE) = Larger(low, floor)
      /\ MessageTrigger(p, TRUE) = Larger(high, floor)
  <2> DEFINE FloorOf(t) == Larger(Calibrated(t) \div 4, 1000)
  <2>1. Floor(p, FALSE) = FloorOf(Target(p, FALSE)) /\ Floor(p, TRUE) = FloorOf(Target(p, TRUE))
    BY DEF Floor
  <2>2. Floor(p, FALSE) = floor /\ Floor(p, TRUE) = floor
    <3>1. floor = FloorOf(most)
      OBVIOUS
    <3> HIDE DEF FloorOf, floor, most, part
    <3> QED
      BY <1>4, <2>1, <3>1
  <2> HIDE DEF floor
  <2>3. MessageTrigger(p, FALSE) = Larger(low, floor)
    <3>1. MessageTrigger(p, FALSE)
             = Larger(Calibrated(Trigger(p, FALSE)) - Overhead, Floor(p, FALSE))
      BY DEF MessageTrigger
    <3> QED
      BY <1>3, <2>2, <3>1
  <2>4. MessageTrigger(p, TRUE) = Larger(high, floor)
    <3>1. MessageTrigger(p, TRUE)
             = Larger(Calibrated(Trigger(p, TRUE)) - Overhead, Floor(p, TRUE))
      BY DEF MessageTrigger
    <3> QED
      BY <1>3, <2>2, <3>1
  <2> QED
    BY <2>3, <2>4
<1> HIDE DEF part, most
<1>6. floor \in Nat
  <2> DEFINE q == Calibrated(most) \div 4
  <2>1. q \in Nat
    BY <1>2 DEF Calibrated
  <2> HIDE DEF q
  <2>2. Larger(q, 1000) = IF q >= 1000 THEN q ELSE 1000
    BY <2>1, LargerIs
  <2> QED
    BY <2>1, <2>2 DEF q
<1>7. low \in Int /\ high \in Int /\ low <= high
  <2>1. /\ Calibrated(part) \in Nat /\ Calibrated(w) \in Nat
        /\ Calibrated(part) <= Calibrated(w)
    BY <1>1, <1>2 DEF Calibrated
  <2> QED
    BY <1>1, <2>1
<1> HIDE DEF floor, low, high
<1>8. /\ Larger(low, floor) <= Larger(high, floor)
      /\ Larger(low, floor) \in Nat /\ Larger(high, floor) \in Nat
  BY <1>6, <1>7, LargerGrows
<1> QED
  BY <1>5, <1>8

LEMMA FirstIs ==
    ASSUME NEW ms, Formed(ms)
    PROVE  /\ IsFirst(ms) <=> Len(ms) <= 1
           /\ IsFirst(ms) \in BOOLEAN
<1>1. Len(ms) \in Nat /\ Range(ms) = {ms[i] : i \in 1..Len(ms)}
  BY FormedFacts
<1>2. \A i \in 1..Len(ms) : ms[i].role = RoleAt(i)
  BY Roles
<1>3. RoleAt(1) = "user" /\ RoleAt(2) = "assistant"
  BY DEF RoleAt
<1>4. IsFirst(ms) <=> \A i \in 1..Len(ms) : RoleAt(i) # "assistant"
  BY <1>1, <1>2 DEF IsFirst
<1>5. Len(ms) <= 1 => \A i \in 1..Len(ms) : i = 1
  BY <1>1
<1>6. ~(Len(ms) <= 1) => 2 \in 1..Len(ms)
  BY <1>1
<1> QED
  BY <1>3, <1>4, <1>5, <1>6 DEF IsFirst

\* ns is ms with one more message.
Longer(ns, ms) == Len(ns) = Len(ms) + 1 /\ \A i \in 1..Len(ms) : ns[i] = ms[i]

LEMMA SameUnanswered ==
    ASSUME NEW c, Content(c), NEW I, NEW J, \A b \in ResultsOf(c) : b.id \in I <=> b.id \in J
    PROVE  Unanswered(c, I) = Unanswered(c, J)
<1>1. DOMAIN c = 1..Len(c) /\ \A i \in 1..Len(c) : c[i] \in Range(c)
  BY ContentFacts
<1>2. \A i \in DOMAIN c : c[i].k = "result" => (c[i].id \in I <=> c[i].id \in J)
  BY <1>1 DEF ResultsOf
<1>3. {i \in DOMAIN c : c[i].k # "result" \/ c[i].id \notin I}
       = {i \in DOMAIN c : c[i].k # "result" \/ c[i].id \notin J}
  BY <1>2
<1> QED
  BY <1>3 DEF Unanswered

\* The scrub does not look ahead of a message and its calls.
LEMMA ScrubbedGrown ==
    ASSUME NEW ms, NEW ns, Formed(ms), Formed(ns), Numbered(ms), Numbered(ns), Longer(ns, ms),
           NEW p
    PROVE  Longer(Scrubbed(ns, p), Scrubbed(ms, p))
<1> DEFINE k == Len(ms)
           I == MalformedIds(ms)
           J == MalformedIds(ns)
<1>1. /\ k \in Nat /\ ms = [i \in 1..k |-> ms[i]]
      /\ \A i \in 1..k : Content(ms[i].c)
  BY FormedFacts
<1>2. /\ Len(ns) = k + 1 /\ \A i \in 1..k : ns[i] = ms[i]
  BY DEF Longer
<1>3. /\ k + 1 \in Nat /\ ns = [i \in 1..k+1 |-> ns[i]]
  BY <1>1, <1>2, FormedFacts
<1>4. \A i \in 1..k : i \in 1..k+1
  BY <1>1
<1>5. \A id : id \in I <=> \E i \in 1..k : \E b \in UsesIn(ms[i].c) : ~b.good /\ b.id = id
  BY <1>1, MalformedIdsOf
<1>6. \A id : id \in J <=> \E i \in 1..k+1 : \E b \in UsesIn(ns[i].c) : ~b.good /\ b.id = id
  BY <1>3, MalformedIdsOf
<1> HIDE DEF I, J
<1>7. ASSUME NEW i \in 1..k, NEW b \in ResultsOf(ms[i].c)
      PROVE  b.id \in I <=> b.id \in J
  <2>1. b.id \in I => b.id \in J
    BY <1>2, <1>4, <1>5, <1>6
  <2>2. ASSUME b.id \in J
        PROVE  b.id \in I
    <3>1. b.id \in ResultIds(ms[i])
      BY IdsOf
    <3>2. i # 1 /\ b.id \in UseIds(ms[i-1])
      BY <3>1 DEF Formed, Answered
    <3>3. i - 1 \in 1..k
      BY <1>1, <3>2
    <3>4. PICK u \in UsesIn(ms[i-1].c) : u.id = b.id
      BY <3>2, IdsOf
    <3>5. b.id[1] = i - 1
      BY <3>3, <3>4 DEF Numbered
    <3>6. PICK j \in 1..k+1 : \E v \in UsesIn(ns[j].c) : ~v.good /\ v.id = b.id
      BY <1>6, <2>2
    <3>7. PICK v \in UsesIn(ns[j].c) : ~v.good /\ v.id = b.id
      BY <3>6
    <3>8. j = i - 1
      BY <1>2, <3>5, <3>7 DEF Numbered
    <3>9. j \in 1..k /\ v \in UsesIn(ms[j].c)
      BY <1>2, <3>3, <3>7, <3>8
    <3> QED
      BY <1>5, <3>7, <3>9
  <2> QED
    BY <2>1, <2>2
<1>8. ASSUME NEW i \in 1..k
      PROVE  ScrubbedMessage(ns[i], p, J) = ScrubbedMessage(ms[i], p, I)
  <2> DEFINE c == ms[i].c
             s == SanitizeContentBlocks(c, p)
             n == Noted(s)
  <2>1. Content(s) /\ ResultsOf(s) = ResultsOf(c)
    BY <1>1, SanitizedContent
  <2> HIDE DEF s
  <2>2. Content(n) /\ ResultsOf(n) = ResultsOf(s)
    BY <2>1, NotedContent
  <2> HIDE DEF n
  <2>3. \A b \in ResultsOf(n) : b.id \in I <=> b.id \in J
    BY <1>7, <2>1, <2>2
  <2>4. Unanswered(n, I) = Unanswered(n, J)
    BY <2>2, <2>3, SameUnanswered
  <2>5. ns[i] = ms[i]
    BY <1>2
  <2> QED
    BY <2>4, <2>5 DEF ScrubbedMessage, ScrubbedContent, n, s
<1>9. /\ Scrubbed(ms, p) = [i \in 1..k |-> ScrubbedMessage(ms[i], p, I)]
      /\ Scrubbed(ns, p) = [i \in 1..k+1 |-> ScrubbedMessage(ns[i], p, J)]
  BY <1>2, ScrubbedIs DEF I, J
<1>10. \A i \in 1..k : Scrubbed(ns, p)[i] = Scrubbed(ms, p)[i]
  BY <1>4, <1>8, <1>9
<1>11. Len(Scrubbed(ms, p)) = k /\ Len(Scrubbed(ns, p)) = k + 1
  BY <1>2, ScrubbedFormed
<1> QED
  BY <1>10, <1>11 DEF Longer

LEMMA OverGrown ==
    ASSUME NEW ms, NEW ns, Formed(ms), Formed(ns), Longer(ns, ms), ms # << >>,
           NEW p \in DOMAIN Window, OverTrigger(ms, p)
    PROVE  OverTrigger(ns, p)
<1> DEFINE n == Len(ms)
           s == Loads(ms)
           t == Loads(ns)
<1>1. n \in Nat /\ n # 0
  BY FormedFacts
<1>2. /\ TokensOf(ms) = Total(s) /\ TokensOf(ms) \in Nat /\ Len(s) = n
      /\ \A i \in 1..n : s[i] = Tokens(ms[i]) /\ s[i] \in Nat
  BY LoadsFacts
<1>3. Len(ns) = n + 1 /\ \A i \in 1..n : ns[i] = ms[i]
  BY DEF Longer
<1>4. /\ TokensOf(ns) = Total(t) /\ Len(t) = n + 1
      /\ \A i \in 1..n+1 : t[i] = Tokens(ns[i]) /\ t[i] \in Nat
  BY <1>3, LoadsFacts
<1> HIDE DEF n, s, t
<1>5. n + 1 \in 1..n+1 /\ \A i \in 1..n : i \in 1..n+1
  BY <1>1
<1>6. t[n+1] \in Nat /\ (\A i \in 1..n : s[i] \in Nat) /\ (\A i \in 1..n : t[i] = s[i])
  BY <1>2, <1>3, <1>4, <1>5
<1>7. Total(t) = Total(s) + t[n+1]
  BY <1>1, <1>2, <1>4, <1>6, TotalOne
<1>8. TokensOf(ms) <= TokensOf(ns) /\ TokensOf(ns) \in Nat
  BY <1>2, <1>4, <1>6, <1>7
<1>9. IsFirst(ns) = FALSE
  <2>1. ~(n + 1 <= 1)
    BY <1>1
  <2> QED
    BY <1>3, <2>1, FirstIs
<1> DEFINE low  == MessageTrigger(p, FALSE)
           high == MessageTrigger(p, TRUE)
           mine == MessageTrigger(p, IsFirst(ms))
<1>10. mine = high \/ mine = low
  <2>1. IsFirst(ms) = TRUE \/ IsFirst(ms) = FALSE
    BY FirstIs
  <2> QED
    BY <2>1
<1>11. low <= high /\ low \in Nat /\ high \in Nat
  BY TriggerOfFirst
<1>12. TokensOf(ms) > mine
  BY DEF OverTrigger
<1>13. OverTrigger(ns, p) <=> TokensOf(ns) > low
  BY <1>9 DEF OverTrigger
<1> HIDE DEF low, high, mine
<1>14. low <= mine /\ mine \in Nat /\ mine < TokensOf(ms)
  BY <1>2, <1>10, <1>11, <1>12
<1>15. TokensOf(ns) > low
  BY <1>2, <1>8, <1>11, <1>14, NotLess
<1> QED
  BY <1>13, <1>15

-----------------------------------------------------------------------------
(* The inductive invariant. *)

\* What the hook before routing compresses.
Asked == Scrubbed(history, route[1])

Types == route \in Routes /\ attempt \in 0..Len(route) /\ marked \in BOOLEAN
Shape == Formed(history) /\ Numbered(history) /\ history # << >>

\* The request is the conversation, which nobody continues meanwhile, scrubbed and
\* compressed for the first deployment; a conversation that needed it is marked.
RequestIs ==
    /\ request = Nobody => attempt = 0
    /\ request # Nobody => /\ Len(history) % 2 = 1
                           /\ request = Compressed(Asked, route[1])
                           /\ NeedsMark(Asked, route[1]) => marked

\* A deployment is sent the request scrubbed for it, compressed again only when
\* nothing was to be done before.
SentIs ==
    attempt > 0 =>
        \/ sent = Scrubbed(request, route[attempt])
        \/ /\ ~NeedsMark(Asked, route[1])
           /\ sent = Compressed(Scrubbed(request, route[attempt]), route[attempt])

CutResult(b) == b = [k |-> "result", id |-> b.id, big |-> FALSE]

\* Where a result was noted the conversation is too long, and the result was cut.
SeenIs ==
    /\ seen = [p \in Providers |-> seen[p]]
    /\ \A p \in Providers : seen[p] # {} => /\ OverTrigger(Scrubbed(history, p), p)
                                            /\ \A b \in seen[p] : CutResult(b)

IInv == Types /\ Shape /\ RequestIs /\ SentIs /\ SeenIs

LEMMA RouteFacts ==
    ASSUME NEW r \in Routes
    PROVE  /\ Len(r) \in Nat /\ Len(r) > 0
           /\ \A i \in 1..Len(r) : r[i] \in DOMAIN Window /\ r[i] \in Providers
<1>1. r \in Seq(DOMAIN Window) /\ r # << >>
  BY ConversationAssumption
<1>2. Len(r) \in Nat /\ Range(r) = {r[i] : i \in 1..Len(r)} /\ \A i \in 1..Len(r) : r[i] \in DOMAIN Window
  BY <1>1, SeqFacts
<1>3. Len(r) # 0
  BY <1>1, EmptySeq
<1>4. Range(r) \subseteq Providers
  BY DEF Providers
<1> QED
  BY <1>2, <1>3, <1>4

LEMMA ProviderHasWindow ==
    ASSUME NEW p \in Providers
    PROVE  p \in DOMAIN Window
<1>1. PICK r \in Routes : p \in Range(r)
  BY DEF Providers
<1>2. r \in Seq(DOMAIN Window)
  BY ConversationAssumption
<1>3. Range(r) \subseteq DOMAIN Window
  BY <1>2, SeqFacts
<1> QED
  BY <1>1, <1>3

\* What was too long stays too long.
LEMMA SeenGrown ==
    ASSUME NEW old, NEW new, Formed(old), Numbered(old), old # << >>, Formed(new), Numbered(new),
           Longer(new, old), NEW p \in Providers, OverTrigger(Scrubbed(old, p), p)
    PROVE  OverTrigger(Scrubbed(new, p), p)
<1>1. Longer(Scrubbed(new, p), Scrubbed(old, p))
  BY ScrubbedGrown
<1>2. Formed(Scrubbed(old, p)) /\ Len(Scrubbed(old, p)) = Len(old) /\ Formed(Scrubbed(new, p))
  BY ScrubbedFormed
<1>3. Scrubbed(old, p) # << >>
  <2>1. Len(old) # 0
    BY FormedFacts
  <2> QED
    BY <1>2, <2>1, FormedFacts
<1>4. p \in DOMAIN Window
  BY ProviderHasWindow
<1> QED
  BY <1>1, <1>2, <1>3, <1>4, OverGrown

LEMMA AllCutIs ==
    ASSUME NEW ms, Formed(ms), AllCut(ms)
    PROVE  \A b \in ResultsIn(ms) : CutResult(b)
<1>1. Range(ms) = {ms[i] : i \in 1..Len(ms)}
  BY FormedFacts
<1>2. \A b \in ResultsIn(ms) : \E i \in 1..Len(ms) : b \in ResultsOf(ms[i].c)
  BY <1>1 DEF ResultsIn, ResultsOf
<1> QED
  BY <1>2 DEF AllCut, CutResult

LEMMA ScrubbedParts ==
    ASSUME NEW ms, Formed(ms), NEW p
    PROVE  \A i \in 1..Len(ms) :
              /\ ResultsOf(Scrubbed(ms, p)[i].c) \subseteq ResultsOf(ms[i].c)
              /\ \A b \in Range(Scrubbed(ms, p)[i].c) : b \in Range(ms[i].c) \/ b.k = "text"
<1> TAKE i \in 1..Len(ms)
<1> DEFINE ids == MalformedIds(ms)
           c == ms[i].c
           d == ScrubbedContent(c, p, ids)
<1>1. Scrubbed(ms, p)[i] = Message(ms[i].role, d)
  BY ScrubbedIs DEF ScrubbedMessage
<1>2. Content(c)
  BY FormedFacts
<1> HIDE DEF ids, c
<1>3. /\ ResultsOf(d) = {b \in ResultsOf(c) : b.id \notin ids}
      /\ \A b \in Range(d) : b \in Range(c) \/ b.k = "text"
  BY <1>2, ScrubbedContentFacts
<1> HIDE DEF d
<1>4. Scrubbed(ms, p)[i].c = d
  BY <1>1, MessageFacts
<1> QED
  BY <1>3, <1>4 DEF c

LEMMA ScrubbedKeeps ==
    ASSUME NEW ms, Formed(ms), NEW p
    PROVE  /\ AllCut(ms) => AllCut(Scrubbed(ms, p))
           /\ Imageless(ms) => Imageless(Scrubbed(ms, p))
<1>1. Len(Scrubbed(ms, p)) = Len(ms)
  BY ScrubbedFormed
<1>2. AllCut(ms) => AllCut(Scrubbed(ms, p))
  BY <1>1, ScrubbedParts DEF AllCut
<1>3. Imageless(ms) => Imageless(Scrubbed(ms, p))
  <2> SUFFICES ASSUME Imageless(ms), NEW i \in 1..Len(ms), NEW b \in Range(Scrubbed(ms, p)[i].c)
               PROVE  b.k # "image"
    BY <1>1 DEF Imageless, NoImages
  <2>1. b \in Range(ms[i].c) \/ b.k = "text"
    BY ScrubbedParts
  <2> QED
    BY <2>1 DEF Imageless, NoImages
<1> QED
  BY <1>2, <1>3

\* What is asked for.
LEMMA AskedFacts ==
    ASSUME IInv, Len(history) % 2 = 1
    PROVE  /\ Formed(Asked) /\ Len(Asked) = Len(history) /\ Len(Asked) % 2 = 1
           /\ Taken(Asked, route[1]) /\ NoneEmpty(Asked)
           /\ Formed(Compressed(Asked, route[1])) /\ Len(Compressed(Asked, route[1])) % 2 = 1
           /\ Taken(Compressed(Asked, route[1]), route[1])
           /\ OverTrigger(Asked, route[1]) => AllCut(Compressed(Asked, route[1]))
<1>1. /\ Formed(Asked) /\ Len(Asked) = Len(history) /\ Len(Asked) % 2 = 1
      /\ Taken(Asked, route[1]) /\ NoneEmpty(Asked)
  BY ScrubbedFormed DEF IInv, Shape, Asked
<1>2. /\ Formed(Compressed(Asked, route[1])) /\ Len(Compressed(Asked, route[1])) % 2 = 1
      /\ \A p : Taken(Asked, p) => Taken(Compressed(Asked, route[1]), p)
      /\ OverTrigger(Asked, route[1]) => AllCut(Compressed(Asked, route[1]))
  BY <1>1, CompressedFacts
<1> QED
  BY <1>1, <1>2

LEMMA InitInvariant == Init => IInv
<1> SUFFICES ASSUME Init
             PROVE  IInv
  OBVIOUS
<1> USE DEF Init
<1>1. PICK c \in Openings : history = <<Message("user", c)>>
  BY DEF Init
<1>2. Content(c) /\ (\A b \in Range(c) : b.k \in Asking) /\ ResultsOf(c) = {}
  BY OpeningContent
<1>3. Shape
  <2> DEFINE m == Message("user", c)
             h == <<m>>
  <2>1. m.c = c /\ m = Message(RoleAt(1), m.c)
    BY DEF RoleAt, Message
  <2>2. h = [i \in 1..1 |-> h[i]] /\ Len(h) = 1 /\ h[1] = m /\ h # << >> /\ 1 \in Nat
    OBVIOUS
  <2>3. UsesIn(c) = {}
    BY <1>2 DEF UsesIn, Asking
  <2>4. ResultIds(m) = {}
    BY <1>2, <2>1, IdsOf
  <2> HIDE DEF m, h
  <2>5. MessageAt(m, 1)
    BY <1>2, <2>1 DEF MessageAt
  <2>6. \A i \in 1..1 : i = 1
    OBVIOUS
  <2>7. /\ \A i \in 1..1 : MessageAt(h[i], i)
        /\ \A i \in 1..1 : ResultIds(h[i]) = IF i = 1 THEN {} ELSE UseIds(h[i-1])
        /\ \A i, j \in 1..1 : \A a \in UsesIn(h[i].c), b \in UsesIn(h[j].c) :
               a.id = b.id => i = j /\ a = b
        /\ \A i \in 1..1 : \A b \in UsesIn(h[i].c) : b.id[1] = i
    BY <2>1, <2>2, <2>3, <2>4, <2>5, <2>6
  <2>8. Formed(h)
    BY <2>2, <2>7, MadeFormed
  <2>9. Numbered(h)
    BY <2>2, <2>7 DEF Numbered
  <2> QED
    BY <1>1, <2>2, <2>8, <2>9 DEF Shape, m, h
<1>4. Types
  <2>1. route \in Routes /\ attempt = 0 /\ marked = FALSE
    BY DEF Init
  <2>2. Len(route) \in Nat
    BY <2>1, RouteFacts
  <2>3. 0 \in 0..Len(route)
    BY <2>2
  <2> QED
    BY <2>1, <2>3 DEF Types
<1>5. RequestIs /\ SentIs /\ SeenIs
  BY DEF RequestIs, SentIs, SeenIs
<1> QED
  BY <1>3, <1>4, <1>5 DEF IInv

LEMMA AskInvariant == IInv /\ Ask => IInv'
<1> SUFFICES ASSUME IInv, Ask
             PROVE  IInv'
  OBVIOUS
<1>1. /\ attempt = 0 /\ request = Nobody /\ Last(history).role = "user"
      /\ request' = Compressed(Asked, route[1]) /\ marked' = NeedsMark(Asked, route[1])
      /\ UNCHANGED <<history, route, attempt, sent, made, seen>>
  BY DEF Ask, Asked
<1>2. Asked' = Asked
  BY <1>1 DEF Asked
<1>3. Len(history) % 2 = 1
  BY <1>1, LastOfFormed DEF IInv, Shape
<1>4. Types'
  <2>1. marked' \in BOOLEAN
    BY <1>1 DEF NeedsMark
  <2> QED
    BY <1>1, <2>1 DEF IInv, Types
<1>5. Shape'
  BY <1>1 DEF IInv, Shape
<1>6. RequestIs'
  BY <1>1, <1>2, <1>3 DEF RequestIs
<1>7. SentIs'
  BY <1>1 DEF SentIs
<1>8. SeenIs'
  BY <1>1 DEF IInv, SeenIs
<1> QED
  BY <1>4, <1>5, <1>6, <1>7, <1>8 DEF IInv

\* Where the first deployment is sent a conversation that is too long, the results
\* it is sent are cut.
LEMMA FirstIsCut ==
    ASSUME IInv, request # Nobody, Attempt, attempt = 0, OverTrigger(Asked, route[1])
    PROVE  \A b \in ResultsIn(sent') : CutResult(b)
<1>1. Len(history) % 2 = 1 /\ request = Compressed(Asked, route[1]) /\ marked
  BY DEF IInv, RequestIs, NeedsMark
<1>2. Formed(request) /\ AllCut(request)
  BY <1>1, AskedFacts
<1>3. sent' = Scrubbed(request, route[1])
  <2>1. attempt + 1 = 1
    OBVIOUS
  <2> QED
    BY <1>1, <2>1 DEF Attempt
<1>4. Formed(sent') /\ AllCut(sent')
  BY <1>2, <1>3, ScrubbedFormed, ScrubbedKeeps
<1> QED
  BY <1>4, AllCutIs

LEMMA AttemptInvariant == IInv /\ Attempt => IInv'
<1> SUFFICES ASSUME IInv, Attempt
             PROVE  IInv'
  OBVIOUS
<1> DEFINE p == route[attempt + 1]
           ms == Scrubbed(request, p)
<1>1. /\ request # Nobody /\ attempt < Len(route) /\ attempt' = attempt + 1
      /\ sent' = IF marked THEN ms ELSE Compressed(ms, p)
      /\ marked' = (marked \/ NeedsMark(ms, p))
      /\ seen' = IF attempt = 0 /\ OverTrigger(Asked, route[1])
                 THEN [seen EXCEPT ![route[1]] = ResultsIn(sent')] ELSE seen
      /\ UNCHANGED <<history, route, request, made>>
  BY DEF Attempt, Asked
<1>2. Asked' = Asked
  BY <1>1 DEF Asked
<1>3. /\ Types /\ Shape /\ RequestIs /\ SeenIs
      /\ Len(route) \in Nat /\ Len(route) > 0 /\ route[1] \in Providers
  <2>1. Types /\ Shape /\ RequestIs /\ SeenIs
    BY DEF IInv
  <2>2. route \in Routes
    BY <2>1 DEF Types
  <2>3. Len(route) \in Nat /\ Len(route) > 0 /\ \A i \in 1..Len(route) : route[i] \in Providers
    BY <2>2, RouteFacts
  <2>4. 1 \in 1..Len(route)
    BY <2>3
  <2> QED
    BY <2>1, <2>3, <2>4
<1> HIDE DEF ms
<1>4. Types'
  <2>1. attempt \in 0..Len(route) /\ route \in Routes /\ marked \in BOOLEAN
    BY <1>3 DEF Types
  <2>2. attempt' \in 0..Len(route')
    BY <1>1, <1>3, <2>1
  <2>3. marked' \in BOOLEAN
    BY <1>1
  <2>4. route' \in Routes
    BY <1>1, <2>1
  <2> QED
    BY <2>2, <2>3, <2>4 DEF Types
<1>5. Shape'
  BY <1>1, <1>3 DEF Shape
<1>6. RequestIs'
  <2>1. NeedsMark(Asked, route[1]) => marked
    BY <1>1, <1>3 DEF RequestIs
  <2> QED
    BY <1>1, <1>2, <1>3, <2>1 DEF RequestIs
<1>7. SentIs'
  <2>1. CASE marked
    <3>1. sent' = Scrubbed(request', route'[attempt'])
      BY <1>1, <2>1 DEF ms
    <3> QED
      BY <3>1 DEF SentIs
  <2>2. CASE ~marked
    <3>1. ~NeedsMark(Asked, route[1])
      BY <1>1, <1>3, <2>2 DEF RequestIs
    <3>2. sent' = Compressed(Scrubbed(request', route'[attempt']), route'[attempt'])
      BY <1>1, <2>2 DEF ms
    <3>3. ~NeedsMark(Asked', route'[1])
      BY <1>1, <1>2, <3>1
    <3> QED
      BY <3>2, <3>3 DEF SentIs
  <2>3. marked \in BOOLEAN
    BY <1>3 DEF Types
  <2> QED
    BY <2>1, <2>2, <2>3
<1>8. SeenIs'
  <2>1. CASE attempt = 0 /\ OverTrigger(Asked, route[1])
    <3> DEFINE q == route[1]
               new == ResultsIn(sent')
    <3>1. seen' = [seen EXCEPT ![q] = new] /\ history' = history
      BY <1>1, <2>1
    <3>2. \A b \in new : CutResult(b)
      BY <1>1, <2>1, FirstIsCut
    <3>3. OverTrigger(Scrubbed(history, q), q)
      BY <2>1 DEF Asked
    <3> HIDE DEF q, new
    <3>4. seen = [r \in Providers |-> seen[r]]
      BY <1>3 DEF SeenIs
    <3>5. seen' = [r \in Providers |-> IF r = q THEN new ELSE seen[r]]
      BY <3>1, <3>4
    <3>6. \A r \in Providers : seen'[r] = IF r = q THEN new ELSE seen[r]
      BY <3>5
    <3>7. seen' = [r \in Providers |-> seen'[r]]
      BY <3>5
    <3>8. ASSUME NEW r \in Providers, seen'[r] # {}
          PROVE  OverTrigger(Scrubbed(history, r), r) /\ \A b \in seen'[r] : CutResult(b)
      <4>1. CASE r = q
        BY <3>2, <3>3, <3>6, <4>1
      <4>2. CASE r # q
        BY <1>3, <3>6, <3>8, <4>2 DEF SeenIs
      <4> QED
        BY <4>1, <4>2
    <3> QED
      BY <3>1, <3>7, <3>8 DEF SeenIs
  <2>2. CASE ~(attempt = 0 /\ OverTrigger(Asked, route[1]))
    <3>1. seen' = seen /\ history' = history
      BY <1>1, <2>2
    <3> QED
      BY <1>3, <3>1 DEF SeenIs
  <2> QED
    BY <2>1, <2>2
<1> QED
  BY <1>4, <1>5, <1>6, <1>7, <1>8 DEF IInv

LEMMA GiveUpInvariant == IInv /\ GiveUp => IInv'
<1> SUFFICES ASSUME IInv, GiveUp
             PROVE  IInv'
  OBVIOUS
<1>1. attempt' = 0 /\ request' = Nobody /\ marked' = FALSE /\ UNCHANGED <<history, route, seen>>
  BY DEF GiveUp, Done
<1>2. Types'
  <2>1. Len(route) \in Nat
    BY RouteFacts DEF IInv, Types
  <2>2. 0 \in 0..Len(route)
    BY <2>1
  <2> QED
    BY <1>1, <2>2 DEF IInv, Types
<1>3. Shape' /\ SeenIs'
  BY <1>1 DEF IInv, Shape, SeenIs
<1>4. RequestIs' /\ SentIs'
  BY <1>1 DEF RequestIs, SentIs
<1> QED
  BY <1>2, <1>3, <1>4 DEF IInv

\* A longer conversation, with nothing noted, keeps what is noted.
LEMMA SeenInvariant ==
    ASSUME IInv, Shape', Longer(history', history), seen' = seen
    PROVE  SeenIs'
<1>1. Shape /\ SeenIs
  BY DEF IInv
<1>2. ASSUME NEW p \in Providers, seen'[p] # {}
      PROVE  OverTrigger(Scrubbed(history', p), p) /\ \A b \in seen'[p] : CutResult(b)
  <2>1. seen[p] # {}
    BY <1>2
  <2>2. OverTrigger(Scrubbed(history, p), p) /\ \A b \in seen[p] : CutResult(b)
    BY <1>1, <2>1 DEF SeenIs
  <2>3. /\ Formed(history) /\ Numbered(history) /\ history # << >>
        /\ Formed(history') /\ Numbered(history')
    BY <1>1 DEF Shape
  <2>4. OverTrigger(Scrubbed(history', p), p)
    BY <2>2, <2>3, SeenGrown
  <2> QED
    BY <2>2, <2>4
<1> QED
  BY <1>1, <1>2 DEF SeenIs

LEMMA ReceiveInvariant ==
    ASSUME IInv, NEW raw, NEW c, Body(c), attempt > 0, Receive(raw, c)
    PROVE  IInv'
<1>1. /\ history' = Append(history, Message("assistant", Delivered(c)))
      /\ attempt' = 0 /\ request' = Nobody /\ marked' = FALSE /\ UNCHANGED <<route, seen>>
  BY DEF Receive, Done
<1>2. Shape /\ Len(history) % 2 = 1 /\ Len(route) \in Nat /\ route \in Routes
  <2>1. Types /\ Shape /\ RequestIs
    BY DEF IInv
  <2>2. attempt # 0
    BY <2>1 DEF Types
  <2> QED
    BY <2>1, <2>2, RouteFacts DEF Types, RequestIs
<1>3. /\ Formed(history') /\ Numbered(history') /\ Len(history') = Len(history) + 1
      /\ \A i \in 1..Len(history) : history'[i] = history[i]
  BY <1>1, <1>2, RepliedFormed DEF Shape
<1>4. Len(history) \in Nat
  BY <1>2, FormedFacts DEF Shape
<1>5. Shape'
  <2>1. Len(history') # 0
    BY <1>3, <1>4
  <2>2. history' # << >>
    BY <1>3, <2>1, FormedFacts
  <2> QED
    BY <1>3, <2>2 DEF Shape
<1>6. SeenIs'
  BY <1>1, <1>3, <1>5, SeenInvariant DEF Longer
<1>7. Types' /\ RequestIs' /\ SentIs'
  <2>1. 0 \in 0..Len(route)
    BY <1>2
  <2>2. Types'
    BY <1>1, <1>2, <2>1 DEF Types
  <2>3. RequestIs'
    BY <1>1 DEF RequestIs
  <2>4. SentIs'
    BY <1>1 DEF SentIs
  <2> QED
    BY <2>2, <2>3, <2>4
<1> QED
  BY <1>5, <1>6, <1>7 DEF IInv

LEMMA ReplyInvariant == IInv /\ Reply => IInv'
<1> SUFFICES ASSUME IInv, Reply
             PROVE  IInv'
  OBVIOUS
<1>1. CASE ReplyEarly
  BY <1>1, NothingBody, ReceiveInvariant DEF ReplyEarly
<1>2. ASSUME NEW raw \in Replies, ReplyWhole(raw)
      PROVE  IInv'
  BY <1>2, RepliesBody, ReceiveInvariant DEF ReplyWhole
<1>3. ASSUME NEW raw \in Replies, ReplyStreamed(raw)
      PROVE  IInv'
  BY <1>3, RepliesBody, ReceiveInvariant DEF ReplyStreamed
<1> QED
  BY <1>1, <1>2, <1>3 DEF Reply

\* A turn of the user ends one of the assistant, with no request on its way.
LEMMA AddedInvariant ==
    ASSUME IInv, Last(history).role = "assistant", NEW c, Content(c),
           \A b \in Range(c) : b.k \in Asking,
           {b.id : b \in ResultsOf(c)} = UseIds(Last(history)),
           history' = Append(history, Message("user", c)), route' \in Routes,
           UNCHANGED <<attempt, request, marked, sent, made, seen>>
    PROVE  IInv'
<1>1. Shape /\ Len(history) % 2 = 0 /\ Len(history) \in Nat
  BY LastOfFormed DEF IInv, Shape
<1>2. /\ Formed(history') /\ Numbered(history') /\ Len(history') = Len(history) + 1
      /\ \A i \in 1..Len(history) : history'[i] = history[i]
  <2>1. Formed(history) /\ Numbered(history) /\ history # << >>
    BY <1>1 DEF Shape
  <2> QED
    BY <1>1, <2>1, AnsweredFormed
<1>3. Shape'
  <2>1. Len(history') # 0
    BY <1>1, <1>2
  <2>2. history' # << >>
    BY <1>2, <2>1, FormedFacts
  <2> QED
    BY <1>2, <2>2 DEF Shape
<1>4. SeenIs'
  BY <1>2, <1>3, SeenInvariant DEF Longer
<1>5. request = Nobody /\ attempt = 0
  <2>1. ~(Len(history) % 2 = 1)
    BY <1>1
  <2> QED
    BY <2>1 DEF IInv, RequestIs
<1>6. Types' /\ RequestIs' /\ SentIs'
  <2>1. Len(route') \in Nat
    BY RouteFacts
  <2>2. marked \in BOOLEAN
    BY DEF IInv, Types
  <2> QED
    BY <1>5, <2>1, <2>2 DEF Types, RequestIs, SentIs
<1> QED
  BY <1>3, <1>4, <1>6 DEF IInv

LEMMA TurnInvariant == IInv /\ Turn => IInv'
<1> SUFFICES ASSUME IInv, Turn
             PROVE  IInv'
  OBVIOUS
<1>0. route' \in Routes /\ Formed(history) /\ history # << >>
  BY DEF Turn, IInv, Shape
<1>1. ASSUME NEW big, NEW also \in {<< >>, <<Image>>}, ReturnResults(big, also)
      PROVE  IInv'
  <2> DEFINE uses == Blocks(Last(history).c, "use")
             results == Results(uses, big)
             c == results \o also
  <2>1. /\ Last(history).role = "assistant"
        /\ history' = Append(history, Message("user", c))
        /\ UNCHANGED <<attempt, request, marked, sent, made, seen>>
    BY <1>1 DEF ReturnResults, MayAnswer, Results
  <2>2. /\ Content(c) /\ \A b \in Range(c) : b.k \in Asking
        /\ {b.id : b \in ResultsOf(c)} = UseIds(Last(history))
    BY <1>0, ResultsContent
  <2> HIDE DEF c
  <2> QED
    BY <1>0, <2>1, <2>2, AddedInvariant
<1>2. ASSUME NEW c \in Openings, Say(c)
      PROVE  IInv'
  <2>1. /\ Last(history).role = "assistant" /\ ~HasUse(Last(history).c)
        /\ history' = Append(history, Message("user", c))
        /\ UNCHANGED <<attempt, request, marked, sent, made, seen>>
    BY <1>2 DEF Say, MayAnswer
  <2>2. Content(c) /\ (\A b \in Range(c) : b.k \in Asking) /\ ResultsOf(c) = {}
    BY OpeningContent
  <2>3. UseIds(Last(history)) = {}
    <3> DEFINE d == Last(history).c
               is == {i \in DOMAIN d : d[i].k = "use"}
    <3>1. Picked(d, is) = << >>
      BY <2>1 DEF HasUse, Blocks
    <3>2. Content(d)
      BY <1>0, LastOfFormed
    <3> HIDE DEF d
    <3>3. /\ DOMAIN d = 1..Len(d) /\ Range(d) = {d[i] : i \in 1..Len(d)}
      BY <3>2, ContentFacts
    <3>4. {d[i] : i \in is \cap 1..Len(d)} = UsesIn(d)
      BY <3>3 DEF UsesIn
    <3> HIDE DEF is
    <3>5. Range(Picked(d, is)) = {d[i] : i \in is \cap 1..Len(d)}
      BY <3>2, PickedContent
    <3>6. UsesIn(d) = {}
      BY <3>1, <3>4, <3>5, NoBlock
    <3> QED
      BY <3>6, IdsOf DEF d
  <2>4. {b.id : b \in ResultsOf(c)} = UseIds(Last(history))
    BY <2>2, <2>3
  <2> QED
    BY <1>0, <2>1, <2>2, <2>4, AddedInvariant
<1>3. << >> \in {<< >>, <<Image>>} /\ <<Image>> \in {<< >>, <<Image>>}
  OBVIOUS
<1> QED
  BY <1>1, <1>2, <1>3 DEF Turn, Answer

\* The invariant, for any constants the assumptions allow.
THEOREM Invariance == Spec => []IInv
<1>1. Init => IInv
  BY InitInvariant
<1>2. IInv /\ [Next]_vars => IInv'
  <2> SUFFICES ASSUME IInv, [Next]_vars
               PROVE  IInv'
    OBVIOUS
  <2>1. CASE Next
    BY <2>1, AskInvariant, AttemptInvariant, GiveUpInvariant, ReplyInvariant, TurnInvariant
    DEF Next
  <2>2. CASE UNCHANGED vars
    <3>1. UNCHANGED <<history, route, attempt, request, marked, sent, made, seen>>
      BY <2>2 DEF vars
    <3> QED
      BY <3>1 DEF IInv, Types, Shape, RequestIs, SentIs, SeenIs, Asked
  <2> QED
    BY <2>1, <2>2
<1> QED
  BY <1>1, <1>2, PTL DEF Spec

-----------------------------------------------------------------------------
(* Theorems. *)

LEMMA PrefixStep ==
    ASSUME IInv, [Next]_vars, attempt' = 1, sent' # sent,
           NEW old \in seen[route[1]], NEW new \in ResultsIn(sent'), old.id = new.id
    PROVE  old = new
<1>1. Attempt /\ attempt = 0
  <2>1. CASE Ask
    BY <2>1 DEF Ask
  <2>2. CASE Attempt
    <3>1. attempt' = attempt + 1 /\ attempt \in 0..Len(route) /\ route \in Routes
      BY <2>2 DEF Attempt, IInv, Types
    <3>2. attempt \in Nat
      BY <3>1, RouteFacts
    <3> QED
      BY <2>2, <3>1, <3>2
  <2>3. CASE GiveUp
    BY <2>3 DEF GiveUp, Done
  <2>4. CASE Reply
    BY <2>4 DEF Reply, ReplyEarly, ReplyWhole, ReplyStreamed, Receive, Done
  <2>5. CASE Turn
    BY <2>5 DEF Turn, Answer, ReturnResults, Say
  <2>6. CASE UNCHANGED vars
    BY <2>6 DEF vars
  <2> QED
    BY <2>1, <2>2, <2>3, <2>4, <2>5, <2>6 DEF Next
<1>2. route[1] \in Providers
  <2>1. route \in Routes
    BY DEF IInv, Types
  <2>2. 1 \in 1..Len(route)
    BY <2>1, RouteFacts
  <2> QED
    BY <2>1, <2>2, RouteFacts
<1>3. OverTrigger(Asked, route[1]) /\ CutResult(old)
  BY <1>2 DEF IInv, SeenIs, Asked
<1>4. request # Nobody
  BY <1>1 DEF Attempt
<1>5. CutResult(new)
  BY <1>1, <1>3, <1>4, FirstIsCut
<1> QED
  BY <1>3, <1>5 DEF CutResult

\* A result a provider was sent of a conversation that is compressed for it is sent
\* to it in the same form ever after, whatever is said, dropped or scrubbed since.
THEOREM StablePrefix == Spec => PrefixStable
<1> DEFINE A == attempt' = 1 /\ sent' # sent =>
                  \A old \in seen[route[1]], new \in ResultsIn(sent') :
                      old.id = new.id => old = new
<1>1. IInv /\ [Next]_vars => [A]_vars
  BY PrefixStep
<1>2. Spec => []IInv
  BY Invariance
<1>3. Spec => [][Next]_vars
  BY PTL DEF Spec
<1>4. []IInv /\ [][Next]_vars => [][A]_vars
  BY <1>1, PTL
<1>5. Spec => [][A]_vars
  BY <1>2, <1>3, <1>4, PTL
<1> QED
  BY <1>5 DEF PrefixStable

LEMMA RequestFacts ==
    ASSUME IInv, attempt > 0
    PROVE  /\ request = Compressed(Asked, route[1]) /\ Len(history) % 2 = 1
           /\ Formed(Asked) /\ Len(Asked) % 2 = 1 /\ Len(Asked) = Len(history)
           /\ Taken(Asked, route[1]) /\ NoneEmpty(Asked)
           /\ Formed(request) /\ Len(request) % 2 = 1 /\ Taken(request, route[1])
           /\ ~NeedsMark(Asked, route[1]) => request = Asked
           /\ attempt \in 1..Len(route) /\ Len(route) \in Nat
<1>1. attempt \in 0..Len(route) /\ route \in Routes
  BY DEF IInv, Types
<1>2. Len(route) \in Nat
  BY <1>1, RouteFacts
<1>3. attempt # 0 /\ attempt \in 1..Len(route)
  BY <1>1, <1>2
<1>4. request = Compressed(Asked, route[1]) /\ Len(history) % 2 = 1
  BY <1>3 DEF IInv, RequestIs
<1> QED
  BY <1>2, <1>3, <1>4, AskedFacts DEF NeedsMark

\* What a deployment is sent is well formed, and its provider takes all of it.
LEMMA SentFacts ==
    ASSUME IInv, attempt > 0
    PROVE  Formed(sent) /\ Len(sent) % 2 = 1 /\ Taken(sent, route[attempt])
<1> DEFINE p == route[attempt]
           all == Scrubbed(request, p)
<1>1. Formed(request) /\ Len(request) % 2 = 1
  BY RequestFacts
<1>2. Formed(all) /\ Len(all) = Len(request) /\ Taken(all, p)
  BY <1>1, ScrubbedFormed
<1>3. sent = all \/ sent = Compressed(all, p)
  BY DEF IInv, SentIs
<1> HIDE DEF p, all
<1>4. Formed(Compressed(all, p)) /\ Len(Compressed(all, p)) % 2 = 1 /\ Taken(Compressed(all, p), p)
  BY <1>1, <1>2, CompressedFacts
<1> QED
  BY <1>1, <1>2, <1>3, <1>4 DEF p

\* RequestWellFormed, but for messages that are empty.
Acceptable ==
    attempt > 0 =>
        /\ Len(sent) % 2 = 1
        /\ \A i \in DOMAIN sent :
              /\ sent[i].role = IF i % 2 = 1 THEN "user" ELSE "assistant"
              /\ UseIds(sent[i]) = IF i = Len(sent) THEN {} ELSE ResultIds(sent[i + 1])
              /\ i = 1 => ResultIds(sent[i]) = {}
        /\ MalformedIds(sent) = {}
        /\ IF route[attempt] = "anthropic" THEN \A b \in Thinking(sent) : b.signed
           ELSE Kinds(sent) \subseteq {"text", "use", "result", "image"}

LEMMA AcceptableFacts == IInv => Acceptable
<1> SUFFICES ASSUME IInv, attempt > 0
             PROVE  Acceptable
  BY DEF Acceptable
<1> DEFINE n == Len(sent)
           p == route[attempt]
<1>1. Formed(sent) /\ n % 2 = 1 /\ Taken(sent, p)
  BY SentFacts
<1>2. n \in Nat /\ DOMAIN sent = 1..n /\ Range(sent) = {sent[i] : i \in 1..n}
  BY <1>1, FormedFacts
<1>3. \A i \in 1..n : sent[i].role = RoleAt(i)
  BY <1>1, Roles
<1>4. \A i \in 1..n : ResultIds(sent[i]) = IF i = 1 THEN {} ELSE UseIds(sent[i-1])
  BY <1>1 DEF Formed, Answered
<1>5. \A i \in 1..n : UseIds(sent[i]) = IF i = n THEN {} ELSE ResultIds(sent[i+1])
  <2> TAKE i \in 1..n
  <2>1. CASE i = n
    BY <1>1, <1>2, <2>1, NoUses
  <2>2. CASE i # n
    <3>1. i \in 1..n
      OBVIOUS
    <3> HIDE DEF n
    <3>2. i + 1 \in 1..n /\ i + 1 # 1 /\ (i + 1) - 1 = i
      BY <1>2, <2>2, <3>1
    <3> QED
      BY <1>4, <2>2, <3>2
  <2> QED
    BY <2>1, <2>2
<1>6. MalformedIds(sent) = {}
  BY <1>1, NoneMalformed
<1> DEFINE U == UNION {Range(m.c) : m \in Range(sent)}
<1>7. \A b \in U : Takes(p, b)
  BY <1>1, <1>2 DEF Taken
<1>8. Thinking(sent) = {b \in U : b.k = "think"} /\ Kinds(sent) = {b.k : b \in U}
  BY DEF Thinking, Kinds
<1> HIDE DEF U, p
<1>9. IF p = "anthropic" THEN \A b \in Thinking(sent) : b.signed
      ELSE Kinds(sent) \subseteq {"text", "use", "result", "image"}
  BY <1>7, <1>8 DEF Takes
<1> QED
  BY <1>1, <1>2, <1>3, <1>4, <1>5, <1>6, <1>9 DEF Acceptable, RoleAt, p

\* A message that is sent empty lost its images after the last scrub.
LEMMA EmptyIsStripped ==
    ASSUME IInv, attempt > 0, NEW i \in 1..Len(sent), sent[i].c = << >>
    PROVE  StrippedLate(sent[i])
<1> DEFINE p == route[attempt]
           all == Scrubbed(Asked, p)
<1>1. /\ Formed(Asked) /\ Len(Asked) % 2 = 1 /\ Taken(Asked, route[1]) /\ NoneEmpty(Asked)
      /\ Formed(request)
      /\ ~NeedsMark(Asked, route[1]) => request = Asked
  BY RequestFacts
<1>2. Formed(sent)
  BY SentFacts
<1>3. Formed(all) /\ Len(all) = Len(Asked) /\ NoneEmpty(all)
  BY <1>1, ScrubbedFormed
<1>4. CASE sent = Scrubbed(request, p)
  <2>1. NoneEmpty(sent)
    BY <1>1, <1>4, ScrubbedFormed
  <2> QED
    BY <2>1 DEF NoneEmpty
<1>5. CASE ~NeedsMark(Asked, route[1]) /\ sent = Compressed(Scrubbed(request, p), p)
  <2>1. request = Asked /\ sent = Compressed(all, p)
    BY <1>1, <1>5
  <2>2. p # route[1]
    <3> SUFFICES ASSUME p = route[1]
                 PROVE  FALSE
      OBVIOUS
    <3>1. all = Asked
      BY <1>1, ScrubbedOnce
    <3>2. Compressed(Asked, p) = Asked
      BY <1>5 DEF NeedsMark
    <3>3. NoneEmpty(sent)
      BY <1>1, <2>1, <3>1, <3>2
    <3> QED
      BY <3>3 DEF NoneEmpty
  <2> HIDE DEF p, all
  <2>3. PICK j \in 1..Len(all) : OnlyImages(all[j].c) /\ sent[i] = WithoutImages(all[j])
    BY <1>1, <1>3, <2>1, EmptiedByCompression
  <2>4. all[j].c # << >> /\ all[j] \in Range(all)
    BY <1>3, <2>3, FormedFacts DEF NoneEmpty
  <2>5. all = Scrubbed(request, p)
    BY <2>1 DEF all
  <2>6. ~NeedsMark(Scrubbed(history, route[1]), route[1])
    BY <1>5 DEF Asked
  <2> QED
    BY <2>2, <2>3, <2>4, <2>5, <2>6 DEF StrippedLate, OnlyImages, p
<1> QED
  BY <1>4, <1>5 DEF IInv, SentIs

\* Whichever deployment of the route is asked, its provider accepts the request,
\* for any routes; a message is empty only where a fallback's own compression came
\* after the last scrub.
THEOREM WellFormed == Spec => []RequestWellFormed
<1>1. Spec => []IInv
  BY Invariance
<1>2. IInv => RequestWellFormed
  <2> SUFFICES ASSUME IInv, attempt > 0
               PROVE  RequestWellFormed
    BY DEF RequestWellFormed
  <2>1. Acceptable
    BY AcceptableFacts
  <2>2. DOMAIN sent = 1..Len(sent)
    BY SentFacts, FormedFacts
  <2>3. \A i \in DOMAIN sent : sent[i].c # << >> \/ StrippedLate(sent[i])
    BY <2>2, EmptyIsStripped
  <2> QED
    BY <2>1, <2>3 DEF Acceptable, RequestWellFormed
<1> QED
  BY <1>1, <1>2, PTL

-----------------------------------------------------------------------------
(* What compression keeps. *)

\* Blocks that say and answer the same.
Alike(b, a) ==
    /\ b.k = a.k
    /\ a.k = "text" => b.t = a.t
    /\ a.k = "result" => b.id = a.id

AlikeContent(d, c) ==
    /\ Content(c) /\ Content(d) /\ Len(d) = Len(c)
    /\ \A i \in 1..Len(c) : Alike(d[i], c[i])

LEMMA SameTexts ==
    ASSUME NEW S, NEW T, \A b \in S : \E a \in T : b.t = a.t,
           \A a \in T : \E b \in S : b.t = a.t
    PROVE  {b.t : b \in S} = {b.t : b \in T}
OBVIOUS

\* They show in what is asked of contents.
LEMMA AlikeFacts ==
    ASSUME NEW m, NEW n, AlikeContent(n.c, m.c)
    PROVE  ResultIds(n) = ResultIds(m) /\ TextsOf(n) = TextsOf(m)
<1> DEFINE c == m.c
           d == n.c
           Texts(e) == {b \in Range(e) : b.k = "text"}
<1>1. /\ Range(c) = {c[i] : i \in 1..Len(c)} /\ Range(d) = {d[i] : i \in 1..Len(c)}
      /\ \A i \in 1..Len(c) : Alike(d[i], c[i])
  <2>1. Content(c) /\ Content(d) /\ Len(d) = Len(c) /\ \A i \in 1..Len(c) : Alike(d[i], c[i])
    BY DEF AlikeContent
  <2> HIDE DEF c, d
  <2> QED
    BY <2>1, ContentFacts
<1>2. /\ ResultIds(n) = {b.id : b \in ResultsOf(d)} /\ ResultIds(m) = {b.id : b \in ResultsOf(c)}
      /\ TextsOf(n) = {b.t : b \in Texts(d)} /\ TextsOf(m) = {b.t : b \in Texts(c)}
  BY IdsOf DEF TextsOf
<1> HIDE DEF c, d
<1>3. {b.id : b \in ResultsOf(d)} = {b.id : b \in ResultsOf(c)}
  <2>1. \A b \in ResultsOf(d) : \E a \in ResultsOf(c) : b.id = a.id
    BY <1>1 DEF ResultsOf, Alike
  <2>2. \A a \in ResultsOf(c) : \E b \in ResultsOf(d) : b.id = a.id
    BY <1>1 DEF ResultsOf, Alike
  <2> QED
    BY <2>1, <2>2, SameIds
<1>4. {b.t : b \in Texts(d)} = {b.t : b \in Texts(c)}
  <2>1. \A b \in Texts(d) : \E a \in Texts(c) : b.t = a.t
    BY <1>1 DEF Alike
  <2>2. \A a \in Texts(c) : \E b \in Texts(d) : b.t = a.t
    BY <1>1 DEF Alike
  <2> HIDE DEF Texts
  <2> QED
    BY <2>1, <2>2, SameTexts
<1> QED
  BY <1>2, <1>3, <1>4

LEMMA SameIsAlike ==
    ASSUME NEW c, Content(c)
    PROVE  AlikeContent(c, c)
BY DEF AlikeContent, Alike

LEMMA CutIsAlike ==
    ASSUME NEW c, Content(c)
    PROVE  AlikeContent([j \in DOMAIN c |-> CutBlock(c[j])], c)
<1> DEFINE d == [j \in DOMAIN c |-> CutBlock(c[j])]
<1>1. /\ Len(c) \in Nat /\ DOMAIN c = 1..Len(c) /\ \A i \in 1..Len(c) : OkBlock(c[i])
  BY ContentFacts
<1>2. Lighter(d, c) /\ Len(d) = Len(c)
  BY CutContent
<1>3. \A i \in 1..Len(c) : d[i] = CutBlock(c[i])
  BY <1>1
<1> HIDE DEF d
<1>4. ASSUME NEW i \in 1..Len(c)
      PROVE  Alike(d[i], c[i])
  <2> DEFINE b == c[i]
             cut == CutBlock(b)
  <2>1. OkBlock(b) /\ d[i] = cut
    BY <1>1, <1>3
  <2> HIDE DEF b
  <2>2. /\ cut.k = b.k
        /\ b.k = "result" => cut = [k |-> "result", id |-> b.id, big |-> FALSE]
        /\ b.k = "text" => cut = [k |-> "text", t |-> b.t, big |-> FALSE]
    BY <2>1, CutBlockFacts
  <2> HIDE DEF cut
  <2>3. Alike(cut, b)
    BY <2>2 DEF Alike
  <2> QED
    BY <2>1, <2>3 DEF b
<1>5. Content(d)
  BY <1>2 DEF Lighter
<1> QED
  BY <1>2, <1>4, <1>5 DEF AlikeContent, d

\* The scrub of what a user says, where no call is malformed.
LEMMA ScrubbedAsking ==
    ASSUME NEW c, Content(c), \A b \in Range(c) : b.k \in Asking, NEW p
    PROVE  ScrubbedContent(c, p, {}) = Filled([i \in 1..Len(c) |-> ScrubbedBlock(c[i], p)])
<1> DEFINE n == Len(c)
           s == [i \in 1..n |-> ScrubbedBlock(c[i], p)]
<1>1. /\ n \in Nat /\ DOMAIN c = 1..n /\ c \in Seq(Range(c)) /\ (c = << >> <=> n = 0)
      /\ \A i \in 1..n : c[i] \in Range(c) /\ OkBlock(c[i])
  BY ContentFacts
<1>2. \A i \in 1..n : ~Dropped(c[i], p) /\ c[i].k \in Asking
  BY <1>1 DEF Dropped, Asking
<1>3. Picked(c, {i \in DOMAIN c : ~Dropped(c[i], p)}) = c
  <2>1. 1..Len(c) \subseteq {i \in DOMAIN c : ~Dropped(c[i], p)}
    BY <1>1, <1>2
  <2> QED
    BY <1>1, <2>1, PickedAll
<1>4. SanitizeContentBlocks(c, p) = s
  BY <1>1, <1>3 DEF SanitizeContentBlocks
<1>5. s = [i \in 1..n |-> s[i]] /\ \A i \in 1..n : s[i] = ScrubbedBlock(c[i], p)
  OBVIOUS
<1> HIDE DEF s, n
<1>6. \A i \in 1..n : OkBlock(s[i])
  BY <1>1, <1>2, <1>5, SanitizedBlock
<1>7. Content(s) /\ Range(s) = {s[i] : i \in 1..n}
  BY <1>1, <1>5, <1>6, MadeContent
<1>8. \A i \in 1..n : s[i].k # "use"
  BY <1>1, <1>2, <1>5, SanitizedBlock DEF Asking
<1>9. \A b \in Range(s) : ~Bad(b)
  BY <1>7, <1>8 DEF Bad
<1>10. Noted(s) = s
  BY <1>7, <1>9, NotedContent
<1>11. Unanswered(s, {}) = s
  BY <1>7, UnansweredContent
<1> QED
  BY <1>4, <1>10, <1>11 DEF ScrubbedContent, s, n

LEMMA ScrubbedAlike ==
    ASSUME NEW c, NEW d, AlikeContent(d, c), \A b \in Range(c) : b.k \in Asking, NEW p
    PROVE  AlikeContent(ScrubbedContent(d, p, {}), ScrubbedContent(c, p, {}))
<1> DEFINE n == Len(c)
           s == [i \in 1..n |-> ScrubbedBlock(c[i], p)]
           t == [i \in 1..n |-> ScrubbedBlock(d[i], p)]
<1>1. Content(c) /\ Content(d) /\ Len(d) = n /\ \A i \in 1..n : Alike(d[i], c[i])
  BY DEF AlikeContent
<1>2. /\ n \in Nat /\ Range(c) = {c[i] : i \in 1..n} /\ Range(d) = {d[i] : i \in 1..n}
      /\ \A i \in 1..n : c[i] \in Range(c) /\ OkBlock(c[i]) /\ OkBlock(d[i])
  BY <1>1, ContentFacts
<1>3. \A b \in Range(d) : b.k \in Asking
  BY <1>1, <1>2 DEF Alike
<1>4. ScrubbedContent(c, p, {}) = Filled(s) /\ ScrubbedContent(d, p, {}) = Filled(t)
  BY <1>1, <1>3, ScrubbedAsking
<1>5. /\ s = [i \in 1..n |-> s[i]] /\ \A i \in 1..n : s[i] = ScrubbedBlock(c[i], p)
      /\ t = [i \in 1..n |-> t[i]] /\ \A i \in 1..n : t[i] = ScrubbedBlock(d[i], p)
  OBVIOUS
<1> HIDE DEF s, t, n
<1>6. \A i \in 1..n : c[i].k \in Asking /\ d[i].k = c[i].k
  BY <1>1, <1>2 DEF Alike
<1>7. \A i \in 1..n : ~Dropped(c[i], p) /\ ~Dropped(d[i], p)
  BY <1>6 DEF Dropped, Asking
<1>8. \A i \in 1..n : OkBlock(s[i]) /\ OkBlock(t[i])
  BY <1>2, <1>5, <1>7, SanitizedBlock
<1>9. Content(s) /\ Content(t) /\ Len(s) = n /\ Len(t) = n
  BY <1>2, <1>5, <1>8, MadeContent
<1>10. ASSUME NEW i \in 1..n
       PROVE  Alike(t[i], s[i])
  <2> DEFINE a == c[i]
             b == d[i]
  <2>1. a.k \in Asking /\ Alike(b, a) /\ s[i] = ScrubbedBlock(a, p) /\ t[i] = ScrubbedBlock(b, p)
    BY <1>1, <1>5, <1>6
  <2> HIDE DEF a, b
  <2>2. CASE a.k = "image" /\ p = "deepseek"
    <3>1. ScrubbedBlock(a, p) = BlockText("omitted")
      BY <2>2 DEF ScrubbedBlock, SearchKinds
    <3>2. b.k = "image"
      BY <2>1, <2>2 DEF Alike
    <3>3. ScrubbedBlock(b, p) = BlockText("omitted")
      BY <2>2, <3>2 DEF ScrubbedBlock, SearchKinds
    <3>4. s[i] = t[i]
      BY <2>1, <3>1, <3>3
    <3> QED
      BY <3>4 DEF Alike
  <2>3. CASE ~(a.k = "image" /\ p = "deepseek")
    <3>1. s[i] = a /\ t[i] = b
      BY <2>1, <2>3 DEF ScrubbedBlock, Alike, Asking, SearchKinds
    <3> QED
      BY <2>1, <3>1
  <2> QED
    BY <2>2, <2>3
<1>11. AlikeContent(t, s)
  BY <1>9, <1>10 DEF AlikeContent
<1>12. (s = << >> <=> n = 0) /\ (t = << >> <=> n = 0)
  BY <1>9, ContentFacts
<1>13. Filled(s) = Filled(t) \/ (Filled(s) = s /\ Filled(t) = t)
  BY <1>12 DEF Filled
<1>14. Content(Filled(s))
  BY <1>9, FilledContent
<1>15. AlikeContent(Filled(t), Filled(s))
  <2>1. CASE Filled(s) = Filled(t)
    BY <1>14, <2>1, SameIsAlike
  <2>2. CASE Filled(s) = s /\ Filled(t) = t
    BY <1>11, <2>2
  <2> QED
    BY <1>13, <2>1, <2>2
<1> QED
  BY <1>4, <1>15

\* The last message.
LEMMA CompressedLast ==
    ASSUME MinRecent >= 2, NEW ms, Formed(ms), Len(ms) % 2 = 1, NEW model,
           NEW g, g = Compressed(ms, model)
    PROVE  AlikeContent(g[Len(g)].c, ms[Len(ms)].c)
<1> DEFINE s == Smaller(ms, model)
           n == Len(ms)
<1>1. Formed(s) /\ Stripped(g, s) /\ Len(s) % 2 = 1
  BY SmallerFacts, CompressedShape
<1>2. n \in Nat /\ n > 0 /\ n \in 1..n /\ Content(ms[n].c) /\ MinRecent \in Nat
  <2>1. n \in Nat /\ n > 0 /\ n \in 1..n
    BY FormedFacts
  <2>2. Content(ms[n].c)
    BY <2>1, FormedFacts
  <2>3. MinRecent \in Nat
    BY CompressionAssumption
  <2> QED
    BY <2>1, <2>2, <2>3
<1> HIDE DEF s
<1>3. Len(g) = Len(s) /\ g[Len(s)] = s[Len(s)]
  <2>1. Len(s) \in Nat /\ Len(s) > 0
    BY <1>1, FormedFacts
  <2>2. Len(s) \in 1..Len(s) /\ MinRecent > 0
    BY <1>2, <2>1
  <2> QED
    BY <1>1, <2>2 DEF Stripped
<1>4. AlikeContent(s[Len(s)].c, ms[n].c)
  <2>1. CASE ~OverTrigger(ms, model)
    <3>1. s = ms
      BY <2>1 DEF Smaller, s
    <3> QED
      BY <1>2, <3>1, SameIsAlike
  <2>2. CASE OverTrigger(ms, model)
    <3> DEFINE d == DropOldImages(ms)
               t == Trimmed(ms)
    <3>1. Stripped(d, ms) /\ Cut(t, d)
      BY TrimmedShape
    <3>2. PICK a \in 2..n+1 : /\ a % 2 = 0 /\ s = Thinned(t, a)
                              /\ MinRecent > 1 /\ n > 1 => a <= n
      BY <2>2, SmallerShape DEF s
    <3> HIDE DEF d, t
    <3>3. Formed(d) /\ Len(d) = n /\ Formed(t) /\ Len(t) = n
      BY <3>1 DEF Stripped, Cut
    <3>4. d[n] = ms[n]
      <4>1. MinRecent > 0
        BY <1>2
      <4> QED
        BY <1>2, <3>1, <4>1 DEF Stripped
    <3>5. AlikeContent(t[n].c, ms[n].c)
      <4>1. CASE n = 1
        <5>1. t[n] = d[n]
          BY <1>2, <3>1, <3>3, <4>1 DEF Cut
        <5> QED
          BY <1>2, <3>4, <5>1, SameIsAlike
      <4>2. CASE n # 1
        <5> DEFINE c == ms[n].c
                   cut == [j \in DOMAIN c |-> CutBlock(c[j])]
                   r == ms[n].role
        <5>1. t[n] = Message(r, cut)
          <6>1. n \in 1..Len(d) /\ n > 1 /\ n % 2 = 1
            BY <1>2, <3>3, <4>2
          <6>2. t[n] = Message(d[n].role, [j \in DOMAIN d[n].c |-> CutBlock(d[n].c[j])])
            BY <3>1, <6>1 DEF Cut
          <6> QED
            BY <3>4, <6>2
        <5>2. AlikeContent(cut, c)
          BY <1>2, CutIsAlike
        <5> HIDE DEF cut
        <5>3. t[n].c = cut
          BY <5>1, MessageFacts
        <5> QED
          BY <5>2, <5>3
      <4> QED
        BY <4>1, <4>2
    <3>6. s[Len(s)] = t[n]
      <4>1. Len(t) % 2 = 1 /\ a \in 2..Len(t)+1
        BY <3>3
      <4>2. /\ Len(s) = Len(t) - a + 2 /\ s[1] = t[1]
            /\ \A j \in 2..Len(s) : s[j] = t[a + j - 2]
        <5>1. Len(Thinned(t, a)) = Len(t) - a + 2 /\ Thinned(t, a)[1] = t[1]
          BY <3>2, <3>3, <4>1, ThinnedFormed
        <5>2. \A j \in 2..Len(Thinned(t, a)) : /\ a + j - 2 \in 1..Len(t)
                                               /\ Thinned(t, a)[j] = t[a + j - 2]
          BY <3>2, <3>3, <4>1, ThinnedFormed
        <5> QED
          BY <3>2, <5>1, <5>2
      <4> HIDE DEF n
      <4>3. CASE n = 1
        <5>1. a = 2
          BY <3>2, <4>3
        <5>2. Len(s) = 1
          BY <3>3, <4>2, <4>3, <5>1
        <5> QED
          BY <4>2, <4>3, <5>2
      <4>4. CASE n # 1
        <5>1. a <= n
          BY <1>2, <3>2, <4>4
        <5>2. Len(s) = n - a + 2 /\ Len(s) \in 2..Len(s) /\ a + Len(s) - 2 = n
          BY <1>2, <3>2, <3>3, <4>2, <5>1
        <5> QED
          BY <4>2, <5>2
      <4> QED
        BY <4>3, <4>4
    <3> QED
      BY <3>5, <3>6
  <2> QED
    BY <2>1, <2>2
<1> QED
  BY <1>3, <1>4

LEMMA ScrubbedFirst ==
    ASSUME NEW ms, NEW ns, Formed(ms), Formed(ns), ms # << >>, ns # << >>, ns[1] = ms[1],
           NEW p, MalformedIds(ms) = {}, MalformedIds(ns) = {}
    PROVE  Scrubbed(ns, p)[1] = Scrubbed(ms, p)[1]
<1>1. 1 \in 1..Len(ms) /\ 1 \in 1..Len(ns)
  <2>1. Len(ms) \in Nat /\ Len(ms) > 0 /\ Len(ns) \in Nat /\ Len(ns) > 0
    BY LastOfFormed
  <2> QED
    BY <2>1
<1>2. Scrubbed(ms, p) = [i \in 1..Len(ms) |-> ScrubbedMessage(ms[i], p, MalformedIds(ms))]
  BY ScrubbedIs
<1>3. Scrubbed(ns, p) = [i \in 1..Len(ns) |-> ScrubbedMessage(ns[i], p, MalformedIds(ns))]
  BY ScrubbedIs
<1> QED
  BY <1>1, <1>2, <1>3

LEMMA ScrubbedLast ==
    ASSUME NEW ms, NEW ns, Formed(ms), Formed(ns), Len(ms) % 2 = 1, Len(ns) % 2 = 1,
           ms # << >>, ns # << >>,
           AlikeContent(ns[Len(ns)].c, ms[Len(ms)].c),
           NEW p, MalformedIds(ms) = {}, MalformedIds(ns) = {}
    PROVE  AlikeContent(Scrubbed(ns, p)[Len(ns)].c, Scrubbed(ms, p)[Len(ms)].c)
<1> DEFINE c == ms[Len(ms)].c
           d == ns[Len(ns)].c
<1>1. Len(ms) \in 1..Len(ms) /\ Len(ns) \in 1..Len(ns)
  <2>1. Len(ms) \in Nat /\ Len(ms) > 0 /\ Len(ns) \in Nat /\ Len(ns) > 0
    BY LastOfFormed
  <2> QED
    BY <2>1
<1>2. \A b \in Range(c) : b.k \in Asking
  <2>1. MessageAt(ms[Len(ms)], Len(ms))
    BY <1>1, FormedFacts
  <2> QED
    BY <2>1 DEF MessageAt
<1>3. Scrubbed(ms, p)[Len(ms)] = Message(ms[Len(ms)].role, ScrubbedContent(c, p, {}))
  <2>1. Scrubbed(ms, p) = [i \in 1..Len(ms) |-> ScrubbedMessage(ms[i], p, MalformedIds(ms))]
    BY ScrubbedIs
  <2>2. Scrubbed(ms, p)[Len(ms)] = ScrubbedMessage(ms[Len(ms)], p, {})
    BY <1>1, <2>1
  <2> QED
    BY <2>2 DEF ScrubbedMessage
<1>4. Scrubbed(ns, p)[Len(ns)] = Message(ns[Len(ns)].role, ScrubbedContent(d, p, {}))
  <2>1. Scrubbed(ns, p) = [i \in 1..Len(ns) |-> ScrubbedMessage(ns[i], p, MalformedIds(ns))]
    BY ScrubbedIs
  <2>2. Scrubbed(ns, p)[Len(ns)] = ScrubbedMessage(ns[Len(ns)], p, {})
    BY <1>1, <2>1
  <2> QED
    BY <2>2 DEF ScrubbedMessage
<1>5. AlikeContent(d, c)
  OBVIOUS
<1> HIDE DEF c, d
<1>6. AlikeContent(ScrubbedContent(d, p, {}), ScrubbedContent(c, p, {}))
  BY <1>2, <1>5, ScrubbedAlike
<1>7. /\ Scrubbed(ms, p)[Len(ms)].c = ScrubbedContent(c, p, {})
      /\ Scrubbed(ns, p)[Len(ns)].c = ScrubbedContent(d, p, {})
  BY <1>3, <1>4, MessageFacts
<1> QED
  BY <1>6, <1>7

LEMMA MostIs ==
    ASSUME NEW a \in Int, NEW b \in Int, NEW c \in Int
    PROVE  Max({a, b, c}) \in Int
<1> DEFINE S == {a, b, c}
<1>1. \E x \in S : \A y \in S : x >= y
  <2>1. \/ a >= b /\ a >= c
        \/ b >= a /\ b >= c
        \/ c >= a /\ c >= b
    OBVIOUS
  <2> QED
    BY <2>1
<1>2. Max(S) = CHOOSE x \in S : \A y \in S : x >= y
  BY DEF Max
<1>3. S \subseteq Int
  OBVIOUS
<1> HIDE DEF S
<1>4. Max(S) \in Int
  BY <1>1, <1>2, <1>3
<1> QED
  BY <1>4 DEF S

LEMMA TargetIsInt ==
    ASSUME NEW p \in DOMAIN Window
    PROVE  MessageTarget(p, FALSE) \in Int
<1> DEFINE w == Window[p]
           part == (w * 90) \div 100
           most == (w * 75) \div 100
           floor == Floor(p, FALSE)
           target == Max({Calibrated(Target(p, FALSE)) - Overhead, floor \div 2, 500})
           top == MessageTrigger(p, FALSE)
<1>1. w \in Nat /\ Overhead \in Nat
  BY CompressionAssumption
<1> HIDE DEF w
<1>2. part \in Nat /\ most \in Nat /\ part \div 2 \in Nat
  BY <1>1
<1>3. Target(p, FALSE) = Larger(most, part \div 2)
  BY DEF Target, Trigger, w
<1> HIDE DEF part, most
<1>4. Target(p, FALSE) \in Nat
  <2>1. Larger(most, part \div 2) = IF most >= part \div 2 THEN most ELSE part \div 2
    BY <1>2, LargerIs
  <2> QED
    BY <1>2, <1>3, <2>1
<1>5. Calibrated(Target(p, FALSE)) \in Nat /\ Calibrated(Target(p, FALSE)) \div 4 \in Nat
  <2> DEFINE x == Target(p, FALSE)
  <2>1. x \in Nat
    BY <1>4
  <2> HIDE DEF x
  <2>2. Calibrated(x) \in Nat /\ Calibrated(x) \div 4 \in Nat
    BY <2>1 DEF Calibrated
  <2> QED
    BY <2>2 DEF x
<1>6. floor \in Nat
  <2> DEFINE q == Calibrated(Target(p, FALSE)) \div 4
  <2>1. q \in Nat
    BY <1>5
  <2>2. floor = Larger(q, 1000)
    BY DEF Floor
  <2> HIDE DEF q, floor
  <2>3. Larger(q, 1000) = IF q >= 1000 THEN q ELSE 1000
    BY <2>1, LargerIs
  <2> QED
    BY <2>1, <2>2, <2>3
<1>7. target \in Int
  <2> DEFINE x == Calibrated(Target(p, FALSE)) - Overhead
             y == floor \div 2
  <2>1. x \in Int /\ y \in Int
    <3> DEFINE z == Calibrated(Target(p, FALSE))
    <3>1. z \in Nat /\ floor \in Nat
      BY <1>5, <1>6
    <3> HIDE DEF z, floor
    <3>2. z - Overhead \in Int /\ floor \div 2 \in Int
      BY <1>1, <3>1
    <3> QED
      BY <3>2 DEF z
  <2> HIDE DEF x, y
  <2>2. Max({x, y, 500}) \in Int
    BY <2>1, MostIs
  <2> QED
    BY <2>2 DEF x, y
<1>8. Larger(top \div 2, 500) \in Int
  <2>1. top \in Nat
    BY TriggerOfFirst
  <2> HIDE DEF top
  <2>2. top \div 2 \in Int
    BY <2>1
  <2> DEFINE h == top \div 2
  <2>3. h \in Int
    BY <2>2
  <2> HIDE DEF h
  <2>4. Larger(h, 500) = IF h >= 500 THEN h ELSE 500
    BY <2>3, LargerIs
  <2>5. Larger(h, 500) \in Int
    BY <2>3, <2>4
  <2> QED
    BY <2>5 DEF h
<1>9. MessageTarget(p, FALSE) = IF target > top THEN Larger(top \div 2, 500) ELSE target
  BY DEF MessageTarget
<1> HIDE DEF target, top
<1> QED
  BY <1>7, <1>8, <1>9

LEMMA TokensAtIsNat ==
    ASSUME NEW ms, Formed(ms), NEW is
    PROVE  TokensAt(ms, is) \in Nat
<1> DEFINE n == Len(ms)
           t == [i \in DOMAIN ms |-> IF i \in is THEN Tokens(ms[i]) ELSE 0]
<1>1. n \in Nat /\ DOMAIN ms = 1..n /\ \A i \in 1..n : Content(ms[i].c)
  BY FormedFacts
<1>2. t = [i \in 1..n |-> t[i]] /\ \A i \in 1..n : t[i] = IF i \in is THEN Tokens(ms[i]) ELSE 0
  BY <1>1
<1>3. TokensAt(ms, is) = Total(t)
  BY DEF TokensAt
<1> HIDE DEF t, n
<1>4. Len(t) = n
  BY <1>1, <1>2, FunctionIsSeq
<1>5. \A i \in 1..n : t[i] \in Nat
  BY <1>1, <1>2, TokensFacts
<1> QED
  BY <1>1, <1>3, <1>4, <1>5, TotalIsNat

LEMMA Steps ==
    ASSUME NEW a \in Int, NEW b \in Int, NEW c \in Int, NEW d \in Int, a <= b, b <= c, c <= d
    PROVE  a <= d
OBVIOUS

\* What is left of a conversation that was too long.
LEMMA CompressedTokens ==
    ASSUME NEW ms, Formed(ms), Len(ms) % 2 = 1, NEW p \in DOMAIN Window, OverTrigger(ms, p),
           Len(Compressed(ms, p)) > MinRecent + 2
    PROVE  TokensOf(Compressed(ms, p)) <= MessageTarget(p, FALSE)
<1> DEFINE g == Compressed(ms, p)
           s == Smaller(ms, p)
           t == Trimmed(ms)
<1>1. Formed(s) /\ Stripped(g, s)
  BY SmallerFacts, CompressedShape
<1>2. PICK a \in 2..Len(ms)+1 :
          /\ a % 2 = 0
          /\ s = Thinned(t, a)
          /\ \/ Len(ms) - a + 2 <= MinRecent + 2
             \/ \E is : /\ From(a, Len(ms)) \subseteq is
                        /\ TokensAt(t, is) <= MessageTarget(p, IsFirst(ms))
  BY SmallerShape
<1>3. Formed(t) /\ Len(t) = Len(ms)
  BY TrimmedShape DEF Stripped, Cut
<1>4. Len(g) > MinRecent + 2
  OBVIOUS
<1> HIDE DEF g, s, t
<1>5. Len(s) = Len(ms) - a + 2
  <2>1. Len(t) % 2 = 1 /\ a \in 2..Len(t)+1
    BY <1>3
  <2>2. Len(Thinned(t, a)) = Len(t) - a + 2
    BY <1>2, <1>3, <2>1, ThinnedFormed
  <2> QED
    BY <1>2, <1>3, <2>2
<1>6. Formed(g) /\ Len(g) = Len(s) /\ Len(ms) \in Nat /\ MinRecent \in Nat /\ a \in Nat
  <2>1. Len(ms) \in Nat
    BY FormedFacts
  <2>2. a \in Nat
    BY <2>1
  <2> QED
    BY <1>1, <2>1, <2>2, CompressionAssumption DEF Stripped
<1>7. ~(Len(ms) - a + 2 <= MinRecent + 2) /\ Len(ms) > 1
  <2>1. Len(ms) - a + 2 > MinRecent + 2 /\ a >= 2
    BY <1>4, <1>5, <1>6
  <2> QED
    BY <1>6, <2>1
<1>8. PICK is : From(a, Len(ms)) \subseteq is /\ TokensAt(t, is) <= MessageTarget(p, IsFirst(ms))
  BY <1>2, <1>7
<1>9. IsFirst(ms) = FALSE
  <2>1. ~(Len(ms) <= 1)
    BY <1>6, <1>7
  <2> QED
    BY <2>1, FirstIs
<1>10. TokensOf(s) <= TokensAt(t, is)
  <2>1. Len(t) % 2 = 1 /\ a \in 2..Len(t)+1 /\ From(a, Len(t)) \subseteq is
    BY <1>3, <1>8
  <2>2. TokensOf(Thinned(t, a)) <= TokensAt(t, is)
    BY <1>2, <1>3, <2>1, ThinnedTokens
  <2> QED
    BY <1>2, <2>2
<1>11. TokensOf(g) <= TokensOf(s)
  BY <1>1, StrippedTokens
<1>12. TokensOf(g) \in Nat /\ TokensOf(s) \in Nat /\ TokensAt(t, is) \in Nat
  BY <1>1, <1>3, <1>6, LoadsFacts, TokensAtIsNat
<1>13. MessageTarget(p, FALSE) \in Int
  BY TargetIsInt
<1>14. TokensAt(t, is) <= MessageTarget(p, FALSE)
  BY <1>8, <1>9
<1>15. TokensOf(g) <= MessageTarget(p, FALSE)
  <2>1. TokensOf(g) \in Int /\ TokensOf(s) \in Int /\ TokensAt(t, is) \in Int
    BY <1>12
  <2> QED
    BY <1>10, <1>11, <1>13, <1>14, <2>1, Steps
<1> QED
  BY <1>15 DEF g

LEMMA KeepsFacts ==
    ASSUME MinRecent >= 2, IInv, attempt > 0
    PROVE  CompressionKeeps
<1> DEFINE p == route[attempt]
           first == route[1]
           all == Scrubbed(Asked, p)
           over == OverTrigger(Asked, first) \/ OverTrigger(all, p)
<1>1. /\ request = Compressed(Asked, first)
      /\ Formed(Asked) /\ Len(Asked) % 2 = 1 /\ Taken(Asked, first)
      /\ Formed(request) /\ Len(request) % 2 = 1 /\ Taken(request, first)
      /\ ~NeedsMark(Asked, first) => request = Asked
  BY RequestFacts
<1>2. Formed(all) /\ Len(all) = Len(Asked) /\ Taken(all, p)
  BY <1>1, ScrubbedFormed
<1>3. Formed(Scrubbed(request, p)) /\ Len(Scrubbed(request, p)) = Len(request)
  BY <1>1, ScrubbedFormed
<1>4. MalformedIds(Asked) = {} /\ MalformedIds(request) = {}
  BY <1>1, NoneMalformed
<1>5. Formed(sent) /\ Len(sent) % 2 = 1
  BY SentFacts
<1>6. first \in DOMAIN Window
  <2>1. route \in Routes
    BY DEF IInv, Types
  <2>2. 1 \in 1..Len(route)
    BY <2>1, RouteFacts
  <2> QED
    BY <2>1, <2>2, RouteFacts
<1>7. \/ sent = Scrubbed(request, p)
      \/ request = Asked /\ sent = Compressed(all, p)
  BY <1>1 DEF IInv, SentIs
<1>8. CompressionKeeps <=>
          /\ Head(sent).c = Head(all).c
          /\ ResultIds(Last(sent)) = ResultIds(Last(all))
          /\ TextsOf(Last(sent)) = TextsOf(Last(all))
          /\ ~over => Len(sent) = Len(all)
          /\ OverTrigger(Asked, first) /\ Len(request) > MinRecent + 2
                 => TokensOf(request) <= MessageTarget(first, FALSE)
  BY DEF CompressionKeeps, Asked
<1>9. request[1] = Asked[1] /\ (~OverTrigger(Asked, first) => Len(request) = Len(Asked))
  BY <1>1, CompressedFacts
<1>10. AlikeContent(request[Len(request)].c, Asked[Len(Asked)].c)
  BY <1>1, CompressedLast
<1> HIDE DEF p, first, all, over
<1>11. Asked # << >> /\ request # << >> /\ all # << >> /\ sent # << >>
  <2>1. \A ms : Formed(ms) /\ Len(ms) % 2 = 1 => ms # << >>
    <3> TAKE ms
    <3> HAVE Formed(ms) /\ Len(ms) % 2 = 1
    <3>1. Len(ms) # 0
      OBVIOUS
    <3> QED
      BY <3>1, FormedFacts
  <2> QED
    BY <1>1, <1>2, <1>5, <2>1
<1>12. sent[1] = all[1]
  <2>1. CASE sent = Scrubbed(request, p)
    BY <1>1, <1>4, <1>9, <1>11, <2>1, ScrubbedFirst DEF all
  <2>2. CASE sent = Compressed(all, p)
    BY <1>1, <1>2, <2>2, CompressedFacts
  <2> QED
    BY <1>7, <2>1, <2>2
<1>13. AlikeContent(sent[Len(sent)].c, all[Len(all)].c)
  <2>1. CASE sent = Scrubbed(request, p)
    <3>1. AlikeContent(Scrubbed(request, p)[Len(request)].c, Scrubbed(Asked, p)[Len(Asked)].c)
      BY <1>1, <1>4, <1>10, <1>11, ScrubbedLast
    <3> QED
      BY <1>2, <1>3, <2>1, <3>1 DEF all
  <2>2. CASE sent = Compressed(all, p)
    BY <1>1, <1>2, <2>2, CompressedLast
  <2> QED
    BY <1>7, <2>1, <2>2
<1>14. Head(sent) = sent[1] /\ Head(all) = all[1]
  BY <1>2, <1>5, <1>11, FormedFacts
<1>15. Last(sent) = sent[Len(sent)] /\ Last(all) = all[Len(all)]
  BY <1>2, <1>5, <1>11, LastOfFormed
<1>16. ResultIds(Last(sent)) = ResultIds(Last(all)) /\ TextsOf(Last(sent)) = TextsOf(Last(all))
  <2>1. AlikeContent(Last(sent).c, Last(all).c)
    BY <1>13, <1>15
  <2> QED
    BY <2>1, AlikeFacts
<1>17. ~over => Len(sent) = Len(all)
  <2> HAVE ~over
  <2>1. ~OverTrigger(Asked, first) /\ ~OverTrigger(all, p)
    BY DEF over
  <2>2. CASE sent = Scrubbed(request, p)
    BY <1>2, <1>3, <1>9, <2>1, <2>2
  <2>3. CASE sent = Compressed(all, p)
    BY <1>1, <1>2, <2>1, <2>3, CompressedFacts
  <2> QED
    BY <1>7, <2>2, <2>3
<1>18. OverTrigger(Asked, first) /\ Len(request) > MinRecent + 2
           => TokensOf(request) <= MessageTarget(first, FALSE)
  BY <1>1, <1>6, CompressedTokens
<1> QED
  BY <1>8, <1>12, <1>14, <1>16, <1>17, <1>18

\* However long a conversation is, its task and its last turn are sent, what is left of
\* one that was too long is below the target unless it is only what is kept at any
\* length, and of one that fits nothing is taken away.
THEOREM Keeps ==
    ASSUME MinRecent >= 2
    PROVE  Spec => []CompressionKeeps
<1>1. Spec => []IInv
  BY Invariance
<1>2. IInv => CompressionKeeps
  <2> SUFFICES ASSUME IInv, attempt > 0
               PROVE  CompressionKeeps
    BY DEF CompressionKeeps
  <2> QED
    BY KeepsFacts
<1> QED
  BY <1>1, <1>2, PTL

-----------------------------------------------------------------------------
(* How far a plan is. *)

\* How many steps the calls up to each complete.
Counts(d, uses, steps) ==
    /\ d[0] = 0
    /\ \A j \in 1..Len(uses) :
          d[j] = IF Advances(uses[j], steps, d[j-1]) THEN d[j-1] + 1 ELSE d[j-1]

LEMMA CompletedSteps ==
    ASSUME NEW uses, Len(uses) \in Nat, NEW steps
    PROVE  \E d \in [0..Len(uses) -> Nat] :
              Counts(d, uses, steps) /\ CompletedBy(uses, steps) = d[Len(uses)]
<1> DEFINE n == Len(uses)
           S == Nat
           Adv(j, k) == IF Advances(uses[j], steps, k) THEN k + 1 ELSE k
           G == [q \in (1..n) \X S |-> Adv(q[1], q[2])]
           Value(d, j) == IF j = 0 THEN 0 ELSE IF Advances(uses[j], steps, d[j-1])
                          THEN d[j-1] + 1 ELSE d[j-1]
           done == CHOOSE d : d = [j \in 0..n |-> Value(d, j)]
<1>1. n \in Nat
  OBVIOUS
<1>2. G \in [(1..n) \X S -> S]
  <2>1. ASSUME NEW j \in 1..n, NEW k \in S
        PROVE  Adv(j, k) \in S
    OBVIOUS
  <2> HIDE DEF S, Adv
  <2> QED
    BY <2>1
<1>3. 0 \in S
  OBVIOUS
<1> HIDE DEF n
<1>4. PICK d \in [0..n -> S] : d[0] = 0 /\ \A j \in 1..n : d[j] = G[<<j, d[j-1]>>]
  <2> HIDE DEF S, G, Value, done
  <2>1. \E d \in [0..n -> S] : Follows(d, n, 0, G)
    BY <1>1, <1>2, <1>3, Recursion
  <2> QED
    BY <2>1 DEF Follows
<1>5. \A j \in 1..n : d[j] = Adv(j, d[j-1])
  <2> HIDE DEF S, Adv
  <2> TAKE j \in 1..n
  <2>1. <<j, d[j-1]>> \in (1..n) \X S
    BY <1>1, <1>4
  <2> QED
    BY <1>4, <2>1
<1>6. d = [j \in 0..n |-> Value(d, j)]
  <2>1. ASSUME NEW j \in 0..n
        PROVE  d[j] = Value(d, j)
    <3>1. j # 0 => j \in 1..n
      BY <1>1
    <3> QED
      BY <1>4, <1>5, <3>1
  <2> HIDE DEF S, Value
  <2> QED
    BY <1>4, <2>1
<1>7. done = [j \in 0..n |-> Value(done, j)]
  BY <1>6
<1>8. CompletedBy(uses, steps) = done[n]
  BY DEF CompletedBy, done, n
<1> HIDE DEF done
<1>9. \A j \in 0..n : done[j] = d[j]
  <2> DEFINE P == {j \in 0..n : done[j] = d[j]}
  <2>1. 0 \in P
    BY <1>1, <1>4, <1>7
  <2>2. ASSUME NEW j \in 0..n, j \in P, j < n
        PROVE  j + 1 \in P
    <3>1. j + 1 \in 1..n /\ j + 1 \in 0..n /\ (j + 1) - 1 = j /\ j + 1 # 0
      BY <1>1, <2>2
    <3>2. done[j+1] = Value(done, j + 1)
      BY <1>7, <3>1
    <3>3. done[j+1] = Adv(j + 1, done[j])
      BY <3>1, <3>2
    <3>4. d[j+1] = Adv(j + 1, d[j])
      BY <1>5, <3>1
    <3> HIDE DEF Adv
    <3> QED
      BY <2>2, <3>1, <3>3, <3>4
  <2>3. \A j \in 0..n : j \in P
    <3> HIDE DEF P
    <3> QED
      BY <1>1, <2>1, <2>2, Induction
  <2> QED
    BY <2>3
<1>10. Counts(d, uses, steps)
  BY <1>4, <1>5 DEF Counts, n
<1>11. CompletedBy(uses, steps) = d[n] /\ d \in [0..n -> Nat]
  BY <1>1, <1>4, <1>8, <1>9
<1> QED
  BY <1>10, <1>11 DEF n

\* The count grows with the calls.
LEMMA CountsGrow ==
    ASSUME NEW uses, Len(uses) \in Nat, NEW steps, NEW d \in [0..Len(uses) -> Nat],
           Counts(d, uses, steps)
    PROVE  /\ \A j \in 1..Len(uses) : d[j-1] <= d[j] /\ d[j] <= d[j-1] + 1
           /\ \A a, b \in 0..Len(uses) : a <= b => d[a] <= d[b]
<1> DEFINE n == Len(uses)
<1>1. \A j \in 1..n : d[j-1] <= d[j] /\ d[j] <= d[j-1] + 1
  <2> TAKE j \in 1..n
  <2>1. j - 1 \in 0..n /\ j \in 0..n
    OBVIOUS
  <2>2. d[j-1] \in Nat /\ d[j] \in Nat
    BY <2>1
  <2>3. d[j] = d[j-1] + 1 \/ d[j] = d[j-1]
    BY DEF Counts
  <2> QED
    BY <2>2, <2>3
<1>2. ASSUME NEW a \in 0..n
      PROVE  \A b \in 0..n : a <= b => d[a] <= d[b]
  <2> DEFINE P == {b \in 0..n : a <= b => d[a] <= d[b]}
  <2>1. 0 \in P
    BY <1>2
  <2>2. ASSUME NEW b \in 0..n, b \in P, b < n
        PROVE  b + 1 \in P
    <3>1. b + 1 \in 1..n /\ b + 1 \in 0..n /\ (b + 1) - 1 = b
      BY <2>2
    <3>2. d[b] <= d[b+1] /\ d[a] \in Nat /\ d[b] \in Nat /\ d[b+1] \in Nat
      BY <1>1, <1>2, <3>1
    <3>3. a <= b + 1 => a <= b \/ a = b + 1
      BY <1>2
    <3> QED
      BY <2>2, <3>1, <3>2, <3>3
  <2>3. \A b \in 0..n : b \in P
    <3> HIDE DEF P
    <3> QED
      BY <2>1, <2>2, Induction
  <2> QED
    BY <2>3
<1> QED
  BY <1>1, <1>2

\* The steps that were completed were called in their order.
LEMMA CompletedCalled ==
    ASSUME NEW T, NEW uses \in Seq(T), NEW U, NEW steps \in Seq(U),
           NEW k, k = CompletedBy(uses, steps)
    PROVE  k \in 0..Len(steps) /\ InOrder(SubSeq(steps, 1, k), uses)
<1> DEFINE n == Len(uses)
<1>1. n \in Nat /\ DOMAIN uses = 1..n /\ Len(steps) \in Nat
  BY SeqFacts
<1>2. PICK d \in [0..n -> Nat] : Counts(d, uses, steps) /\ CompletedBy(uses, steps) = d[n]
  BY <1>1, CompletedSteps
<1>3. \A a, b \in 0..n : a <= b => d[a] <= d[b]
  BY <1>1, <1>2, CountsGrow
<1> DEFINE Hit(j, s) == d[j-1] = s - 1 /\ d[j] = s /\ Calls(uses[j], steps[s])
           Good(m) == m <= Len(steps) /\ \A s \in 1..m : \E j \in 1..n : Hit(j, s)
           P == {j \in 0..n : Good(d[j])}
<1>4. 0 \in P
  <2>1. d[0] = 0
    BY <1>2 DEF Counts
  <2> QED
    BY <1>1, <2>1
<1>5. ASSUME NEW j \in 0..n, j \in P, j < n
      PROVE  j + 1 \in P
  <2>1. j + 1 \in 1..n /\ j + 1 \in 0..n /\ (j + 1) - 1 = j /\ d[j] \in Nat
    BY <1>1, <1>5
  <2>2. d[j+1] = IF Advances(uses[j+1], steps, d[j]) THEN d[j] + 1 ELSE d[j]
    BY <1>2, <2>1 DEF Counts
  <2>3. CASE Advances(uses[j+1], steps, d[j])
    <3>1. d[j+1] = d[j] + 1 /\ d[j] < Len(steps) /\ Calls(uses[j+1], steps[d[j] + 1])
      BY <2>2, <2>3 DEF Advances
    <3>2. \A s \in 1..d[j]+1 : s \in 1..d[j] \/ s = d[j] + 1
      BY <2>1
    <3>3. Hit(j+1, d[j] + 1)
      BY <2>1, <3>1
    <3>4. d[j+1] <= Len(steps)
      BY <1>1, <2>1, <3>1
    <3>5. \A s \in 1..d[j] : \E i \in 1..n : Hit(i, s)
      BY <1>5
    <3> HIDE DEF Hit
    <3>6. \A s \in 1..d[j]+1 : \E i \in 1..n : Hit(i, s)
      BY <2>1, <3>2, <3>3, <3>5
    <3> QED
      BY <2>1, <3>1, <3>4, <3>6
  <2>4. CASE ~Advances(uses[j+1], steps, d[j])
    <3>1. d[j+1] = d[j]
      BY <2>2, <2>4
    <3> HIDE DEF Good
    <3> QED
      BY <1>5, <2>1, <3>1
  <2> QED
    BY <2>3, <2>4
<1>6. \A j \in 0..n : j \in P
  <2> HIDE DEF P, n
  <2> QED
    BY <1>1, <1>4, <1>5, Induction
<1>7. k = d[n] /\ k \in Nat /\ k <= Len(steps) /\ \A s \in 1..k : \E j \in 1..n : Hit(j, s)
  BY <1>1, <1>2, <1>6
<1> DEFINE f == [s \in 1..k |-> CHOOSE j \in 1..n : Hit(j, s)]
           g == SubSeq(steps, 1, k)
<1>8. DOMAIN g = 1..k /\ \A s \in 1..k : g[s] = steps[s]
  BY <1>1, <1>7
<1>9. \A s \in 1..k : f[s] \in 1..n /\ Hit(f[s], s)
  <2> HIDE DEF Hit
  <2> QED
    BY <1>7
<1> HIDE DEF f, g
<1>10. f \in [1..k -> 1..n]
  BY <1>9 DEF f
<1>11. \A s \in 1..k : IsStep(uses[f[s]], g[s])
  BY <1>8, <1>9 DEF Calls, IsStep
<1>12. ASSUME NEW s \in 1..k, NEW t \in 1..k, s < t
       PROVE  f[s] < f[t]
  <2> DEFINE x == f[s]
             y == f[t]
  <2>1. x \in 1..n /\ y \in 1..n /\ d[x] = s /\ d[y] = t
    BY <1>9
  <2> HIDE DEF x, y
  <2>2. CASE y <= x
    <3>1. d[y] <= d[x]
      BY <1>1, <1>3, <2>1, <2>2
    <3> QED
      BY <1>7, <1>12, <2>1, <3>1
  <2> QED
    BY <1>1, <2>1, <2>2 DEF x, y
<1> HIDE DEF n
<1>13. InOrder(g, uses)
  BY <1>1, <1>8, <1>10, <1>11, <1>12 DEF InOrder
<1> QED
  BY <1>1, <1>7, <1>13 DEF g

\* Calls that come later take nothing back, and the next step's is seen.
LEMMA CompletedMore ==
    ASSUME NEW T, NEW u \in Seq(T), NEW v \in Seq(T), NEW steps
    PROVE  /\ CompletedBy(u, steps) \in Nat /\ CompletedBy(u \o v, steps) \in Nat
           /\ CompletedBy(u, steps) <= CompletedBy(u \o v, steps)
           /\ (\E e \in Range(v) : Advances(e, steps, CompletedBy(u, steps)))
                 => CompletedBy(u, steps) + 1 <= CompletedBy(u \o v, steps)
<1> DEFINE w == u \o v
           m == Len(u)
           n == Len(w)
<1>1. /\ m \in Nat /\ n \in Nat /\ Len(v) \in Nat /\ n = m + Len(v)
      /\ \A i \in 1..n : w[i] = IF i <= m THEN u[i] ELSE v[i - m]
      /\ Range(v) = {v[i] : i \in 1..Len(v)}
  BY ConcatProperties, LenProperties, SeqFacts
<1> HIDE DEF w
<1>2. PICK d \in [0..m -> Nat] : Counts(d, u, steps) /\ CompletedBy(u, steps) = d[m]
  BY <1>1, CompletedSteps
<1>3. PICK f \in [0..n -> Nat] : Counts(f, w, steps) /\ CompletedBy(w, steps) = f[n]
  BY <1>1, CompletedSteps
<1> HIDE DEF m, n
<1>4. \A j \in 0..m : f[j] = d[j]
  <2> DEFINE P == {j \in 0..m : f[j] = d[j]}
  <2>1. 0 \in P
    BY <1>1, <1>2, <1>3 DEF Counts
  <2>2. ASSUME NEW j \in 0..m, j \in P, j < m
        PROVE  j + 1 \in P
    <3>1. j + 1 \in 1..m /\ j + 1 \in 1..n /\ j + 1 \in 0..m /\ (j + 1) - 1 = j /\ j + 1 <= m
      BY <1>1, <2>2
    <3>2. d[j+1] = IF Advances(u[j+1], steps, d[j]) THEN d[j] + 1 ELSE d[j]
      BY <1>2, <3>1 DEF Counts, m
    <3>3. f[j+1] = IF Advances(w[j+1], steps, f[j]) THEN f[j] + 1 ELSE f[j]
      BY <1>3, <3>1 DEF Counts, n
    <3>4. w[j+1] = u[j+1]
      BY <1>1, <3>1
    <3> QED
      BY <2>2, <3>1, <3>2, <3>3, <3>4
  <2>3. \A j \in 0..m : j \in P
    <3> HIDE DEF P
    <3> QED
      BY <1>1, <2>1, <2>2, Induction
  <2> QED
    BY <2>3
<1>5. f[m] = d[m] /\ m \in 0..n /\ n \in 0..n /\ f[m] \in Nat /\ f[n] \in Nat
  BY <1>1, <1>3, <1>4
<1>6. \A a, b \in 0..n : a <= b => f[a] <= f[b]
  BY <1>1, <1>3, CountsGrow DEF n
<1>7. f[m] <= f[n]
  BY <1>1, <1>5, <1>6
<1>8. ASSUME NEW e \in Range(v), Advances(e, steps, f[m])
      PROVE  f[m] + 1 <= f[n]
  <2>1. PICK i \in 1..Len(v) : e = v[i]
    BY <1>1
  <2> DEFINE j == m + i
  <2>2. j \in 1..n /\ j \in 0..n /\ j - 1 \in 0..n /\ m <= j - 1 /\ j <= n /\ ~(j <= m) /\ j - m = i
    BY <1>1
  <2> HIDE DEF j
  <2>3. w[j] = e
    BY <1>1, <2>1, <2>2
  <2>4. f[j] = IF Advances(e, steps, f[j-1]) THEN f[j-1] + 1 ELSE f[j-1]
    BY <1>3, <2>2, <2>3 DEF Counts, n
  <2>5. f[m] <= f[j-1] /\ f[j-1] <= f[j] /\ f[j] <= f[n] /\ f[j-1] \in Nat /\ f[j] \in Nat
    <3>1. j - 1 <= j
      BY <2>2
    <3> QED
      BY <1>3, <1>5, <1>6, <2>2, <3>1
  <2>6. CASE f[j-1] = f[m]
    <3>1. f[j] = f[m] + 1
      BY <1>8, <2>4, <2>6
    <3> QED
      BY <1>5, <2>5, <3>1
  <2>7. CASE f[j-1] # f[m]
    BY <1>5, <2>5, <2>7
  <2> QED
    BY <2>6, <2>7
<1> QED
  BY <1>2, <1>3, <1>5, <1>7, <1>8 DEF w

-----------------------------------------------------------------------------
(* What Picked takes of one kind. *)

\* A filter sees no more than the members it takes.
LEMMA OnlySame ==
    ASSUME NEW c, Content(c), NEW d, Content(d), Len(d) = Len(c), NEW B,
           \A i \in 1..Len(c) : c[i] \in B \/ d[i] \in B => c[i] = d[i]
    PROVE  Only(c, B) = Only(d, B)
<1> DEFINE T == Range(c) \cup Range(d)
           is == {i \in DOMAIN c : c[i] \in B}
           js == {i \in DOMAIN d : d[i] \in B}
<1>1. c \in Seq(T) /\ d \in Seq(T)
  BY SeqOfRange DEF Content
<1>2. DOMAIN c = 1..Len(c) /\ DOMAIN d = 1..Len(d)
  BY ContentFacts
<1>3. \A i \in 1..Len(c) : (i \in is <=> i \in js) /\ (i \in is => c[i] = d[i])
  BY <1>2
<1> HIDE DEF T, is, js
<1>4. Picked(c, is) = Picked(d, js)
  BY <1>1, <1>3, PickedAgree
<1> QED
  BY <1>4 DEF Only, is, js

LEMMA OnlyFacts ==
    ASSUME NEW c, Content(c), NEW B
    PROVE  /\ Content(Only(c, B)) /\ Range(Only(c, B)) = Range(c) \cap B
           /\ Range(c) \cap B = {} => Only(c, B) = << >>
<1>1. Content(Only(c, B)) /\ Range(Only(c, B)) = Range(c) \cap B
  BY PickedWhere DEF Only
<1>2. Range(c) \cap B = {} => Only(c, B) = << >>
  <2> DEFINE d == Only(c, B)
  <2> SUFFICES ASSUME Range(d) = {}
               PROVE  d = << >>
    BY <1>1
  <2>1. Len(d) \in Nat /\ Range(d) = {d[i] : i \in 1..Len(d)} /\ (d = << >> <=> Len(d) = 0)
    BY <1>1, ContentFacts
  <2> HIDE DEF d
  <2>2. Len(d) = 0
    <3> SUFFICES ASSUME Len(d) # 0
                 PROVE  FALSE
      OBVIOUS
    <3>1. 1 \in 1..Len(d)
      BY <2>1
    <3> QED
      BY <2>1, <3>1
  <2> QED
    BY <2>1, <2>2
<1> QED
  BY <1>1, <1>2

-----------------------------------------------------------------------------
(* The calls of a message, before and after a scrub. *)

\* The calls of a content that are whole.
Goods(c) == {b \in UsesIn(c) : b.good}

LEMMA CallsAreOnly ==
    ASSUME NEW c, Content(c)
    PROVE  GoodUses(c) = Only(c, Goods(c)) /\ Blocks(c, "use") = Only(c, UsesIn(c))
<1>1. DOMAIN c = 1..Len(c) /\ \A i \in 1..Len(c) : c[i] \in Range(c)
  BY ContentFacts
<1>2. {n \in DOMAIN c : c[n].k = "use" /\ c[n].good} = {n \in DOMAIN c : c[n] \in Goods(c)}
  BY <1>1 DEF Goods, UsesIn
<1>3. {n \in DOMAIN c : c[n].k = "use"} = {n \in DOMAIN c : c[n] \in UsesIn(c)}
  BY <1>1 DEF UsesIn
<1> QED
  BY <1>2, <1>3 DEF GoodUses, Blocks, Only

\* A filter loses nothing to one that takes all it looks for.
LEMMA OnlyKept ==
    ASSUME NEW c, Content(c), NEW is, NEW B,
           \A i \in 1..Len(c) : c[i] \in B => i \in is
    PROVE  Only(Picked(c, is), B) = Only(c, B)
<1> DEFINE T == Range(c)
<1>1. c \in Seq(T) /\ DOMAIN c = 1..Len(c)
  BY ContentFacts
<1> HIDE DEF T
<1>2. Only(Picked(c, is), B) = Picked(c, {i \in DOMAIN c : i \in is /\ c[i] \in B})
  BY <1>1, OnlyPicked
<1>3. {i \in DOMAIN c : i \in is /\ c[i] \in B} = {i \in DOMAIN c : c[i] \in B}
  BY <1>1
<1> QED
  BY <1>2, <1>3 DEF Only

LEMMA SanitizedOnly ==
    ASSUME NEW c, Content(c), NEW p, NEW B, \A b \in B : b.k = "use"
    PROVE  Only(SanitizeContentBlocks(c, p), B) = Only(c, B)
<1> DEFINE is == {i \in DOMAIN c : ~Dropped(c[i], p)}
           kept == Picked(c, is)
           made1 == [i \in DOMAIN kept |-> ScrubbedBlock(kept[i], p)]
<1>1. DOMAIN c = 1..Len(c) /\ \A i \in 1..Len(c) : OkBlock(c[i])
  BY ContentFacts
<1>2. Content(kept) /\ Range(kept) = {c[i] : i \in is \cap 1..Len(c)}
  BY PickedContent
<1>3. Only(kept, B) = Only(c, B)
  <2>1. \A i \in 1..Len(c) : c[i] \in B => i \in is
    BY <1>1 DEF Dropped
  <2> HIDE DEF is
  <2> QED
    BY <2>1, OnlyKept
<1>4. \A b \in Range(kept) : OkBlock(b) /\ ~Dropped(b, p)
  BY <1>1, <1>2
<1>5. SanitizeContentBlocks(c, p) = IF c # << >> /\ kept = << >> THEN <<BlockText("placeholder")>> ELSE made1
  BY DEF SanitizeContentBlocks
<1> HIDE DEF is, kept
<1>6. /\ Len(kept) \in Nat /\ DOMAIN kept = 1..Len(kept)
      /\ \A i \in 1..Len(kept) : kept[i] \in Range(kept)
  BY <1>2, ContentFacts
<1>7. CASE c # << >> /\ kept = << >>
  <2>1. Only(kept, B) = << >>
    BY <1>7, OnlyNone
  <2> DEFINE q == BlockText("placeholder")
  <2>2. OkBlock(q) /\ q.k = "text"
    BY TextIsOk
  <2> HIDE DEF q
  <2>3. Content(<<q>>) /\ Range(<<q>>) = {q}
    BY <2>2, OneBlock
  <2>4. Range(<<q>>) \cap B = {}
    BY <2>2, <2>3
  <2>5. Only(<<q>>, B) = << >>
    BY <2>3, <2>4, OnlyFacts
  <2> QED
    BY <1>3, <1>5, <1>7, <2>1, <2>5 DEF q
<1>8. CASE ~(c # << >> /\ kept = << >>)
  <2>1. \A i \in 1..Len(kept) : /\ made1[i] = ScrubbedBlock(kept[i], p)
                                /\ OkBlock(made1[i])
                                /\ kept[i].k = "use" \/ made1[i].k = "use" => made1[i] = kept[i]
    <3> TAKE i \in 1..Len(kept)
    <3> DEFINE b == kept[i]
    <3>1. OkBlock(b) /\ ~Dropped(b, p) /\ made1[i] = ScrubbedBlock(b, p)
      BY <1>4, <1>6
    <3> HIDE DEF b
    <3>2. /\ OkBlock(ScrubbedBlock(b, p))
          /\ ScrubbedBlock(b, p) = b \/ ScrubbedBlock(b, p).k = "text"
          /\ b.k \in {"use", "result", "text"} => ScrubbedBlock(b, p) = b
      BY <3>1, SanitizedBlock
    <3> QED
      BY <3>1, <3>2 DEF b
  <2>2. made1 = [i \in 1..Len(kept) |-> made1[i]]
    BY <1>6
  <2> HIDE DEF made1
  <2>3. Content(made1) /\ Len(made1) = Len(kept)
    BY <1>6, <2>1, <2>2, MadeContent
  <2>4. Only(kept, B) = Only(made1, B)
    <3>1. \A i \in 1..Len(kept) : kept[i] \in B \/ made1[i] \in B => kept[i] = made1[i]
      BY <2>1
    <3> QED
      BY <1>2, <2>3, <3>1, OnlySame
  <2> QED
    BY <1>3, <1>5, <1>8, <2>4
<1> QED
  BY <1>7, <1>8

LEMMA NotedOnly ==
    ASSUME NEW c, Content(c), NEW B, \A b \in B : b.k = "use" /\ b.good
    PROVE  Only(Noted(c), B) = Only(c, B)
<1> DEFINE d == Noted(c)
<1>1. DOMAIN c = 1..Len(c) /\ Len(c) \in Nat
  BY ContentFacts
<1>2. Content(d) /\ Len(d) = Len(c)
  BY NotedContent
<1>3. \A i \in 1..Len(c) : d[i] = IF c[i].k = "use" /\ ~c[i].good THEN BlockText("note") ELSE c[i]
  BY <1>1 DEF Noted
<1> HIDE DEF d
<1>4. \A i \in 1..Len(c) : c[i] \in B \/ d[i] \in B => c[i] = d[i]
  BY <1>3, TextIsOk
<1>5. Only(c, B) = Only(d, B)
  BY <1>2, <1>4, OnlySame
<1> QED
  BY <1>5 DEF d

LEMMA UnansweredOnly ==
    ASSUME NEW c, Content(c), NEW ids, NEW B, \A b \in B : b.k = "use"
    PROVE  Only(Unanswered(c, ids), B) = Only(c, B)
<1> DEFINE is == {i \in DOMAIN c : c[i].k # "result" \/ c[i].id \notin ids}
<1>1. DOMAIN c = 1..Len(c)
  BY ContentFacts
<1>2. \A i \in 1..Len(c) : c[i] \in B => i \in is
  BY <1>1
<1> HIDE DEF is
<1>3. Only(Picked(c, is), B) = Only(c, B)
  BY <1>2, OnlyKept
<1> QED
  BY <1>3 DEF Unanswered, is

LEMMA FilledOnly ==
    ASSUME NEW c, Content(c), NEW B, \A b \in B : b.k = "use"
    PROVE  Only(Filled(c), B) = Only(c, B)
<1>1. CASE c = << >>
  <2> DEFINE q == BlockText("dropped")
  <2>1. OkBlock(q) /\ q.k = "text"
    BY TextIsOk
  <2>2. Filled(c) = <<q>>
    BY <1>1 DEF Filled
  <2> HIDE DEF q
  <2>3. Content(<<q>>) /\ Range(<<q>>) = {q}
    BY <2>1, OneBlock
  <2>4. Range(<<q>>) \cap B = {}
    BY <2>1, <2>3
  <2>5. Only(<<q>>, B) = << >>
    BY <2>3, <2>4, OnlyFacts
  <2> QED
    BY <1>1, <2>2, <2>5, OnlyNone
<1>2. CASE c # << >>
  BY <1>2 DEF Filled
<1> QED
  BY <1>1, <1>2

\* What a scrub leaves of the calls of a message are the whole ones.
LEMMA ScrubbedCalls ==
    ASSUME NEW c, Content(c), NEW p, NEW ids
    PROVE  Blocks(ScrubbedContent(c, p, ids), "use") = GoodUses(c)
<1> DEFINE B == Goods(c)
           s1 == SanitizeContentBlocks(c, p)
           s2 == Noted(s1)
           s3 == Unanswered(s2, ids)
           s4 == Filled(s3)
<1>1. \A b \in B : b.k = "use" /\ b.good
  BY DEF Goods, UsesIn
<1>2. Content(s1) /\ Content(s2) /\ Content(s3)
  <2>1. Content(s1)
    BY SanitizedContent
  <2>2. Content(s2)
    <3> HIDE DEF s1
    <3> QED
      BY <2>1, NotedContent
  <2>3. Content(s3)
    <3> HIDE DEF s2
    <3> QED
      BY <2>2, UnansweredContent
  <2> QED
    BY <2>1, <2>2, <2>3
<1>3. s4 = ScrubbedContent(c, p, ids)
  BY DEF ScrubbedContent
<1>4. UsesIn(s4) = B /\ Content(s4)
  BY <1>3, ScrubbedContentFacts DEF Goods
<1>5. Only(s1, B) = Only(c, B)
  <2> HIDE DEF B
  <2> QED
    BY <1>1, SanitizedOnly
<1>6. Only(s2, B) = Only(s1, B)
  <2> HIDE DEF B, s1
  <2> QED
    BY <1>1, <1>2, NotedOnly
<1>7. Only(s3, B) = Only(s2, B)
  <2> HIDE DEF B, s2
  <2> QED
    BY <1>1, <1>2, UnansweredOnly
<1>8. Only(s4, B) = Only(s3, B)
  <2> HIDE DEF B, s3
  <2> QED
    BY <1>1, <1>2, FilledOnly
<1>9. Blocks(s4, "use") = Only(s4, UsesIn(s4))
  <2> HIDE DEF s4
  <2> QED
    BY <1>4, CallsAreOnly
<1>10. GoodUses(c) = Only(c, B)
  BY CallsAreOnly
<1> HIDE DEF B, s1, s2, s3, s4
<1> QED
  BY <1>3, <1>4, <1>5, <1>6, <1>7, <1>8, <1>9, <1>10

\* A message without calls has none.
LEMMA NoCalls ==
    ASSUME NEW c, Content(c), UsesIn(c) = {}
    PROVE  Blocks(c, "use") = << >> /\ GoodUses(c) = << >>
<1>1. Goods(c) = {}
  BY DEF Goods
<1>2. Only(c, {}) = << >>
  <2>1. Range(c) \cap {} = {}
    OBVIOUS
  <2> QED
    BY <2>1, OnlyFacts
<1> QED
  BY <1>1, <1>2, CallsAreOnly

-----------------------------------------------------------------------------
(* The texts of a message, before and after. *)

Texts(c) == {b.t : b \in {a \in Range(c) : a.k = "text"}}

LEMMA TextIn ==
    ASSUME NEW c, NEW t
    PROVE  t \in Texts(c) <=> \E b \in Range(c) : b.k = "text" /\ b.t = t
BY DEF Texts

\* A text goes through a scrub; in its place may come one that plans nothing.
LEMMA ScrubbedTexts ==
    ASSUME NEW c, Content(c), \A b \in Range(c) : b.k \in Asking, NEW p, NEW ids
    PROVE  /\ Texts(c) \subseteq Texts(ScrubbedContent(c, p, ids))
           /\ Texts(ScrubbedContent(c, p, ids)) \subseteq Texts(c) \cup {"omitted", "dropped"}
<1> DEFINE n == Len(c)
           s == [i \in 1..n |-> ScrubbedBlock(c[i], p)]
           u == Unanswered(s, ids)
           f == Filled(u)
<1>1. /\ n \in Nat /\ DOMAIN c = 1..n /\ c \in Seq(Range(c)) /\ (c = << >> <=> n = 0)
      /\ \A i \in 1..n : c[i] \in Range(c) /\ OkBlock(c[i])
      /\ Range(c) = {c[i] : i \in 1..n}
  BY ContentFacts
<1>2. \A i \in 1..n : ~Dropped(c[i], p) /\ c[i].k \in Asking
  BY <1>1 DEF Dropped, Asking
<1>3. Picked(c, {i \in DOMAIN c : ~Dropped(c[i], p)}) = c
  <2>1. 1..Len(c) \subseteq {i \in DOMAIN c : ~Dropped(c[i], p)}
    BY <1>1, <1>2
  <2> QED
    BY <1>1, <2>1, PickedAll
<1>4. SanitizeContentBlocks(c, p) = s
  BY <1>1, <1>3 DEF SanitizeContentBlocks
<1>5. s = [i \in 1..n |-> s[i]] /\ \A i \in 1..n : s[i] = ScrubbedBlock(c[i], p)
  OBVIOUS
<1> HIDE DEF s, n
<1>6. \A i \in 1..n : OkBlock(s[i])
  BY <1>1, <1>2, <1>5, SanitizedBlock
<1>7. Content(s) /\ Range(s) = {s[i] : i \in 1..n}
  BY <1>1, <1>5, <1>6, MadeContent
<1>8. \A i \in 1..n : s[i] = c[i] \/ (c[i].k = "image" /\ s[i] = BlockText("omitted"))
  <2> TAKE i \in 1..n
  <2> DEFINE b == c[i]
  <2>1. b.k \in Asking /\ s[i] = ScrubbedBlock(b, p)
    BY <1>2, <1>5
  <2> HIDE DEF b
  <2>2. CASE b.k = "image" /\ p = "deepseek"
    <3>1. ScrubbedBlock(b, p) = BlockText("omitted")
      BY <2>2 DEF ScrubbedBlock, SearchKinds
    <3> QED
      BY <2>1, <2>2, <3>1 DEF b
  <2>3. CASE ~(b.k = "image" /\ p = "deepseek")
    <3>1. s[i] = b
      BY <2>1, <2>3 DEF ScrubbedBlock, Asking, SearchKinds
    <3> QED
      BY <3>1 DEF b
  <2> QED
    BY <2>2, <2>3
<1>9. Noted(s) = s
  <2>1. \A b \in Range(s) : ~Bad(b)
    <3>1. \A i \in 1..n : s[i].k # "use"
      BY <1>2, <1>8, TextIsOk DEF Asking
    <3> QED
      BY <1>7, <3>1 DEF Bad
  <2> QED
    BY <1>7, <2>1, NotedContent
<1>10. Content(u) /\ Range(u) = {b \in Range(s) : b.k # "result" \/ b.id \notin ids}
  BY <1>7, UnansweredContent
<1>11. ScrubbedContent(c, p, ids) = f
  BY <1>4, <1>9 DEF ScrubbedContent
<1> HIDE DEF u
<1>12. /\ \A b \in Range(f) : b \in Range(u) \/ b = BlockText("dropped")
       /\ u # << >> => f = u
  BY <1>10, FilledContent
<1> HIDE DEF f
<1>13. BlockText("omitted").t = "omitted" /\ BlockText("dropped").t = "dropped"
  BY DEF BlockText
<1>14. ASSUME NEW t \in Texts(c)
       PROVE  t \in Texts(f)
  <2>1. PICK i \in 1..n : c[i].k = "text" /\ c[i].t = t
    <3>1. PICK b \in Range(c) : b.k = "text" /\ b.t = t
      BY <1>14, TextIn
    <3> QED
      BY <1>1, <3>1
  <2>2. s[i] = c[i]
    BY <1>8, <2>1
  <2>3. c[i] \in Range(u)
    BY <1>7, <1>10, <2>1, <2>2
  <2>4. u # << >>
    BY <2>3, NoBlock
  <2>5. c[i] \in Range(f)
    BY <1>12, <2>3, <2>4
  <2> QED
    BY <2>1, <2>5, TextIn
<1>15. ASSUME NEW t \in Texts(f)
       PROVE  t \in Texts(c) \cup {"omitted", "dropped"}
  <2>1. PICK b \in Range(f) : b.k = "text" /\ b.t = t
    BY <1>15, TextIn
  <2>2. CASE b = BlockText("dropped")
    BY <1>13, <2>1, <2>2
  <2>3. CASE b \in Range(u)
    <3>1. PICK i \in 1..n : b = s[i]
      BY <1>7, <1>10, <2>3
    <3>2. CASE s[i] = c[i]
      <4>1. b \in Range(c)
        BY <1>1, <3>1, <3>2
      <4>2. t \in Texts(c)
        BY <2>1, <4>1, TextIn
      <4> QED
        BY <4>2
    <3>3. CASE s[i] = BlockText("omitted")
      BY <1>13, <2>1, <3>1, <3>3
    <3> QED
      BY <1>8, <3>2, <3>3
  <2> QED
    BY <1>12, <2>2, <2>3
<1> QED
  BY <1>11, <1>14, <1>15

\* What compression leaves of a message says the same, and calls the same.
SameTurn(n, m, i) == Texts(n.c) = Texts(m.c) /\ (i % 2 = 0 => n = m)

LEMMA StrippedSame ==
    ASSUME NEW ms, Formed(ms), NEW g, Stripped(g, ms), NEW i \in 1..Len(ms)
    PROVE  SameTurn(g[i], ms[i], i)
<1> DEFINE m == ms[i]
           c == m.c
           r == RoleAt(i)
<1>1. MessageAt(m, i) /\ Content(c) /\ (g[i] = m \/ g[i] = WithoutImages(m))
      /\ (NoImages(c) => g[i] = m)
  BY FormedFacts DEF Stripped
<1>2. m = Message(r, c)
  BY <1>1 DEF MessageAt
<1> HIDE DEF r
<1>3. i % 2 = 0 => NoImages(c)
  BY <1>1 DEF MessageAt, NoImages, Asking
<1>4. CASE g[i] = m
  BY <1>4 DEF SameTurn
<1>5. CASE g[i] = WithoutImages(m)
  <2> HIDE DEF c
  <2>1. Range(WithoutImages(Message(r, c)).c) = {b \in Range(c) : b.k # "image"}
    BY <1>1, WithoutImagesMessage
  <2>2. Range(g[i].c) = {b \in Range(c) : b.k # "image"}
    BY <1>2, <1>5, <2>1
  <2>3. {a \in Range(g[i].c) : a.k = "text"} = {a \in Range(c) : a.k = "text"}
    BY <2>2
  <2>4. Texts(g[i].c) = Texts(c)
    BY <2>3 DEF Texts
  <2> QED
    BY <1>1, <1>3, <2>4 DEF SameTurn, c
<1> QED
  BY <1>1, <1>4, <1>5

LEMMA CutSame ==
    ASSUME NEW ms, Formed(ms), NEW g, Cut(g, ms), NEW i \in 1..Len(ms)
    PROVE  SameTurn(g[i], ms[i], i)
<1>1. Content(ms[i].c)
  BY FormedFacts
<1>2. i = 1 \/ i % 2 = 0 => g[i] = ms[i]
  BY DEF Cut
<1>3. CASE i = 1 \/ i % 2 = 0
  BY <1>2, <1>3 DEF SameTurn
<1>4. CASE ~(i = 1 \/ i % 2 = 0)
  <2> DEFINE c == ms[i].c
             cut == [j \in DOMAIN c |-> CutBlock(c[j])]
             r == ms[i].role
  <2>1. i > 1 /\ i % 2 = 1
    BY <1>4
  <2>2. g[i] = Message(r, cut)
    BY <2>1 DEF Cut
  <2>3. AlikeContent(cut, c)
    BY <1>1, CutIsAlike
  <2> HIDE DEF cut
  <2>4. g[i].c = cut
    BY <2>2, MessageFacts
  <2>5. AlikeContent(g[i].c, ms[i].c)
    BY <2>3, <2>4
  <2>6. TextsOf(g[i]) = TextsOf(ms[i])
    BY <2>5, AlikeFacts
  <2> QED
    BY <1>4, <2>6 DEF SameTurn, Texts, TextsOf
<1> QED
  BY <1>3, <1>4

LEMMA ThinnedAll ==
    ASSUME NEW ms, Formed(ms), Len(ms) % 2 = 1
    PROVE  Thinned(ms, 2) = ms
<1>1. Len(ms) \in Nat /\ ms = [i \in 1..Len(ms) |-> ms[i]]
  BY FormedFacts
<1>2. Len(ms) - 2 + 2 = Len(ms) /\ \A j \in 1..Len(ms) : 2 + j - 2 = j
  BY <1>1
<1> QED
  BY <1>1, <1>2 DEF Thinned

\* Where no message is taken away each says and calls what it did.
LEMMA CompressedSame ==
    ASSUME NEW ms, Formed(ms), Len(ms) % 2 = 1, NEW model,
           NEW g, g = Compressed(ms, model), ~(Len(g) < Len(ms))
    PROVE  Len(g) = Len(ms) /\ \A i \in 1..Len(ms) : SameTurn(g[i], ms[i], i)
<1> DEFINE s == Smaller(ms, model)
           n == Len(ms)
<1>1. Formed(s) /\ Stripped(g, s) /\ n \in Nat
  BY SmallerFacts, CompressedShape, FormedFacts
<1>2. Len(g) = Len(s)
  BY <1>1 DEF Stripped
<1>3. Len(s) = n /\ \A i \in 1..n : SameTurn(s[i], ms[i], i)
  <2>1. CASE ~OverTrigger(ms, model)
    <3>1. s = ms
      BY <2>1 DEF Smaller
    <3> QED
      BY <3>1 DEF SameTurn
  <2>2. CASE OverTrigger(ms, model)
    <3> DEFINE d == DropOldImages(ms)
               t == Trimmed(ms)
    <3>1. Stripped(d, ms) /\ Cut(t, d)
      BY TrimmedShape
    <3>2. PICK a \in 2..n+1 : a % 2 = 0 /\ s = Thinned(t, a)
      BY <2>2, SmallerShape
    <3> HIDE DEF d, t, s
    <3>3. Formed(d) /\ Len(d) = n /\ Formed(t) /\ Len(t) = n
      BY <3>1 DEF Stripped, Cut
    <3>4. Len(s) = n - a + 2
      <4>1. Len(t) % 2 = 1 /\ a \in 2..Len(t)+1
        BY <3>3
      <4>2. Len(Thinned(t, a)) = Len(t) - a + 2
        BY <3>2, <3>3, <4>1, ThinnedFormed
      <4> QED
        BY <3>2, <3>3, <4>2
    <3>5. a = 2
      BY <1>1, <1>2, <3>4
    <3>6. s = t
      <4>1. Len(t) % 2 = 1
        BY <3>3
      <4>2. Thinned(t, 2) = t
        BY <3>3, <4>1, ThinnedAll
      <4> QED
        BY <3>2, <3>5, <4>2
    <3>7. ASSUME NEW i \in 1..n
          PROVE  SameTurn(s[i], ms[i], i)
      <4>1. SameTurn(d[i], ms[i], i)
        BY <3>1, StrippedSame
      <4>2. i \in 1..Len(d)
        BY <3>3
      <4>3. SameTurn(t[i], d[i], i)
        BY <3>1, <3>3, <4>2, CutSame
      <4> QED
        BY <3>6, <4>1, <4>3 DEF SameTurn
    <3> QED
      BY <3>3, <3>6, <3>7
  <2> QED
    BY <2>1, <2>2
<1> HIDE DEF s
<1>4. ASSUME NEW i \in 1..n
      PROVE  SameTurn(g[i], ms[i], i)
  <2>1. i \in 1..Len(s)
    BY <1>3
  <2>2. SameTurn(g[i], s[i], i)
    BY <1>1, <2>1, StrippedSame
  <2>3. SameTurn(s[i], ms[i], i)
    BY <1>3
  <2> QED
    BY <2>2, <2>3 DEF SameTurn
<1> QED
  BY <1>2, <1>3, <1>4

-----------------------------------------------------------------------------
(* The calls that were made of a plan, message by message. *)

\* The greatest of some positions.
LEMMA MaxIs ==
    ASSUME NEW n \in Nat, NEW S, S \subseteq 1..n, S # {}
    PROVE  Max(S) \in S /\ \A y \in S : y <= Max(S)
<1> DEFINE T == {k \in Nat : n - k \in S}
<1>1. T \subseteq Nat /\ T # {}
  <2>1. PICK x \in S : TRUE
    OBVIOUS
  <2>2. n - x \in Nat /\ n - (n - x) = x
    BY <2>1
  <2>3. n - x \in T
    BY <2>1, <2>2
  <2> QED
    BY <2>3
<1>2. PICK k \in T : \A y \in T : k <= y
  <2> HIDE DEF T
  <2> QED
    BY <1>1, Least
<1>3. n - k \in S /\ \A y \in S : n - k >= y
  <2>1. n - k \in S /\ k \in Nat
    BY <1>2
  <2>2. ASSUME NEW y \in S
        PROVE  n - k >= y
    <3>1. y \in 1..n /\ n - y \in Nat /\ n - (n - y) = y
      OBVIOUS
    <3>2. n - y \in T
      BY <3>1
    <3>3. k <= n - y
      BY <1>2, <3>2
    <3> QED
      BY <2>1, <3>1, <3>3
  <2> QED
    BY <2>1, <2>2
<1>4. Max(S) = CHOOSE x \in S : \A y \in S : x >= y
  BY DEF Max
<1> DEFINE x == Max(S)
<1>5. x \in S /\ \A y \in S : x >= y
  BY <1>3, <1>4
<1> HIDE DEF x
<1>6. \A y \in S : y <= x
  BY <1>5
<1> QED
  BY <1>5, <1>6 DEF x

Contents(h) == Len(h) \in Nat /\ \A j \in 1..Len(h) : Content(h[j].c)
BlocksOf(h) == UNION {Range(h[j].c) : j \in 1..Len(h)}

LEMMA GoodUsesFacts ==
    ASSUME NEW c, Content(c)
    PROVE  /\ Content(GoodUses(c)) /\ GoodUses(c) \in Seq(Range(GoodUses(c)))
           /\ Range(GoodUses(c)) = {b \in Range(c) : b.k = "use" /\ b.good}
<1>1. GoodUses(c) = Only(c, Goods(c))
  BY CallsAreOnly
<1>2. Content(Only(c, Goods(c))) /\ Range(Only(c, Goods(c))) = Range(c) \cap Goods(c)
  BY OnlyFacts
<1>3. Range(c) \cap Goods(c) = {b \in Range(c) : b.k = "use" /\ b.good}
  BY DEF Goods, UsesIn
<1> QED
  BY <1>1, <1>2, <1>3 DEF Content

LEMMA CallsParts ==
    ASSUME NEW h, Contents(h), NEW i \in Nat, NEW j \in i..Len(h),
           NEW ss, ss = [n \in 1..(j - i) |-> GoodUses(h[i + n].c)]
    PROVE  /\ j - i \in Nat /\ Parts(ss, j - i, BlocksOf(h))
           /\ \A n \in 1..(j - i) : i + n \in 1..Len(h) /\ ss[n] = GoodUses(h[i + n].c)
<1>1. j - i \in Nat /\ \A n \in 1..(j - i) : i + n \in 1..Len(h)
  BY DEF Contents
<1>2. \A n \in 1..(j - i) : ss[n] = GoodUses(h[i + n].c)
  OBVIOUS
<1>3. ASSUME NEW n \in 1..(j - i)
      PROVE  ss[n] \in Seq(BlocksOf(h))
  <2> DEFINE c == h[i + n].c
             g == GoodUses(c)
             T == BlocksOf(h)
  <2>1. Content(c)
    BY <1>1 DEF Contents
  <2>2. Range(c) \subseteq T
    BY <1>1 DEF BlocksOf
  <2> HIDE DEF c, T
  <2>3. g \in Seq(Range(g)) /\ Range(g) = {b \in Range(c) : b.k = "use" /\ b.good}
    BY <2>1, GoodUsesFacts
  <2>4. Range(g) \subseteq T
    BY <2>2, <2>3
  <2> HIDE DEF g
  <2>5. g \in Seq(T)
    BY <2>3, <2>4, SeqWider
  <2> QED
    BY <1>2, <2>5 DEF c, g, T
<1>4. ss = [n \in 1..(j - i) |-> ss[n]]
  BY <1>2
<1> QED
  BY <1>1, <1>2, <1>3, <1>4 DEF Parts

LEMMA CallsToFacts ==
    ASSUME NEW h, Contents(h), NEW i \in Nat, NEW j \in i..Len(h)
    PROVE  /\ CallsTo(h, i, j) \in Seq(BlocksOf(h))
           /\ \A b : b \in Range(CallsTo(h, i, j)) <=>
                        \E k \in i+1..j : b \in Range(h[k].c) /\ b.k = "use" /\ b.good
<1> DEFINE ss == [n \in 1..(j - i) |-> GoodUses(h[i + n].c)]
           m == j - i
           T == BlocksOf(h)
<1>1. /\ m \in Nat /\ Parts(ss, m, T)
      /\ \A n \in 1..m : i + n \in 1..Len(h) /\ ss[n] = GoodUses(h[i + n].c)
  <2> HIDE DEF ss
  <2> QED
    BY CallsParts DEF ss
<1>2. CallsTo(h, i, j) = Joined(ss)
  BY DEF CallsTo
<1> HIDE DEF ss, T, m
<1>3. /\ Joined(ss) \in Seq(T)
      /\ \A b : b \in Range(Joined(ss)) <=> \E n \in 1..m : b \in Range(ss[n])
  BY <1>1, JoinedRange
<1>4. ASSUME NEW n \in 1..m
      PROVE  Range(ss[n]) = {b \in Range(h[i + n].c) : b.k = "use" /\ b.good}
  <2> DEFINE c == h[i + n].c
  <2>1. Content(c) /\ ss[n] = GoodUses(c)
    BY <1>1 DEF Contents
  <2> HIDE DEF c
  <2>2. Range(ss[n]) = {b \in Range(c) : b.k = "use" /\ b.good}
    BY <2>1, GoodUsesFacts
  <2> QED
    BY <2>2 DEF c
<1>5. ASSUME NEW b, b \in Range(Joined(ss))
      PROVE  \E k \in i+1..j : b \in Range(h[k].c) /\ b.k = "use" /\ b.good
  <2>1. PICK n \in 1..m : b \in Range(ss[n])
    BY <1>3, <1>5
  <2>2. i + n \in i+1..j
    BY DEF m
  <2> QED
    BY <1>4, <2>1, <2>2
<1>6. ASSUME NEW b, NEW k \in i+1..j, b \in Range(h[k].c), b.k = "use", b.good
      PROVE  b \in Range(Joined(ss))
  <2>1. k - i \in 1..m /\ i + (k - i) = k
    BY DEF m
  <2>2. b \in Range(ss[k - i])
    BY <1>4, <1>6, <2>1
  <2> QED
    BY <1>3, <2>1, <2>2
<1> QED
  BY <1>2, <1>3, <1>5, <1>6 DEF T

\* One message more.
LEMMA CallsToMore ==
    ASSUME NEW h, Contents(h), NEW i \in Nat, NEW j \in i..Len(h), j < Len(h)
    PROVE  CallsTo(h, i, j + 1) = CallsTo(h, i, j) \o GoodUses(h[j + 1].c)
<1> DEFINE ss == [n \in 1..(j - i) |-> GoodUses(h[i + n].c)]
           tt == [n \in 1..((j + 1) - i) |-> GoodUses(h[i + n].c)]
           m == j - i
           k == j + 1
           T == BlocksOf(h)
<1>1. /\ m \in Nat /\ Parts(ss, m, T)
      /\ \A n \in 1..m : i + n \in 1..Len(h) /\ ss[n] = GoodUses(h[i + n].c)
  <2> HIDE DEF ss
  <2> QED
    BY CallsParts DEF ss
<1>2. /\ Parts(tt, k - i, T)
      /\ \A n \in 1..(k - i) : tt[n] = GoodUses(h[i + n].c)
  <2>1. k \in i..Len(h)
    BY DEF Contents
  <2> HIDE DEF tt, k
  <2>2. tt = [n \in 1..(k - i) |-> GoodUses(h[i + n].c)]
    BY DEF tt, k
  <2> QED
    BY <2>1, <2>2, CallsParts
<1>3. k - i = m + 1 /\ i + (m + 1) = j + 1
  BY DEF Contents
<1>4. CallsTo(h, i, j) = Joined(ss) /\ CallsTo(h, i, j + 1) = Joined(tt)
  BY DEF CallsTo
<1> HIDE DEF ss, tt, m, k, T
<1> DEFINE l == m + 1
<1>5. Parts(tt, l, T) /\ \A n \in 1..m : tt[n] = ss[n]
  BY <1>1, <1>2, <1>3
<1>6. Joined(tt) = Joined(ss) \o tt[l]
  <2>1. OneMore(ss, m, tt, l, T)
    BY <1>1, <1>5 DEF OneMore
  <2> HIDE DEF l
  <2> QED
    BY <2>1, JoinedMore
<1>7. tt[m + 1] = GoodUses(h[j + 1].c)
  <2>1. m + 1 \in 1..(k - i)
    BY <1>1, <1>3
  <2> QED
    BY <1>2, <1>3, <2>1
<1> QED
  BY <1>4, <1>6, <1>7

\* How far the plan of message i is after message j; it goes back for no message.
Reached(h, i, j) == CompletedBy(CallsTo(h, i, j), StepsAt(h, i))

LEMMA ReachedNext ==
    ASSUME NEW h, Contents(h), NEW i \in Nat, NEW j \in i..Len(h), j < Len(h)
    PROVE  /\ Reached(h, i, j) \in Nat /\ Reached(h, i, j + 1) \in Nat
           /\ Reached(h, i, j) <= Reached(h, i, j + 1)
           /\ (\E b \in Range(h[j + 1].c) : /\ b.k = "use" /\ b.good
                                            /\ Advances(b, StepsAt(h, i), Reached(h, i, j)))
                  => Reached(h, i, j) + 1 <= Reached(h, i, j + 1)
<1> DEFINE u == CallsTo(h, i, j)
           c == h[j + 1].c
           v == GoodUses(c)
           T == BlocksOf(h)
           steps == StepsAt(h, i)
<1>1. j + 1 \in 1..Len(h)
  BY DEF Contents
<1>2. Content(c) /\ Range(c) \subseteq T
  BY <1>1 DEF Contents, BlocksOf
<1>3. u \in Seq(T)
  BY CallsToFacts
<1>4. CallsTo(h, i, j + 1) = u \o v
  BY CallsToMore
<1>5. Reached(h, i, j) = CompletedBy(u, steps) /\ Reached(h, i, j + 1) = CompletedBy(u \o v, steps)
  BY <1>4 DEF Reached
<1> HIDE DEF u, c, T, steps
<1>6. v \in Seq(Range(v)) /\ Range(v) = {b \in Range(c) : b.k = "use" /\ b.good}
  BY <1>2, GoodUsesFacts
<1> HIDE DEF v
<1>7. v \in Seq(T)
  BY <1>2, <1>6, SeqWider
<1>8. /\ CompletedBy(u, steps) \in Nat /\ CompletedBy(u \o v, steps) \in Nat
      /\ CompletedBy(u, steps) <= CompletedBy(u \o v, steps)
      /\ (\E e \in Range(v) : Advances(e, steps, CompletedBy(u, steps)))
            => CompletedBy(u, steps) + 1 <= CompletedBy(u \o v, steps)
  BY <1>3, <1>7, CompletedMore
<1>9. ASSUME NEW b \in Range(c), b.k = "use", b.good, Advances(b, steps, CompletedBy(u, steps))
      PROVE  CompletedBy(u, steps) + 1 <= CompletedBy(u \o v, steps)
  <2>1. b \in Range(v)
    BY <1>6, <1>9
  <2> QED
    BY <1>8, <1>9, <2>1
<1> QED
  BY <1>5, <1>8, <1>9 DEF c, steps

LEMMA ReachedGrows ==
    ASSUME NEW h, Contents(h), NEW i \in Nat, NEW j \in i..Len(h), NEW k \in j..Len(h)
    PROVE  Reached(h, i, j) \in Nat /\ Reached(h, i, k) \in Nat /\ Reached(h, i, j) <= Reached(h, i, k)
<1> DEFINE n == Len(h) - j
           P == {d \in 0..n : Reached(h, i, j + d) \in Nat /\ Reached(h, i, j) <= Reached(h, i, j + d)}
<1>1. n \in Nat
  BY DEF Contents
<1>2. Reached(h, i, j) \in Nat
  <2> DEFINE u == CallsTo(h, i, j)
  <2>1. u \in Seq(BlocksOf(h))
    BY CallsToFacts
  <2> HIDE DEF u
  <2>2. Len(u) \in Nat
    BY <2>1, SeqFacts
  <2> DEFINE steps == StepsAt(h, i)
  <2> HIDE DEF steps
  <2>3. PICK d \in [0..Len(u) -> Nat] : CompletedBy(u, steps) = d[Len(u)]
    BY <2>2, CompletedSteps
  <2>4. CompletedBy(u, steps) \in Nat
    BY <2>2, <2>3
  <2> QED
    BY <2>4 DEF Reached, u, steps
<1>3. 0 \in P
  BY <1>1, <1>2
<1>4. ASSUME NEW d \in 0..n, d \in P, d < n
      PROVE  d + 1 \in P
  <2> DEFINE m == j + d
  <2>1. m \in i..Len(h) /\ m < Len(h) /\ m + 1 = j + (d + 1) /\ d + 1 \in 0..n
    BY <1>4 DEF Contents
  <2>2. Reached(h, i, m) \in Nat /\ Reached(h, i, j) <= Reached(h, i, m)
    BY <1>4
  <2> HIDE DEF m, n
  <2>3. Reached(h, i, m) <= Reached(h, i, m + 1) /\ Reached(h, i, m + 1) \in Nat
    BY <2>1, ReachedNext
  <2>4. Reached(h, i, j) <= Reached(h, i, m + 1)
    BY <1>2, <2>2, <2>3
  <2> QED
    BY <2>1, <2>3, <2>4
<1>5. \A d \in 0..n : d \in P
  <2> HIDE DEF P, n
  <2> QED
    BY <1>1, <1>3, <1>4, Induction
<1>6. k - j \in 0..n /\ j + (k - j) = k
  BY DEF Contents
<1>7. k - j \in P
  BY <1>5, <1>6
<1> HIDE DEF n
<1> QED
  BY <1>2, <1>6, <1>7

-----------------------------------------------------------------------------
(* What a request still says of the plans of its conversation. *)

LEMMA FormedContents ==
    ASSUME NEW ms, Formed(ms)
    PROVE  Contents(ms)
BY FormedFacts DEF Contents

LEMMA PlansInTexts ==
    ASSUME NEW m
    PROVE  PlansIn(m) = {t \in Texts(m.c) : Plan[t] # << >>} /\ TextsOf(m) = Texts(m.c)
BY DEF PlansIn, Texts, TextsOf

\* A user's message that plans is one of a user's messages with text.
LEMMA TurnsOf ==
    ASSUME NEW ms, Formed(ms)
    PROVE  /\ TextTurns(ms) = {i \in 1..Len(ms) : i % 2 = 1 /\ TextsOf(ms[i]) # {}}
           /\ PlanTurns(ms) = {i \in 1..Len(ms) : i % 2 = 1 /\ PlansIn(ms[i]) # {}}
<1>1. DOMAIN ms = 1..Len(ms) /\ Len(ms) \in Nat
  BY FormedFacts
<1>2. ASSUME NEW i \in 1..Len(ms)
      PROVE  ms[i].role = "user" <=> i % 2 = 1
  <2>1. ms[i].role = RoleAt(i)
    BY Roles
  <2> QED
    BY <2>1 DEF RoleAt
<1>3. TextTurns(ms) = {i \in 1..Len(ms) : i % 2 = 1 /\ TextsOf(ms[i]) # {}}
  BY <1>1, <1>2 DEF TextTurns
<1>4. \A i \in 1..Len(ms) : PlansIn(ms[i]) # {} => TextsOf(ms[i]) # {}
  BY DEF PlansIn
<1>5. PlanTurns(ms) = {i \in 1..Len(ms) : i % 2 = 1 /\ PlansIn(ms[i]) # {}}
  BY <1>3, <1>4 DEF PlanTurns
<1> QED
  BY <1>3, <1>5

\* What the request still says of a message of the conversation.
Mirrors(n, m, i) ==
    /\ Blocks(n.c, "use") = GoodUses(m.c)
    /\ i % 2 = 1 => /\ Texts(m.c) \subseteq Texts(n.c)
                    /\ Texts(n.c) \subseteq Texts(m.c) \cup {"omitted", "dropped"}

LEMMA RequestMirrors ==
    ASSUME IInv, attempt > 0, ~(Len(request) < Len(history))
    PROVE  /\ Formed(history) /\ Formed(request) /\ Len(request) = Len(history)
           /\ \A i \in 1..Len(history) : Mirrors(request[i], history[i], i)
<1> DEFINE p == route[1]
           ids == MalformedIds(history)
<1>1. /\ request = Compressed(Asked, p)
      /\ Formed(Asked) /\ Len(Asked) % 2 = 1 /\ Len(Asked) = Len(history)
      /\ Formed(request)
  BY RequestFacts
<1>2. Formed(history)
  BY DEF IInv, Shape
<1>3. Asked = [i \in 1..Len(history) |-> ScrubbedMessage(history[i], p, ids)]
  BY <1>2, ScrubbedIs DEF Asked
<1> HIDE DEF p, ids
<1>4. Len(request) = Len(Asked) /\ \A i \in 1..Len(Asked) : SameTurn(request[i], Asked[i], i)
  BY <1>1, CompressedSame
<1>5. ASSUME NEW i \in 1..Len(history)
      PROVE  Mirrors(request[i], history[i], i)
  <2> DEFINE m == history[i]
             c == m.c
             d == ScrubbedContent(c, p, ids)
  <2>1. MessageAt(m, i) /\ Content(c)
    BY <1>2, FormedFacts
  <2>2. Asked[i].c = d
    <3>1. Asked[i] = Message(m.role, d)
      BY <1>3 DEF ScrubbedMessage
    <3> QED
      BY <3>1, MessageFacts
  <2>3. SameTurn(request[i], Asked[i], i)
    BY <1>1, <1>4
  <2>4. CASE i % 2 = 0
    <3>1. request[i].c = d
      BY <2>2, <2>3, <2>4 DEF SameTurn
    <3> HIDE DEF c
    <3>2. Blocks(d, "use") = GoodUses(c)
      BY <2>1, ScrubbedCalls
    <3> HIDE DEF d
    <3>3. Blocks(request[i].c, "use") = GoodUses(m.c)
      BY <3>1, <3>2 DEF c
    <3> QED
      BY <2>4, <3>3 DEF Mirrors
  <2>5. CASE i % 2 = 1
    <3>1. UsesIn(c) = {} /\ UsesIn(request[i].c) = {} /\ Content(request[i].c)
      <4>1. i \in 1..Len(request)
        BY <1>1, <1>4
      <4>2. UsesIn(request[i].c) = {} /\ Content(request[i].c)
        BY <1>1, <2>5, <4>1, NoUses, FormedFacts
      <4>3. UsesIn(history[i].c) = {}
        BY <1>2, <2>5, NoUses
      <4> QED
        BY <4>2, <4>3
    <3>2. \A b \in Range(c) : b.k \in Asking
      BY <2>1, <2>5 DEF MessageAt
    <3> HIDE DEF c
    <3>3. /\ Texts(c) \subseteq Texts(d)
          /\ Texts(d) \subseteq Texts(c) \cup {"omitted", "dropped"}
      BY <2>1, <3>2, ScrubbedTexts
    <3>4. Texts(request[i].c) = Texts(d)
      BY <2>2, <2>3 DEF SameTurn
    <3> HIDE DEF d
    <3>5. Blocks(request[i].c, "use") = << >> /\ GoodUses(c) = << >>
      BY <2>1, <3>1, NoCalls
    <3> QED
      BY <3>3, <3>4, <3>5 DEF Mirrors, c
  <2>6. i % 2 = 0 \/ i % 2 = 1
    OBVIOUS
  <2> QED
    BY <2>4, <2>5, <2>6
<1> QED
  BY <1>1, <1>2, <1>4, <1>5

\* So the request has the plans of the conversation, and what was called since.
LEMMA RequestPlans ==
    ASSUME IInv, attempt > 0, ~(Len(request) < Len(history))
    PROVE  /\ PlanTurns(request) = PlanTurns(history)
           /\ \A i \in PlanTurns(history) : StepsAt(request, i) = StepsAt(history, i)
           /\ \A i \in 1..Len(history) : UsesAfter(request, i) = CallsTo(history, i, Len(history))
<1>1. /\ Formed(history) /\ Formed(request) /\ Len(request) = Len(history)
      /\ \A i \in 1..Len(history) : Mirrors(request[i], history[i], i)
  BY RequestMirrors
<1>2. Len(history) \in Nat
  BY <1>1, FormedFacts
<1>3. ASSUME NEW i \in 1..Len(history), i % 2 = 1
      PROVE  PlansIn(request[i]) = PlansIn(history[i])
  <2>1. /\ Texts(history[i].c) \subseteq Texts(request[i].c)
        /\ Texts(request[i].c) \subseteq Texts(history[i].c) \cup {"omitted", "dropped"}
    BY <1>1, <1>3 DEF Mirrors
  <2>2. Plan["omitted"] = << >> /\ Plan["dropped"] = << >>
    BY PlanAssumption
  <2> QED
    BY <2>1, <2>2, PlansInTexts
<1>4. PlanTurns(request) = PlanTurns(history)
  BY <1>1, <1>3, TurnsOf
<1>5. ASSUME NEW i \in PlanTurns(history)
      PROVE  StepsAt(request, i) = StepsAt(history, i)
  <2>1. i \in 1..Len(history) /\ i % 2 = 1
    BY <1>1, <1>5, TurnsOf
  <2>2. PlansIn(request[i]) = PlansIn(history[i])
    BY <1>3, <2>1
  <2> QED
    BY <2>2 DEF StepsAt
<1>6. ASSUME NEW i \in 1..Len(history)
      PROVE  UsesAfter(request, i) = CallsTo(history, i, Len(history))
  <2> DEFINE m == Len(history) - i
  <2>1. \A n \in 1..m : i + n \in 1..Len(history)
    BY <1>2
  <2>2. \A n \in 1..m : Blocks(request[i + n].c, "use") = GoodUses(history[i + n].c)
    BY <1>1, <2>1 DEF Mirrors
  <2> HIDE DEF m
  <2>3. [n \in 1..m |-> Blocks(request[i + n].c, "use")] = [n \in 1..m |-> GoodUses(history[i + n].c)]
    BY <2>2
  <2> QED
    BY <1>1, <2>3 DEF UsesAfter, CallsTo, m
<1> QED
  BY <1>4, <1>5, <1>6

IsAgent(b) == b.k = "use" /\ b.good /\ b.tool = "Agent"

\* An agent is asked for by the latest text of the user, and was not called since.
LEMMA RequestAgent ==
    ASSUME IInv, attempt > 0, ~(Len(request) < Len(history)), AgentState(request) = "call"
    PROVE  /\ TextTurns(history) # {}
           /\ \A j \in Max(TextTurns(history))+1..Len(history) :
                 \A b \in Range(history[j].c) : ~IsAgent(b)
<1> DEFINE rs == TextTurns(request)
           hs == TextTurns(history)
           i == Max(rs)
           n == Len(history)
<1>1. /\ Formed(history) /\ Formed(request) /\ Len(request) = Len(history)
      /\ \A k \in 1..n : Mirrors(request[k], history[k], k)
  BY RequestMirrors
<1>2. n \in Nat /\ Contents(history)
  BY <1>1, FormedFacts, FormedContents
<1>3. /\ rs # {} /\ "agent" \in TextsOf(request[i])
      /\ \A k \in DOMAIN UsesAfter(request, i) : UsesAfter(request, i)[k].tool # "Agent"
  BY DEF AgentState
<1>4. /\ rs = {k \in 1..n : k % 2 = 1 /\ TextsOf(request[k]) # {}}
      /\ hs = {k \in 1..n : k % 2 = 1 /\ TextsOf(history[k]) # {}}
  BY <1>1, TurnsOf
<1> HIDE DEF rs, hs, n, i
<1>5. i \in rs /\ \A k \in rs : k <= i
  <2>1. rs \subseteq 1..n
    BY <1>4
  <2> QED
    BY <1>2, <1>3, <2>1, MaxIs DEF i
<1>6. i \in 1..n /\ i % 2 = 1
  BY <1>4, <1>5
<1>7. \A k \in 1..n : k % 2 = 1 => TextsOf(history[k]) \subseteq TextsOf(request[k])
  BY <1>1, PlansInTexts DEF Mirrors
<1>8. "agent" \in TextsOf(history[i])
  <2>1. TextsOf(request[i]) \subseteq TextsOf(history[i]) \cup {"omitted", "dropped"}
    BY <1>1, <1>6, PlansInTexts DEF Mirrors
  <2> QED
    BY <1>3, <2>1
<1>9. i \in hs /\ hs \subseteq rs
  BY <1>4, <1>6, <1>7, <1>8
<1>10. Max(hs) = i
  <2>1. hs \subseteq 1..n /\ hs # {}
    BY <1>4, <1>9
  <2> DEFINE x == Max(hs)
  <2>2. x \in hs /\ \A k \in hs : k <= x
    BY <1>2, <2>1, MaxIs
  <2> HIDE DEF x
  <2>3. x \in 1..n /\ x <= i /\ i <= x
    BY <1>5, <1>9, <2>1, <2>2
  <2> QED
    BY <1>6, <2>3 DEF x
<1>11. ASSUME NEW j \in i+1..n, NEW b \in Range(history[j].c), IsAgent(b)
       PROVE  FALSE
  <2> DEFINE u == CallsTo(history, i, n)
  <2>1. UsesAfter(request, i) = u
    BY <1>6, RequestPlans DEF n
  <2>2. /\ u \in Seq(BlocksOf(history))
        /\ \A e : e \in Range(u) <=> \E k \in i+1..n : e \in Range(history[k].c) /\ e.k = "use" /\ e.good
    <3>1. i \in Nat /\ n \in i..Len(history)
      BY <1>2, <1>6 DEF n
    <3> QED
      BY <1>2, <3>1, CallsToFacts
  <2> HIDE DEF u
  <2>3. b \in Range(u)
    BY <1>11, <2>2 DEF IsAgent
  <2>4. DOMAIN u = 1..Len(u) /\ Range(u) = {u[k] : k \in 1..Len(u)}
    BY <2>2, SeqFacts, SMTT(30)
  <2>5. PICK k \in DOMAIN u : u[k] = b
    BY <2>3, <2>4
  <2> QED
    BY <1>3, <1>11, <2>1, <2>5 DEF IsAgent
<1> QED
  BY <1>9, <1>10, <1>11 DEF hs, n

-----------------------------------------------------------------------------
(* The calls the gateway puts into a reply. *)

\* The calls the gateway puts into a reply.
Inserted(u, req) ==
    \/ u = PlannedCall(req) /\ req.next.tool \in {"Bash", "Read"}
    \/ u = Use("Bash", 0, TRUE)
    \/ u = Use("Agent", 0, TRUE) /\ req.agent = "call"

\* All other calls of a reply are the model's own.
OwnOrInserted(c, own, req) ==
    \A b \in Range(c) : b.k = "use" => b \in own \/ Inserted(b, req)

LEMMA InsertedAlone ==
    ASSUME NEW own, NEW req
    PROVE  /\ req.next.tool \in {"Bash", "Read"} => OwnOrInserted(<<PlannedCall(req)>>, own, req)
           /\ OwnOrInserted(<<Use("Bash", 0, TRUE)>>, own, req)
           /\ req.agent = "call" => OwnOrInserted(<<Use("Agent", 0, TRUE)>>, own, req)
           /\ OwnOrInserted(<<Text("final")>>, own, req)
           /\ OwnOrInserted(<< >>, own, req)
<1> USE DEF OwnOrInserted
<1>1. \A b : OkBlock(b) => Range(<<b>>) = {b}
  BY OneBlock
<1>2. OkBlock(PlannedCall(req))
  BY MadeBodies
<1>3. req.next.tool \in {"Bash", "Read"} => OwnOrInserted(<<PlannedCall(req)>>, own, req)
  BY <1>1, <1>2 DEF Inserted
<1>4. OwnOrInserted(<<Use("Bash", 0, TRUE)>>, own, req)
  <2> DEFINE u == Use("Bash", 0, TRUE)
  <2>1. OkBlock(u) /\ Inserted(u, req)
    BY UseIsOk DEF Inserted
  <2> HIDE DEF u
  <2>2. Range(<<u>>) = {u}
    BY <2>1, OneBlock
  <2>3. \A b \in Range(<<u>>) : b = u
    BY <2>2
  <2> QED
    BY <2>1, <2>3 DEF u
<1>5. req.agent = "call" => OwnOrInserted(<<Use("Agent", 0, TRUE)>>, own, req)
  <2> DEFINE u == Use("Agent", 0, TRUE)
  <2>1. OkBlock(u) /\ (req.agent = "call" => Inserted(u, req))
    BY UseIsOk DEF Inserted
  <2> HIDE DEF u
  <2>2. Range(<<u>>) = {u}
    BY <2>1, OneBlock
  <2>3. \A b \in Range(<<u>>) : b = u
    BY <2>2
  <2> QED
    BY <2>1, <2>3 DEF u
<1>6. OwnOrInserted(<<Text("final")>>, own, req)
  BY <1>1, TextIsBody
<1>7. OwnOrInserted(<< >>, own, req)
  BY NoBlock
<1> QED
  BY <1>3, <1>4, <1>5, <1>6, <1>7

\* The passes over a reply that came whole put in no other calls.
LEMMA RepairedInserts ==
    ASSUME NEW c, Body(c), NEW req
    PROVE  OwnOrInserted(RepairedReply(c, req), Range(NativeCalls(c, req)), req)
<1> DEFINE native == NativeCalls(c, req)
           own == Range(native)
           read == PlannedRead(native, req)
           agent == PlannedAgent(read, req)
           final == PlannedFinal(agent, req)
           texts == TextCommand(final, req)
           new == RewrittenCall(texts, req)
           shown == WithoutThinkTags(new)
           whole == WithoutMalformed(shown)
           Has(d) == OwnOrInserted(d, own, req)
<1>0. /\ Has(<<Use("Bash", 0, TRUE)>>) /\ Has(<<Text("final")>>)
      /\ req.next.tool \in {"Bash", "Read"} => Has(<<PlannedCall(req)>>)
      /\ req.agent = "call" => Has(<<Use("Agent", 0, TRUE)>>)
  <2> HIDE DEF own
  <2> QED
    BY InsertedAlone
<1>1. Has(native)
  BY DEF OwnOrInserted
<1> HIDE DEF native, own, Has
<1>2. Has(read)
  BY <1>0, <1>1 DEF PlannedRead, IsPlanned
<1> HIDE DEF read
<1>3. Has(agent)
  BY <1>0, <1>2 DEF PlannedAgent
<1> HIDE DEF agent
<1>4. Has(final)
  BY <1>0, <1>3 DEF PlannedFinal
<1> HIDE DEF final
<1>5. Has(texts)
  BY <1>0, <1>4 DEF TextCommand, IsPlanned
<1> HIDE DEF texts
<1>6. Has(new)
  <2> DEFINE g == [i \in DOMAIN texts |->
                      IF texts[i].k = "use" /\ ~AsPlanned(texts[i], req)
                      THEN PlannedCall(req) ELSE texts[i]]
  <2>1. new = texts \/ (req.next.tool \in {"Bash", "Read"} /\ new = g)
    BY DEF RewrittenCall, Replaceable, IsPlanned
  <2>2. \A b \in Range(g) : b \in Range(texts) \/ b = PlannedCall(req)
    BY DEF Range
  <2> HIDE DEF g, new
  <2>3. CASE new = texts
    BY <1>5, <2>3
  <2>4. CASE req.next.tool \in {"Bash", "Read"} /\ new = g
    <3>1. \A b \in Range(g) : b.k = "use" => b \in own \/ Inserted(b, req)
      BY <1>5, <2>2, <2>4 DEF Has, OwnOrInserted, Inserted
    <3> QED
      BY <2>4, <3>1 DEF Has, OwnOrInserted
  <2> QED
    BY <2>1, <2>3, <2>4
<1>7. Body(new)
  <2>1. new = Rewritten(c, req)
    BY DEF Rewritten, new, texts, final, agent, read, native
  <2> HIDE DEF new
  <2> QED
    BY <2>1, RewrittenBody
<1> HIDE DEF new
<1>8. Has(shown)
  <2> DEFINE Tagged(b) == b.k = "text" /\ b.t = "tagged"
             Plain(b) == [b EXCEPT !.t = "prose"]
             g == [i \in DOMAIN new |-> IF Tagged(new[i]) THEN Plain(new[i]) ELSE new[i]]
  <2>1. shown = g
    BY DEF WithoutThinkTags
  <2>2. \A b \in Range(new) : OkBlock(b)
    BY <1>7 DEF Body, Content
  <2>3. \A b \in Range(g) : b \in Range(new) \/ \E a \in Range(new) : a.k = "text" /\ b = Plain(a)
    BY DEF Range
  <2>4. ASSUME NEW b, OkBlock(b), b.k = "text"
        PROVE  Plain(b).k = "text"
    <3> DEFINE x == "text"
               u == "prose"
               d == [k |-> x, t |-> u, big |-> b.big]
    <3>1. b = [k |-> x, t |-> b.t, big |-> b.big]
      BY <2>4 DEF OkBlock
    <3>2. Plain(b) = [b EXCEPT !.t = u]
      OBVIOUS
    <3>3. d.k = "text"
      OBVIOUS
    <3> HIDE DEF x, u, Plain
    <3>4. Plain(b) = d
      BY <3>1, <3>2, TextRecord
    <3> QED
      BY <3>3, <3>4
  <2> HIDE DEF g, Plain, shown
  <2>5. \A b \in Range(g) : b.k = "use" => b \in Range(new)
    BY <2>2, <2>3, <2>4
  <2> QED
    BY <1>6, <2>1, <2>5 DEF Has, OwnOrInserted
<1> HIDE DEF shown
<1>9. Has(whole)
  <2> DEFINE g == [i \in DOMAIN shown |->
                      IF shown[i].k = "use" /\ ~shown[i].good THEN Note ELSE shown[i]]
  <2>1. whole = g
    BY DEF WithoutMalformed
  <2>2. \A b \in Range(g) : b \in Range(shown) \/ b = Note
    BY DEF Range
  <2> HIDE DEF g, whole
  <2>3. Note.k # "use"
    BY MadeBodies
  <2>4. \A b \in Range(whole) : b.k = "use" => b \in Range(shown)
    BY <2>1, <2>2, <2>3
  <2> QED
    BY <1>8, <2>4 DEF Has, OwnOrInserted
<1>10. RepairedReply(c, req) = whole
  BY DEF RepairedReply, whole, shown, new, texts, final, agent, read, native
<1> HIDE DEF whole
<1> QED
  BY <1>9, <1>10 DEF Has, own, native

LEMMA FirstOfInserts ==
    ASSUME NEW n \in Nat, NEW bodies, DOMAIN bodies = 1..n, NEW own, NEW req,
           \A i \in 1..n : OwnOrInserted(bodies[i], own, req)
    PROVE  OwnOrInserted(FirstOf(bodies), own, req)
<1> DEFINE some == {i \in DOMAIN bodies : bodies[i] # NoMessage}
<1>1. FirstOf(bodies) = IF some = {} THEN NoMessage ELSE bodies[Min(some)]
  BY DEF FirstOf
<1>2. some \subseteq Nat /\ some \subseteq 1..n
  OBVIOUS
<1> HIDE DEF some
<1>3. some # {} => Min(some) \in some
  <2> SUFFICES ASSUME some # {}
               PROVE  Min(some) \in some
    OBVIOUS
  <2>1. \E x \in some : \A y \in some : x <= y
    BY <1>2, Least
  <2> QED
    BY <2>1 DEF Min
<1>4. OwnOrInserted(NoMessage, own, req)
  BY InsertedAlone DEF NoMessage
<1> QED
  BY <1>1, <1>2, <1>3, <1>4

\* Nor do the readers of a stream.
LEMMA AnswersInsert ==
    ASSUME NEW items, NEW req, NEW own
    PROVE  /\ Range(WrittenCalls(items, req)) \subseteq own
                  => OwnOrInserted(LateAnswer(items, req), own, req)
           /\ Range(WrittenCalls(<< >>, req)) \subseteq own
                  => OwnOrInserted(EarlyAnswer(items, req), own, req)
<1> DEFINE Has(d) == OwnOrInserted(d, own, req)
<1>0. /\ Has(<<Use("Bash", 0, TRUE)>>) /\ Has(<<Text("final")>>) /\ Has(NoMessage)
      /\ req.next.tool \in {"Bash", "Read"} => Has(<<PlannedCall(req)>>)
      /\ req.agent = "call" => Has(<<Use("Agent", 0, TRUE)>>)
  BY InsertedAlone DEF NoMessage
<1> HIDE DEF Has
<1>1. Has(PlannedRewrite(items, req))
  BY <1>0 DEF PlannedRewrite, Replaceable, IsPlanned
<1>2. ASSUME NEW its, Range(WrittenCalls(its, req)) \subseteq own
      PROVE  Has(NativeOrPlanned(its, req))
  <2> DEFINE read == IF IsPlanned(req, "Read") THEN <<PlannedCall(req)>> ELSE NoMessage
             agent == IF "Agent" \in req.tools /\ req.agent = "call"
                      THEN <<Use("Agent", 0, TRUE)>> ELSE NoMessage
             written == WrittenCalls(its, req)
             all == <<written, read, agent>>
  <2>1. Has(read)
    BY <1>0 DEF IsPlanned
  <2>2. Has(agent)
    BY <1>0
  <2>3. Has(written)
    BY <1>2 DEF Has, OwnOrInserted
  <2>4. NativeOrPlanned(its, req) = NoMessage \/ NativeOrPlanned(its, req) = FirstOf(all)
    BY DEF NativeOrPlanned
  <2> HIDE DEF read, agent, written
  <2>5. DOMAIN all = 1..3 /\ all[1] = written /\ all[2] = read /\ all[3] = agent
    OBVIOUS
  <2> HIDE DEF all
  <2>6. \A i \in 1..3 : OwnOrInserted(all[i], own, req)
    BY <2>1, <2>2, <2>3, <2>5 DEF Has
  <2>7. Has(FirstOf(all))
    BY <2>5, <2>6, FirstOfInserts DEF Has
  <2> QED
    BY <1>0, <2>4, <2>7
<1>3. \A its : Has(Command(its, req)) /\ Has(FinalText(its, req))
  BY <1>0 DEF Command, FinalText, IsPlanned
<1>4. ASSUME Range(WrittenCalls(<< >>, req)) \subseteq own
      PROVE  Has(EarlyAnswer(items, req))
  <2> DEFINE a == PlannedRewrite(items, req)
             b == NativeOrPlanned(<< >>, req)
             c == Command(<< >>, req)
             all == <<a, b, c>>
  <2>1. EarlyAnswer(items, req) = FirstOf(all)
    BY DEF EarlyAnswer
  <2>2. Has(a) /\ Has(b) /\ Has(c)
    BY <1>1, <1>2, <1>3, <1>4
  <2> HIDE DEF a, b, c
  <2>3. DOMAIN all = 1..3 /\ all[1] = a /\ all[2] = b /\ all[3] = c
    OBVIOUS
  <2> HIDE DEF all
  <2>4. \A i \in 1..3 : OwnOrInserted(all[i], own, req)
    BY <2>2, <2>3 DEF Has
  <2> QED
    BY <2>1, <2>3, <2>4, FirstOfInserts DEF Has
<1>5. ASSUME Range(WrittenCalls(items, req)) \subseteq own
      PROVE  Has(LateAnswer(items, req))
  <2> DEFINE a == PlannedRewrite(items, req)
             b == NativeOrPlanned(items, req)
             c == Command(items, req)
             d == FinalText(items, req)
             all == <<a, b, c, d>>
  <2>1. LateAnswer(items, req) = FirstOf(all)
    BY DEF LateAnswer
  <2>2. Has(a) /\ Has(b) /\ Has(c) /\ Has(d)
    BY <1>1, <1>2, <1>3, <1>5
  <2> HIDE DEF a, b, c, d
  <2>3. DOMAIN all = 1..4 /\ all[1] = a /\ all[2] = b /\ all[3] = c /\ all[4] = d
    OBVIOUS
  <2> HIDE DEF all
  <2>4. \A i \in 1..4 : OwnOrInserted(all[i], own, req)
    BY <2>2, <2>3 DEF Has
  <2> QED
    BY <2>1, <2>3, <2>4, FirstOfInserts DEF Has
<1> QED
  BY <1>4, <1>5 DEF Has

LEMMA NothingWritten ==
    ASSUME NEW req
    PROVE  WrittenCalls(<< >>, req) = << >>
<1> DEFINE e == << >>
           whole == Picked(e, {j \in DOMAIN e : e[j].part = "whole"})
           fs == Readable(e)
<1>1. whole = << >>
  BY PickedNone
<1>2. fs = [j \in DOMAIN whole |-> whole[j].f]
  BY DEF Readable
<1> HIDE DEF whole
<1>3. fs = << >>
  BY <1>1, <1>2
<1> HIDE DEF fs
<1>4. ASSUME NEW kind
      PROVE  TextSeen(e, kind) = << >>
  <2> DEFINE js == {j \in DOMAIN fs : fs[j].ev = "delta" /\ fs[j].b.k = kind}
             deltas == Picked(fs, js)
  <2>1. TextSeen(e, kind) = [j \in DOMAIN deltas |-> deltas[j].b.t]
    BY DEF TextSeen, fs
  <2> HIDE DEF js
  <2>2. deltas = << >>
    BY <1>3, PickedNone
  <2> HIDE DEF deltas
  <2> QED
    BY <2>1, <2>2
<1> HIDE DEF e
<1>5. WrittenCalls(e, req) = << >>
  BY <1>4 DEF WrittenCalls
<1> QED
  BY <1>5 DEF e

LEMMA NothingInserts == OwnOrInserted(RepairedNothing, {}, Req)
<1> DEFINE e == << >>
           none == {}
           req == Req
<1>1. Range(WrittenCalls(<< >>, req)) \subseteq {}
  BY NothingWritten, NoBlock
<1>2. OwnOrInserted(EarlyAnswer(e, req), none, req)
  <2> HIDE DEF none, req
  <2> QED
    BY <1>1, AnswersInsert DEF none
<1> QED
  BY <1>2 DEF RepairedNothing

\* So the calls of a reply that are not the model's are inserted.
LEMMA RepliesInsert ==
    ASSUME NEW raw \in Replies
    PROVE  /\ OwnOrInserted(RepairedWhole(raw),
                            Range(NativeCalls(Written(raw, route[attempt]), Req)), Req)
           /\ OwnOrInserted(RepairedStream(raw),
                            Range(raw) \cup Range(WrittenCalls(Whole(raw), Req)), Req)
           /\ OwnOrInserted(RepairedNothing, {}, Req)
<1> DEFINE p == route[attempt]
           req == Req
           g == Written(raw, p)
<1>1. OwnOrInserted(RepairedWhole(raw), Range(NativeCalls(g, req)), req)
  <2>1. Body(g)
    BY WrittenBody
  <2> HIDE DEF g, req
  <2>2. OwnOrInserted(RepairedReply(g, req), Range(NativeCalls(g, req)), req)
    BY <2>1, RepairedInserts
  <2> QED
    BY <2>2 DEF RepairedWhole, g, req
<1>2. OwnOrInserted(RepairedStream(raw), Range(raw) \cup Range(WrittenCalls(Whole(raw), req)), req)
  <2> DEFINE a == LateAnswer(Whole(raw), req)
             b == AsIs(g, p)
             all == <<a, b>>
             own == Range(raw) \cup Range(WrittenCalls(Whole(raw), req))
  <2>1. RepairedStream(raw) = FirstOf(all)
    BY DEF RepairedStream
  <2>2. OwnOrInserted(a, own, req)
    <3> DEFINE items == Whole(raw)
    <3>1. Range(WrittenCalls(items, req)) \subseteq own
      OBVIOUS
    <3> HIDE DEF own, items, req
    <3>2. OwnOrInserted(LateAnswer(items, req), own, req)
      BY <3>1, AnswersInsert
    <3> QED
      BY <3>2 DEF items
  <2>3. \A x \in Range(b) : x.k = "use" => x \in Range(raw)
    <3>1. DOMAIN g = DOMAIN raw /\ DOMAIN b = DOMAIN raw
      BY DEF Written, AsIs
    <3>2. \A i \in DOMAIN raw : g[i].k = "use" => g[i] = raw[i]
      BY DEF Written
    <3>3. \A i \in DOMAIN raw : b[i] = g[i] \/ b[i] = BlockText(g[i].t)
      BY <3>1 DEF AsIs
    <3> HIDE DEF g, b
    <3>4. \A i \in DOMAIN raw : b[i].k = "use" => b[i] = raw[i]
      BY <3>2, <3>3, TextIsOk
    <3> QED
      BY <3>1, <3>4 DEF Range
  <2>4. OwnOrInserted(b, own, req)
    BY <2>3 DEF OwnOrInserted
  <2> HIDE DEF a, b, own, req
  <2>5. DOMAIN all = 1..2 /\ all[1] = a /\ all[2] = b
    OBVIOUS
  <2> HIDE DEF all
  <2>6. \A i \in 1..2 : OwnOrInserted(all[i], own, req)
    BY <2>2, <2>4, <2>5
  <2>7. OwnOrInserted(FirstOf(all), own, req)
    BY <2>5, <2>6, FirstOfInserts
  <2> QED
    BY <2>1, <2>7 DEF own
<1>3. OwnOrInserted(RepairedNothing, {}, Req)
  BY NothingInserts
<1> QED
  BY <1>1, <1>2, <1>3

-----------------------------------------------------------------------------
(* Where they are in the conversation. *)

\* A call that follows a plan was the next one, and moved it on.
InPlan(h, c) ==
    LET turns == {j \in PlanTurns(h) : j < c.at}
        k     == Reached(h, Max(turns), c.at - 1)
        steps == StepsAt(h, Max(turns))
    IN  /\ turns # {}
        /\ k \in Nat /\ k < Len(steps) /\ IsStep(c, steps[k + 1])
        /\ Reached(h, Max(turns), c.at) >= k + 1

\* A call of the agent was the first one after what asked for it.
FirstAgent(h, at) ==
    LET turns == {j \in TextTurns(h) : j < at}
    IN  /\ turns # {}
        /\ \A j \in Max(turns)+1..at-1 : \A b \in Range(h[j].c) : ~IsAgent(b)
        /\ \E b \in Range(h[at].c) : IsAgent(b)

MadeOk(h, c) ==
    /\ c = [at |-> c.at, tool |-> c.tool, step |-> c.step]
    /\ c.at \in 1..Len(h) /\ c.at % 2 = 0 /\ c.step \in Nat
    /\ c.step > 0 => InPlan(h, c)
    /\ c.tool = "Agent" => FirstAgent(h, c.at)

\* What users wrote is known to plan or not.
Known(h) ==
    \A i \in 1..Len(h) : i % 2 = 1 => \A t \in TextsOf(h[i]) : t \in DOMAIN Plan

MadeIs == Known(history) /\ \A c \in made : MadeOk(history, c)

\* What was true of a conversation stays true of its messages.
LEMMA TurnsGrown ==
    ASSUME NEW h, NEW g, Formed(h), Formed(g), Longer(g, h), NEW at \in 1..Len(h)+1
    PROVE  /\ {j \in PlanTurns(g) : j < at} = {j \in PlanTurns(h) : j < at}
           /\ {j \in TextTurns(g) : j < at} = {j \in TextTurns(h) : j < at}
           /\ \A i \in 1..Len(h) : StepsAt(g, i) = StepsAt(h, i)
<1>1. Len(h) \in Nat /\ Len(g) = Len(h) + 1 /\ \A i \in 1..Len(h) : g[i] = h[i]
  BY FormedFacts DEF Longer
<1>2. /\ TextTurns(h) = {i \in 1..Len(h) : i % 2 = 1 /\ TextsOf(h[i]) # {}}
      /\ TextTurns(g) = {i \in 1..Len(g) : i % 2 = 1 /\ TextsOf(g[i]) # {}}
      /\ PlanTurns(h) = {i \in 1..Len(h) : i % 2 = 1 /\ PlansIn(h[i]) # {}}
      /\ PlanTurns(g) = {i \in 1..Len(g) : i % 2 = 1 /\ PlansIn(g[i]) # {}}
  BY TurnsOf
<1>3. \A i \in 1..Len(g) : i < at => i \in 1..Len(h)
  BY <1>1
<1>4. \A i \in 1..Len(h) : i \in 1..Len(g)
  BY <1>1
<1>5. {j \in PlanTurns(g) : j < at} = {j \in PlanTurns(h) : j < at}
  BY <1>1, <1>2, <1>3, <1>4
<1>6. {j \in TextTurns(g) : j < at} = {j \in TextTurns(h) : j < at}
  BY <1>1, <1>2, <1>3, <1>4
<1>7. \A i \in 1..Len(h) : StepsAt(g, i) = StepsAt(h, i)
  BY <1>1 DEF StepsAt
<1> QED
  BY <1>5, <1>6, <1>7

LEMMA ReachedGrown ==
    ASSUME NEW h, NEW g, Formed(h), Formed(g), Longer(g, h),
           NEW i \in 1..Len(h), NEW j \in i..Len(h)
    PROVE  Reached(g, i, j) = Reached(h, i, j)
<1> DEFINE m == j - i
<1>1. Len(h) \in Nat /\ \A k \in 1..Len(h) : g[k] = h[k]
  BY FormedFacts DEF Longer
<1>2. \A n \in 1..m : i + n \in 1..Len(h)
  BY <1>1
<1> HIDE DEF m
<1>3. [n \in 1..m |-> GoodUses(g[i + n].c)] = [n \in 1..m |-> GoodUses(h[i + n].c)]
  BY <1>1, <1>2
<1>4. CallsTo(g, i, j) = CallsTo(h, i, j)
  BY <1>3 DEF CallsTo, m
<1>5. StepsAt(g, i) = StepsAt(h, i)
  BY <1>1 DEF StepsAt
<1> QED
  BY <1>4, <1>5 DEF Reached

LEMMA MadeStays ==
    ASSUME NEW h, NEW g, Formed(h), Formed(g), Longer(g, h), NEW c, MadeOk(h, c)
    PROVE  MadeOk(g, c)
<1> DEFINE at == c.at
           pt == {j \in PlanTurns(h) : j < at}
           tt == {j \in TextTurns(h) : j < at}
<1>1. /\ Len(h) \in Nat /\ Len(g) = Len(h) + 1 /\ \A i \in 1..Len(h) : g[i] = h[i]
      /\ at \in 1..Len(h) /\ at \in 1..Len(h)+1 /\ at \in 1..Len(g) /\ at % 2 = 0 /\ c.step \in Nat
  BY FormedFacts DEF Longer, MadeOk
<1>2. {j \in PlanTurns(g) : j < at} = pt /\ {j \in TextTurns(g) : j < at} = tt
  BY <1>1, TurnsGrown
<1>3. pt \subseteq 1..at /\ tt \subseteq 1..at
  <2>1. PlanTurns(h) \subseteq 1..Len(h) /\ TextTurns(h) \subseteq 1..Len(h)
    BY TurnsOf
  <2> QED
    BY <1>1, <2>1
<1>4. c.step > 0 => InPlan(g, c)
  <2> SUFFICES ASSUME c.step > 0
               PROVE  InPlan(g, c)
    OBVIOUS
  <2> DEFINE i == Max(pt)
             k == Reached(h, i, at - 1)
             steps == StepsAt(h, i)
  <2>1. /\ pt # {} /\ Reached(h, i, at) >= k + 1
        /\ k \in Nat /\ k < Len(steps) /\ IsStep(c, steps[k + 1])
    BY DEF MadeOk, InPlan
  <2>2. i \in pt
    <3>1. at \in Nat
      BY <1>1
    <3> HIDE DEF at, pt
    <3> QED
      BY <3>1, <1>3, <2>1, MaxIs
  <2>3. i \in 1..at /\ i < at
    BY <1>3, <2>2
  <2> HIDE DEF i, pt
  <2>4. i \in 1..Len(h) /\ at \in i..Len(h) /\ at - 1 \in i..Len(h)
    BY <1>1, <2>3
  <2> HIDE DEF at
  <2>5. Reached(g, i, at) = Reached(h, i, at)
    BY <2>4, ReachedGrown
  <2>6. Reached(g, i, at - 1) = Reached(h, i, at - 1)
    <3> DEFINE l == at - 1
    <3>1. l \in i..Len(h)
      BY <2>4
    <3> HIDE DEF l
    <3>2. Reached(g, i, l) = Reached(h, i, l)
      BY <2>4, <3>1, ReachedGrown
    <3> QED
      BY <3>2 DEF l
  <2>7. StepsAt(g, i) = steps
    <3>1. 1 \in 1..Len(h)+1
      BY <1>1
    <3> QED
      BY <2>4, <3>1, TurnsGrown
  <2> QED
    BY <1>2, <2>1, <2>5, <2>6, <2>7 DEF InPlan, i, at
<1>5. c.tool = "Agent" => FirstAgent(g, at)
  <2> SUFFICES ASSUME c.tool = "Agent"
               PROVE  FirstAgent(g, at)
    OBVIOUS
  <2> DEFINE i == Max(tt)
  <2>1. /\ tt # {}
        /\ \A j \in i+1..at-1 : \A b \in Range(h[j].c) : ~IsAgent(b)
        /\ \E b \in Range(h[at].c) : IsAgent(b)
    BY DEF MadeOk, FirstAgent
  <2>2. i \in tt
    <3>1. at \in Nat
      BY <1>1
    <3> HIDE DEF at, tt
    <3> QED
      BY <3>1, <1>3, <2>1, MaxIs
  <2>3. i \in 1..at
    BY <1>3, <2>2
  <2> HIDE DEF i, tt, at
  <2>4. \A j \in i+1..at-1 : g[j] = h[j]
    BY <1>1, <2>3
  <2>5. g[at] = h[at]
    BY <1>1
  <2> QED
    BY <1>2, <2>1, <2>4, <2>5 DEF FirstAgent, i
<1> QED
  BY <1>1, <1>4, <1>5 DEF MadeOk

\* The steps of a message that plans.
LEMMA StepsKnown ==
    ASSUME NEW h, Formed(h), Known(h), NEW i \in PlanTurns(h)
    PROVE  StepsAt(h, i) \in Seq([tool : STRING, step : Nat \ {0}])
<1>1. i \in 1..Len(h) /\ i % 2 = 1 /\ PlansIn(h[i]) # {}
  BY TurnsOf
<1> DEFINE t == CHOOSE x \in PlansIn(h[i]) : TRUE
<1>2. t \in PlansIn(h[i])
  BY <1>1
<1>3. StepsAt(h, i) = Plan[t]
  BY DEF StepsAt
<1> HIDE DEF t
<1>4. t \in DOMAIN Plan
  BY <1>1, <1>2 DEF PlansIn, Known
<1> QED
  BY <1>3, <1>4, PlanAssumption

LEMMA DeliveredCall ==
    ASSUME NEW c, NEW u \in Range(c), u.k = "use"
    PROVE  \E d \in Range(Delivered(c)) :
              d.k = "use" /\ d.tool = u.tool /\ d.step = u.step /\ d.good = u.good
<1>1. PICK i \in DOMAIN c : c[i] = u
  BY DEF Range
<1> DEFINE g == Delivered(c)
           d == [k |-> "use", tool |-> u.tool, step |-> u.step, good |-> u.good,
                 id |-> <<Len(history) + 1, i>>]
<1>2. DOMAIN g = DOMAIN c /\ g[i] = d
  BY <1>1 DEF Delivered
<1>3. d.k = "use" /\ d.tool = u.tool /\ d.step = u.step /\ d.good = u.good
  OBVIOUS
<1> HIDE DEF g, d
<1>4. d \in Range(g)
  BY <1>1, <1>2 DEF Range
<1> QED
  BY <1>3, <1>4 DEF g

\* A planned call the gateway puts in is the next one of the plan it knows.
LEMMA PlannedInPlan ==
    ASSUME IInv, Known(history), attempt > 0, ~(Len(request) < Len(history)),
           NEW new, Formed(new), Longer(new, history),
           NEW next, next = NextPlanned(request), next.tool \in {"Bash", "Read"},
           NEW d \in Range(new[Len(history) + 1].c), d.k = "use", d.good,
           d.tool = next.tool, d.step = next.step,
           NEW c, c.at = Len(history) + 1, IsStep(c, next)
    PROVE  c.step \in Nat /\ InPlan(new, c)
<1> DEFINE n == Len(history)
           hs == PlanTurns(history)
           i == Max(hs)
           k == Reached(history, i, n)
           steps == StepsAt(history, i)
           at == c.at
<1>1. Formed(history) /\ n \in Nat /\ Len(new) = n + 1 /\ Contents(history) /\ Contents(new)
  <2>1. Formed(history)
    BY DEF IInv, Shape
  <2> QED
    BY <2>1, FormedFacts, FormedContents DEF Longer
<1>2. /\ PlanTurns(request) = hs
      /\ \A j \in hs : StepsAt(request, j) = StepsAt(history, j)
      /\ \A j \in 1..n : UsesAfter(request, j) = CallsTo(history, j, n)
  BY RequestPlans
<1>3. hs \subseteq 1..n
  BY <1>1, TurnsOf
<1>4. hs # {} /\ Completed(request, i) < Len(StepsAt(request, i))
         /\ next = StepsAt(request, i)[Completed(request, i) + 1]
  <2>1. next # NoStep
    BY DEF NoStep
  <2> QED
    BY <1>2, <2>1 DEF NextPlanned
<1>5. i \in hs
  <2> HIDE DEF hs, n
  <2> QED
    BY <1>1, <1>3, <1>4, MaxIs
<1>6. {j \in PlanTurns(new) : j < at} = hs
  <2>1. at \in 1..Len(history)+1
    BY <1>1
  <2>2. {j \in PlanTurns(new) : j < at} = {j \in PlanTurns(history) : j < at}
    BY <1>1, <2>1, TurnsGrown
  <2> QED
    BY <1>1, <1>3, <2>2
<1>7. i \in 1..n /\ n \in i..n
  <2> HIDE DEF i, hs, n
  <2> QED
    BY <1>1, <1>3, <1>5
<1> HIDE DEF i, hs
<1>8. Completed(request, i) = k /\ StepsAt(request, i) = steps
  BY <1>2, <1>5, <1>7 DEF Completed, Reached
<1>9. StepsAt(new, i) = steps
  BY <1>1, <1>7, TurnsGrown
<1>10. Reached(new, i, n) = k
  <2> HIDE DEF k
  <2> QED
    BY <1>1, <1>7, ReachedGrown DEF k
<1> DEFINE k1 == Reached(new, i, n + 1)
<1>11. /\ k \in Nat /\ k1 \in Nat
       /\ Advances(d, steps, k) => k + 1 <= k1
  <2>1. i \in Nat /\ n \in i..Len(new) /\ n < Len(new)
    BY <1>1, <1>7
  <2> HIDE DEF n
  <2>2. /\ Reached(new, i, n) \in Nat /\ Reached(new, i, n + 1) \in Nat
        /\ (\E b \in Range(new[n + 1].c) : /\ b.k = "use" /\ b.good
                                           /\ Advances(b, StepsAt(new, i), Reached(new, i, n)))
              => Reached(new, i, n) + 1 <= Reached(new, i, n + 1)
    BY <1>1, <2>1, ReachedNext
  <2>3. d \in Range(new[n + 1].c)
    BY DEF n
  <2> QED
    BY <1>9, <1>10, <2>2, <2>3
<1> DEFINE S == [tool : STRING, step : Nat \ {0}]
<1>12. steps \in Seq(S)
  <2>1. i \in PlanTurns(history)
    BY <1>5 DEF hs
  <2> QED
    BY <1>1, <2>1, StepsKnown
<1> HIDE DEF k, k1, steps, n, at, S
<1>13. k < Len(steps) /\ next = steps[k + 1]
  BY <1>4, <1>8
<1>14. k + 1 \in 1..Len(steps) /\ next \in S
  <2>1. Len(steps) \in Nat /\ \A m \in 1..Len(steps) : steps[m] \in S
    BY <1>12
  <2>2. k + 1 \in 1..Len(steps)
    BY <1>11, <1>13, <2>1
  <2> QED
    BY <1>13, <2>1, <2>2
<1>15. c.step \in Nat
  BY <1>14 DEF S, IsStep
<1>16. Advances(d, steps, k)
  BY <1>13 DEF Advances, Calls
<1>17. k1 >= k + 1
  BY <1>11, <1>16
<1>18. at = n + 1 /\ at - 1 = n
  BY <1>1 DEF at, n
<1>19. Reached(new, i, at - 1) = k
  BY <1>10, <1>18
<1>20. Reached(new, i, at) = k1
  BY <1>18 DEF k1
<1> QED
  BY <1>4, <1>6, <1>9, <1>11, <1>13, <1>15, <1>17, <1>19, <1>20 DEF InPlan, i, at

\* and the agent is called only when it was not since it was asked for.
LEMMA AgentIsFirst ==
    ASSUME IInv, attempt > 0, ~(Len(request) < Len(history)), AgentState(request) = "call",
           NEW new, Formed(new), Longer(new, history),
           NEW d \in Range(new[Len(history) + 1].c), IsAgent(d)
    PROVE  FirstAgent(new, Len(history) + 1)
<1> DEFINE n == Len(history)
           hs == TextTurns(history)
           i == Max(hs)
           at == n + 1
<1>1. Formed(history) /\ n \in Nat /\ Len(new) = n + 1 /\ \A j \in 1..n : new[j] = history[j]
  <2>1. Formed(history)
    BY DEF IInv, Shape
  <2> QED
    BY <2>1, FormedFacts DEF Longer
<1>2. hs # {} /\ \A j \in i+1..n : \A b \in Range(history[j].c) : ~IsAgent(b)
  BY RequestAgent
<1>3. hs \subseteq 1..n
  BY <1>1, TurnsOf
<1>4. {j \in TextTurns(new) : j < at} = hs
  <2>1. at \in 1..Len(history)+1
    BY <1>1
  <2>2. {j \in TextTurns(new) : j < at} = {j \in TextTurns(history) : j < at}
    <3> HIDE DEF at
    <3> QED
      BY <1>1, <2>1, TurnsGrown
  <2> QED
    BY <1>1, <1>3, <2>2
<1>5. i \in hs
  <2> HIDE DEF hs, n
  <2> QED
    BY <1>1, <1>2, <1>3, MaxIs
<1> HIDE DEF i, hs, n
<1>6. \A j \in i+1..at-1 : j \in i+1..n /\ new[j] = history[j]
  BY <1>1, <1>3, <1>5
<1>7. \A j \in i+1..at-1 : \A b \in Range(new[j].c) : ~IsAgent(b)
  BY <1>2, <1>6
<1>8. \E b \in Range(new[at].c) : IsAgent(b)
  BY DEF n
<1>9. FirstAgent(new, at)
  <2> HIDE DEF at
  <2> QED
    BY <1>2, <1>4, <1>7, <1>8 DEF FirstAgent, i
<1> QED
  BY <1>9 DEF n

LEMMA NewCall ==
    ASSUME IInv, Known(history), attempt > 0, NEW own, NEW body, OwnOrInserted(body, own, Req),
           NEW new, new = Append(history, Message("assistant", Delivered(body))),
           Formed(new), Longer(new, history), Len(history) % 2 = 1,
           NEW c \in MadeIn(body, own)
    PROVE  MadeOk(new, c)
<1> DEFINE n == Len(history)
           m == Message("assistant", Delivered(body))
           next == NextPlanned(request)
<1>1. PICK u \in Range(body) : /\ u \notin own /\ u.k = "use"
                               /\ c = [at |-> n + 1, tool |-> u.tool, step |-> u.step]
  BY DEF MadeIn
<1>2. ~(Len(request) < n)
  BY DEF MadeIn
<1>3. c.at = n + 1 /\ c.tool = u.tool /\ c.step = u.step
  BY <1>1
<1>4. n \in Nat /\ Len(new) = n + 1 /\ n + 1 \in 1..Len(new) /\ (n + 1) % 2 = 0
  <2>1. Formed(history)
    BY DEF IInv, Shape
  <2>2. n \in Nat /\ Len(new) = n + 1 /\ n % 2 = 1
    BY <2>1, FormedFacts DEF Longer
  <2> HIDE DEF n
  <2> QED
    BY <2>2
<1>5. new[n + 1].c = Delivered(body)
  <2>1. m.c = Delivered(body)
    BY DEF Message
  <2> HIDE DEF m
  <2>2. new = Append(history, m)
    BY DEF m
  <2>3. new[n + 1] = m
    <3>1. history \in Seq(Range(history))
      BY DEF IInv, Shape, Formed
    <3> QED
      BY <2>2, <3>1, AppendRange
  <2> QED
    BY <2>1, <2>3
<1>6. PICK d \in Range(new[n + 1].c) :
              d.k = "use" /\ d.tool = u.tool /\ d.step = u.step /\ d.good = u.good
  BY <1>1, <1>5, DeliveredCall
<1>7. Inserted(u, Req)
  BY <1>1 DEF OwnOrInserted
<1>8. Req.next = next /\ Req.agent = AgentState(request)
  BY DEF Req
<1>9. CASE u = PlannedCall(Req) /\ Req.next.tool \in {"Bash", "Read"}
  <2>1. /\ u.tool = next.tool /\ u.step = next.step /\ u.good
        /\ next.tool \in {"Bash", "Read"}
    BY <1>8, <1>9 DEF PlannedCall, Use
  <2> HIDE DEF n, next
  <2>2. IsStep(c, next)
    BY <1>3, <2>1 DEF IsStep
  <2>4. c.step \in Nat /\ InPlan(new, c)
    BY <1>2, <1>3, <1>6, <2>1, <2>2, PlannedInPlan DEF n, next
  <2>3. c.tool # "Agent"
    BY <1>3, <2>1
  <2> QED
    BY <1>1, <1>3, <1>4, <2>3, <2>4 DEF MadeOk
<1>10. CASE u = Use("Bash", 0, TRUE)
  <2>1. c.tool = "Bash" /\ c.step = 0
    BY <1>3, <1>10 DEF Use
  <2> QED
    BY <1>1, <1>3, <1>4, <2>1 DEF MadeOk
<1>11. CASE u = Use("Agent", 0, TRUE) /\ Req.agent = "call"
  <2>1. c.step = 0 /\ IsAgent(d)
    BY <1>3, <1>6, <1>11 DEF Use, IsAgent
  <2>2. FirstAgent(new, n + 1)
    BY <1>2, <1>8, <1>11, <2>1, AgentIsFirst
  <2> QED
    BY <1>1, <1>3, <1>4, <2>1, <2>2 DEF MadeOk
<1> QED
  BY <1>7, <1>9, <1>10, <1>11 DEF Inserted

LEMMA OpeningKnown ==
    ASSUME NEW c \in Openings
    PROVE  \A t \in TextsOf(Message("user", c)) : t \in DOMAIN Plan
<1>1. \A b \in Range(c) : b.k = "text" => b.t \in DOMAIN Plan
  BY PlanAssumption
<1> QED
  BY <1>1 DEF TextsOf, Message

LEMMA InitMade == Init => MadeIs
<1> SUFFICES ASSUME Init
             PROVE  MadeIs
  OBVIOUS
<1>1. PICK c \in Openings : history = <<Message("user", c)>>
  BY DEF Init
<1>2. made = {}
  BY DEF Init
<1> DEFINE m == Message("user", c)
<1>3. \A t \in TextsOf(m) : t \in DOMAIN Plan
  BY OpeningKnown
<1> HIDE DEF m
<1>4. history = <<m>>
  BY <1>1 DEF m
<1>5. \A i \in 1..Len(history) : history[i] = m
  BY <1>4
<1> QED
  BY <1>2, <1>3, <1>5 DEF MadeIs, Known

\* A longer conversation keeps what was found of the calls that were put in.
LEMMA MadeLonger ==
    ASSUME IInv, IInv', MadeIs, NEW m, history' = Append(history, m),
           Len(history) % 2 = 0 => \A t \in TextsOf(m) : t \in DOMAIN Plan
    PROVE  /\ Formed(history') /\ Longer(history', history)
           /\ Known(history') /\ \A c \in made : MadeOk(history', c)
<1> DEFINE n == Len(history)
           new == history'
<1>1. Formed(history) /\ Formed(new)
  BY DEF IInv, Shape
<1>2. n \in Nat /\ history \in Seq(Range(history))
  BY <1>1, FormedFacts DEF Formed
<1>3. Len(new) = n + 1 /\ new[n + 1] = m /\ \A i \in 1..n : new[i] = history[i]
  BY <1>2
<1>4. Longer(new, history)
  BY <1>3 DEF Longer
<1> HIDE DEF new
<1>5. \A c \in made : MadeOk(new, c)
  BY <1>1, <1>4, MadeStays DEF MadeIs
<1>6. Known(new)
  <2> SUFFICES ASSUME NEW i \in 1..Len(new), i % 2 = 1, NEW t \in TextsOf(new[i])
               PROVE  t \in DOMAIN Plan
    BY DEF Known
  <2>1. CASE i = n + 1
    <3>1. n % 2 = 0
      <4> HIDE DEF n
      <4> QED
        BY <1>2, <2>1
    <3> QED
      BY <1>3, <2>1, <3>1
  <2>2. CASE i # n + 1
    <3>1. i \in 1..n
      BY <1>2, <1>3, <2>2
    <3> QED
      BY <1>3, <3>1 DEF MadeIs, Known
  <2> QED
    BY <2>1, <2>2
<1> QED
  BY <1>1, <1>4, <1>5, <1>6 DEF new

LEMMA ReceiveMade ==
    ASSUME IInv, IInv', MadeIs, attempt > 0, NEW own, NEW body, OwnOrInserted(body, own, Req),
           Receive(own, body)
    PROVE  MadeIs'
<1> DEFINE m == Message("assistant", Delivered(body))
<1>1. history' = Append(history, m) /\ made' = made \cup MadeIn(body, own)
  BY DEF Receive
<1>2. Len(history) % 2 = 1
  BY DEF IInv, Types, RequestIs
<1>3. ~(Len(history) % 2 = 0)
  BY <1>2
<1> HIDE DEF m
<1>4. /\ Formed(history') /\ Longer(history', history)
      /\ Known(history') /\ \A c \in made : MadeOk(history', c)
  BY <1>1, <1>3, MadeLonger
<1> DEFINE new == history'
<1>5. \A c \in MadeIn(body, own) : MadeOk(new, c)
  <2>1. new = Append(history, Message("assistant", Delivered(body)))
    BY <1>1 DEF m
  <2>2. Formed(new) /\ Longer(new, history)
    BY <1>4
  <2>3. Known(history)
    BY DEF MadeIs
  <2> HIDE DEF new
  <2> QED
    BY <1>2, <2>1, <2>2, <2>3, NewCall
<1>6. \A c \in made' : MadeOk(history', c)
  BY <1>1, <1>4, <1>5
<1> QED
  BY <1>4, <1>6 DEF MadeIs

LEMMA ReplyMade == IInv /\ IInv' /\ MadeIs /\ Reply => MadeIs'
<1> SUFFICES ASSUME IInv, IInv', MadeIs, Reply
             PROVE  MadeIs'
  OBVIOUS
<1>1. CASE ReplyEarly
  <2>1. attempt > 0 /\ Receive({}, RepairedNothing)
    BY <1>1 DEF ReplyEarly
  <2> DEFINE body == RepairedNothing
             own == {}
  <2>2. OwnOrInserted(body, own, Req)
    BY NothingInserts
  <2> HIDE DEF body, own
  <2> QED
    BY <2>1, <2>2, ReceiveMade DEF body, own
<1>2. ASSUME NEW raw \in Replies, ReplyWhole(raw)
      PROVE  MadeIs'
  <2> DEFINE body == RepairedWhole(raw)
             own == Range(NativeCalls(Written(raw, route[attempt]), Req))
  <2>1. attempt > 0 /\ Receive(own, body)
    BY <1>2 DEF ReplyWhole
  <2>2. OwnOrInserted(body, own, Req)
    BY RepliesInsert
  <2> HIDE DEF body, own
  <2> QED
    BY <2>1, <2>2, ReceiveMade
<1>3. ASSUME NEW raw \in Replies, ReplyStreamed(raw)
      PROVE  MadeIs'
  <2> DEFINE body == RepairedStream(raw)
             own == Range(raw) \cup Range(WrittenCalls(Whole(raw), Req))
  <2>1. attempt > 0 /\ Receive(own, body)
    BY <1>3 DEF ReplyStreamed
  <2>2. OwnOrInserted(body, own, Req)
    BY RepliesInsert
  <2> HIDE DEF body, own
  <2> QED
    BY <2>1, <2>2, ReceiveMade
<1> QED
  BY <1>1, <1>2, <1>3 DEF Reply

LEMMA TurnMade == IInv /\ IInv' /\ MadeIs /\ Turn => MadeIs'
<1> SUFFICES ASSUME IInv, IInv', MadeIs, Turn
             PROVE  MadeIs'
  OBVIOUS
<1>0. Formed(history) /\ history # << >>
  BY DEF IInv, Shape
<1>1. ASSUME NEW m, history' = Append(history, m), made' = made,
             \A t \in TextsOf(m) : t \in DOMAIN Plan
      PROVE  MadeIs'
  BY <1>1, MadeLonger DEF MadeIs
<1>2. ASSUME NEW big, NEW also \in {<< >>, <<Image>>}, ReturnResults(big, also)
      PROVE  MadeIs'
  <2> DEFINE uses == Blocks(Last(history).c, "use")
             results == Results(uses, big)
             c == results \o also
             m == Message("user", c)
  <2>1. history' = Append(history, m) /\ made' = made
    BY <1>2 DEF ReturnResults, Results
  <2>2. \A b \in Range(c) : b.k \in {"result", "image"}
    BY <1>0, ResultsContent
  <2> HIDE DEF c
  <2>3. TextsOf(m) = {}
    BY <2>2 DEF TextsOf, Message
  <2> HIDE DEF m
  <2> QED
    BY <1>1, <2>1, <2>3
<1>3. ASSUME NEW c \in Openings, Say(c)
      PROVE  MadeIs'
  <2> DEFINE m == Message("user", c)
  <2>1. history' = Append(history, m) /\ made' = made
    BY <1>3 DEF Say
  <2>2. \A t \in TextsOf(m) : t \in DOMAIN Plan
    BY OpeningKnown
  <2> HIDE DEF m
  <2> QED
    BY <1>1, <2>1, <2>2
<1>4. << >> \in {<< >>, <<Image>>} /\ <<Image>> \in {<< >>, <<Image>>}
  OBVIOUS
<1> QED
  BY <1>2, <1>3, <1>4 DEF Turn, Answer

\* Every call the gateway put in is at an even message; a planned one was the
\* next step of its plan and moved it on, one of the agent was the first.
THEOREM MadeInvariance == Spec => []MadeIs
<1>1. Init => MadeIs
  BY InitMade
<1>2. IInv /\ IInv' /\ MadeIs /\ [Next]_vars => MadeIs'
  <2> SUFFICES ASSUME IInv, IInv', MadeIs, [Next]_vars
               PROVE  MadeIs'
    OBVIOUS
  <2>1. ASSUME UNCHANGED <<history, made>>
        PROVE  MadeIs'
    BY <2>1 DEF MadeIs
  <2>2. CASE Ask
    BY <2>1, <2>2 DEF Ask
  <2>3. CASE Attempt
    BY <2>1, <2>3 DEF Attempt
  <2>4. CASE GiveUp
    BY <2>1, <2>4 DEF GiveUp
  <2>5. CASE Reply
    BY <2>5, ReplyMade
  <2>6. CASE Turn
    BY <2>6, TurnMade
  <2>7. CASE UNCHANGED vars
    BY <2>1, <2>7 DEF vars
  <2> QED
    BY <2>2, <2>3, <2>4, <2>5, <2>6, <2>7 DEF Next
<1>3. Spec => []IInv
  BY Invariance
<1> QED
  BY <1>1, <1>2, <1>3, PTL DEF Spec

\* The step of its plan that a call was put in for.
StepOf(h, c) == Reached(h, Since(PlanTurns(h), c.at), c.at - 1) + 1

LEMMA InPlanFacts ==
    ASSUME NEW h, Formed(h), Known(h), NEW c, MadeOk(h, c), c.step > 0
    PROVE  LET i == Since(PlanTurns(h), c.at)
           IN  /\ i \in PlanTurns(h) /\ i \in 1..Len(h) /\ i < c.at
               /\ \A j \in PlanTurns(h) : j < c.at => j <= i
               /\ StepOf(h, c) \in 1..Len(StepsAt(h, i)) /\ IsStep(c, StepsAt(h, i)[StepOf(h, c)])
               /\ Reached(h, i, c.at - 1) = StepOf(h, c) - 1
               /\ Reached(h, i, c.at) >= StepOf(h, c)
<1> DEFINE at == c.at
           S == {j \in PlanTurns(h) : j < at}
           i == Max(S)
<1>1. PlanTurns(h) \subseteq 1..Len(h) /\ Len(h) \in Nat /\ at \in 1..Len(h)
  BY TurnsOf, FormedFacts DEF MadeOk
<1>2. at \in Nat /\ S \subseteq 1..at
  BY <1>1
<1> DEFINE k == Reached(h, i, at - 1)
           steps == StepsAt(h, i)
<1>3. /\ S # {} /\ Reached(h, i, at) >= k + 1
      /\ k \in Nat /\ k < Len(steps) /\ IsStep(c, steps[k + 1])
  BY DEF MadeOk, InPlan
<1>4. i \in S /\ \A j \in S : j <= i
  <2> HIDE DEF S, at
  <2> QED
    BY <1>2, <1>3, MaxIs
<1>5. Since(PlanTurns(h), c.at) = i /\ StepOf(h, c) = k + 1
  BY DEF Since, StepOf
<1> HIDE DEF i
<1>6. i \in PlanTurns(h)
  BY <1>4
<1>7. Len(steps) \in Nat
  <2> DEFINE T == [tool : STRING, step : Nat \ {0}]
  <2>1. steps \in Seq(T)
    BY <1>6, StepsKnown
  <2> HIDE DEF steps, T
  <2> QED
    BY <2>1
<1> HIDE DEF k, steps
<1>8. k + 1 \in 1..Len(steps) /\ (k + 1) - 1 = k
  BY <1>3, <1>7
<1> QED
  BY <1>1, <1>3, <1>4, <1>5, <1>8 DEF k, steps

LEMMA FirstAgentFacts ==
    ASSUME NEW h, Formed(h), NEW at \in 1..Len(h), FirstAgent(h, at)
    PROVE  LET i == Since(TextTurns(h), at)
           IN  /\ i \in 1..Len(h) /\ i % 2 = 1 /\ i < at
               /\ \A j \in i+1..at-1 : \A b \in Range(h[j].c) : ~IsAgent(b)
<1> DEFINE S == {j \in TextTurns(h) : j < at}
           i == Max(S)
<1>1. Len(h) \in Nat /\ \A j \in TextTurns(h) : j \in 1..Len(h) /\ j % 2 = 1
  BY TurnsOf, FormedFacts
<1>2. at \in Nat /\ S \subseteq 1..at
  BY <1>1
<1>3. S # {} /\ \A j \in i+1..at-1 : \A b \in Range(h[j].c) : ~IsAgent(b)
  BY DEF FirstAgent
<1>4. i \in S
  <2> HIDE DEF S
  <2> QED
    BY <1>2, <1>3, MaxIs
<1>5. Since(TextTurns(h), at) = i
  BY DEF Since
<1> HIDE DEF i
<1> QED
  BY <1>1, <1>3, <1>4, <1>5

\* Before a call of a plan those it comes after were made,
LEMMA BeforeIt ==
    ASSUME NEW h, Formed(h), Known(h), NEW c, MadeOk(h, c), c.step > 0,
           NEW i, i = Since(PlanTurns(h), c.at), NEW n, n = StepOf(h, c),
           NEW steps, steps = StepsAt(h, i)
    PROVE  InOrder(SubSeq(steps, 1, n - 1), CallsTo(h, i, c.at - 1))
<1> DEFINE j == c.at - 1
           uses == CallsTo(h, i, j)
           T == BlocksOf(h)
           U == [tool : STRING, step : Nat \ {0}]
           k == n - 1
<1>1. i \in PlanTurns(h) /\ i \in 1..Len(h) /\ i < c.at /\ Reached(h, i, j) = k
  BY InPlanFacts
<1>2. Len(h) \in Nat /\ Contents(h) /\ c.at \in 1..Len(h)
  BY FormedFacts, FormedContents DEF MadeOk
<1>3. j \in i..Len(h) /\ i \in Nat
  BY <1>1, <1>2
<1>4. steps \in Seq(U)
  BY <1>1, StepsKnown
<1>5. CompletedBy(uses, steps) = k
  BY <1>1 DEF Reached
<1> HIDE DEF j, U
<1>6. uses \in Seq(T)
  BY <1>2, <1>3, CallsToFacts
<1> HIDE DEF uses, T, k
<1>7. InOrder(SubSeq(steps, 1, k), uses)
  BY <1>4, <1>5, <1>6, CompletedCalled
<1> QED
  BY <1>7 DEF k, uses, j

\* and what was put in before was put in for an earlier step.
LEMMA Earlier ==
    ASSUME NEW h, Formed(h), Known(h), NEW c, MadeOk(h, c), c.step > 0,
           NEW d, MadeOk(h, d), d.step > 0,
           Since(PlanTurns(h), c.at) < d.at, d.at < c.at
    PROVE  /\ Since(PlanTurns(h), d.at) = Since(PlanTurns(h), c.at)
           /\ StepOf(h, d) < StepOf(h, c)
<1> DEFINE i == Since(PlanTurns(h), c.at)
           e == Since(PlanTurns(h), d.at)
           m == StepOf(h, d)
           n == StepOf(h, c)
<1>1. /\ i \in PlanTurns(h) /\ i \in 1..Len(h) /\ i < c.at
      /\ \A j \in PlanTurns(h) : j < c.at => j <= i
      /\ Reached(h, i, c.at - 1) = n - 1 /\ n \in 1..Len(StepsAt(h, i))
  BY InPlanFacts
<1>2. /\ e \in PlanTurns(h) /\ e \in 1..Len(h) /\ e < d.at
      /\ \A j \in PlanTurns(h) : j < d.at => j <= e
      /\ Reached(h, e, d.at) >= m /\ m \in 1..Len(StepsAt(h, e))
  BY InPlanFacts
<1>3. /\ Len(h) \in Nat /\ Contents(h) /\ c.at \in 1..Len(h) /\ d.at \in 1..Len(h)
  BY FormedFacts, FormedContents DEF MadeOk
<1>4. i < d.at /\ d.at < c.at
  OBVIOUS
<1> HIDE DEF i, e, m, n
<1>5. e = i
  <2>1. e < c.at
    BY <1>2, <1>3, <1>4
  <2>2. e <= i /\ i <= e
    BY <1>1, <1>2, <1>4, <2>1
  <2> QED
    BY <1>1, <1>2, <2>2
<1> DEFINE j == d.at
           k == c.at - 1
<1>6. i \in Nat /\ j \in i..Len(h) /\ k \in j..Len(h)
  BY <1>1, <1>3, <1>4
<1>7. Reached(h, i, j) >= m /\ Reached(h, i, k) = n - 1
  BY <1>1, <1>2, <1>5
<1> HIDE DEF j, k
<1>8. Reached(h, i, j) \in Nat /\ Reached(h, i, k) \in Nat /\ Reached(h, i, j) <= Reached(h, i, k)
  BY <1>3, <1>6, ReachedGrows
<1>9. m \in Int /\ n \in Int
  BY <1>1, <1>2
<1>10. m < n
  BY <1>7, <1>8, <1>9
<1> QED
  BY <1>5, <1>10 DEF i, e, m, n

\* So it was put in no more often than the plan has it before that step.
LEMMA NoMoreOften ==
    ASSUME NEW h, Formed(h), Known(h), NEW C, \A d \in C : MadeOk(h, d), NEW c \in C, c.step > 0,
           NEW i, i = Since(PlanTurns(h), c.at), NEW n, n = StepOf(h, c),
           NEW steps, steps = StepsAt(h, i),
           NEW D, D = {d \in C : i < d.at /\ d.at < c.at /\ IsStep(d, steps[n])},
           NEW M, M = {m \in 1..n-1 : steps[m] = steps[n]}
    PROVE  Cardinality(D) <= Cardinality(M)
<1> DEFINE U == [tool : STRING, step : Nat \ {0}]
           g == [d \in D |-> StepOf(h, d)]
<1>1. /\ i \in PlanTurns(h) /\ n \in 1..Len(steps) /\ IsStep(c, steps[n])
  BY InPlanFacts
<1>2. steps \in Seq(U)
  BY <1>1, StepsKnown
<1> HIDE DEF U
<1>3. Len(steps) \in Nat /\ \A m \in 1..Len(steps) : steps[m] \in U
  BY <1>2
<1>4. ASSUME NEW d \in D
      PROVE  MadeOk(h, d) /\ d.step > 0 /\ i < d.at /\ d.at < c.at /\ IsStep(d, steps[n])
  <2>1. MadeOk(h, d) /\ i < d.at /\ d.at < c.at /\ IsStep(d, steps[n])
    OBVIOUS
  <2>2. d.step = steps[n].step /\ steps[n] \in U
    BY <1>1, <1>3, <2>1 DEF IsStep
  <2>3. d.step > 0
    BY <2>2 DEF U
  <2> QED
    BY <2>1, <2>3
<1>5. ASSUME NEW d \in D
      PROVE  StepOf(h, d) \in M /\ Since(PlanTurns(h), d.at) = i
  <2> DEFINE m == StepOf(h, d)
  <2>1. Since(PlanTurns(h), d.at) = i /\ m < n
    BY <1>4, Earlier
  <2>2. m \in 1..Len(steps) /\ IsStep(d, steps[m])
    BY <1>4, <2>1, InPlanFacts
  <2> HIDE DEF m
  <2>3. m \in 1..n-1
    BY <1>1, <1>3, <2>1, <2>2
  <2>4. steps[m].tool = steps[n].tool /\ steps[m].step = steps[n].step
    BY <1>4, <2>2 DEF IsStep
  <2>5. steps[m] \in U /\ steps[n] \in U
    BY <1>1, <1>3, <2>2
  <2>6. \A x, y \in U : x.tool = y.tool /\ x.step = y.step => x = y
    BY DEF U
  <2>7. steps[m] = steps[n]
    BY <2>4, <2>5, <2>6
  <2> QED
    BY <2>1, <2>3, <2>7 DEF m
<1>6. ASSUME NEW d \in D, NEW e \in D, d.at < e.at
      PROVE  StepOf(h, d) < StepOf(h, e)
  <2>1. Since(PlanTurns(h), e.at) < d.at
    BY <1>4, <1>5
  <2> QED
    BY <1>4, <1>6, <2>1, Earlier
<1>7. ASSUME NEW d \in D, NEW e \in D, StepOf(h, d) = StepOf(h, e)
      PROVE  d = e
  <2>1. StepOf(h, d) \in Int /\ d.at \in Int /\ e.at \in Int
    BY <1>4, <1>5 DEF MadeOk
  <2>2. d.at = e.at
    BY <1>6, <1>7, <2>1
  <2>3. d.tool = e.tool /\ d.step = e.step
    BY <1>4 DEF IsStep
  <2>4. /\ d = [at |-> d.at, tool |-> d.tool, step |-> d.step]
        /\ e = [at |-> e.at, tool |-> e.tool, step |-> e.step]
    BY <1>4 DEF MadeOk
  <2> QED
    BY <2>2, <2>3, <2>4
<1>8. g \in Injection(D, M)
  <2>1. g \in [D -> M]
    BY <1>5
  <2>2. \A d, e \in D : g[d] = g[e] => d = e
    BY <1>7
  <2> QED
    BY <2>1, <2>2 DEF Injection, IsInjective
<1>9. IsFiniteSet(M)
  <2>1. IsFiniteSet(1..n-1)
    BY <1>1, FS_Interval
  <2>2. M \in SUBSET (1..n-1)
    OBVIOUS
  <2> QED
    BY <2>1, <2>2, FS_Subset
<1> HIDE DEF g
<1> QED
  BY <1>8, <1>9, FS_Injection

LEMMA AgentOnce ==
    ASSUME NEW h, Formed(h), NEW c, MadeOk(h, c), c.tool = "Agent",
           NEW d, MadeOk(h, d), d.tool = "Agent", c.at < d.at
    PROVE  Since(TextTurns(h), d.at) > c.at
<1> DEFINE i == Since(TextTurns(h), d.at)
<1>1. /\ Len(h) \in Nat /\ c.at \in 1..Len(h) /\ c.at % 2 = 0 /\ d.at \in 1..Len(h)
      /\ FirstAgent(h, c.at) /\ FirstAgent(h, d.at)
  BY FormedFacts DEF MadeOk
<1>2. /\ i \in 1..Len(h) /\ i % 2 = 1 /\ i < d.at
      /\ \A j \in i+1..d.at-1 : \A b \in Range(h[j].c) : ~IsAgent(b)
  <2> DEFINE at == d.at
  <2>1. at \in 1..Len(h) /\ FirstAgent(h, at)
    BY <1>1
  <2> HIDE DEF at
  <2>2. LET m == Since(TextTurns(h), at)
        IN  /\ m \in 1..Len(h) /\ m % 2 = 1 /\ m < at
            /\ \A j \in m+1..at-1 : \A b \in Range(h[j].c) : ~IsAgent(b)
    BY <2>1, FirstAgentFacts
  <2> QED
    BY <2>2 DEF at
<1>3. \E b \in Range(h[c.at].c) : IsAgent(b)
  BY <1>1 DEF FirstAgent
<1> HIDE DEF i
<1>4. c.at \notin i+1..d.at-1
  BY <1>2, <1>3
<1>5. i # c.at
  BY <1>1, <1>2
<1>6. i > c.at
  BY <1>1, <1>2, <1>4, <1>5
<1> QED
  BY <1>6 DEF i

\* PlanInOrder: what the gateway puts in follows the plan it reads out of the
\* conversation, each step after those before it and no more often than the plan
\* has it, and the planned agent is called once (repair.py:2145-2290, 2376-2400).
THEOREM PlanKept == Spec => []PlanInOrder
<1>1. IInv /\ MadeIs => PlanInOrder
  <2> SUFFICES ASSUME IInv, MadeIs
               PROVE  PlanInOrder
    OBVIOUS
  <2> DEFINE h == history
  <2>1. Formed(h) /\ Known(h) /\ \A c \in made : MadeOk(h, c)
    BY DEF IInv, Shape, MadeIs
  <2>2. ASSUME NEW c \in made, c.step > 0
        PROVE  LET plan   == Since(PlanTurns(h), c.at)
                   steps  == StepsAt(h, plan)
                   before == {d \in made : plan < d.at /\ d.at < c.at}
               IN  \E n \in DOMAIN steps :
                      /\ IsStep(c, steps[n])
                      /\ InOrder(SubSeq(steps, 1, n - 1), CallsTo(h, plan, c.at - 1))
                      /\ Cardinality({d \in before : IsStep(d, steps[n])})
                            <= Cardinality({m \in 1..n-1 : steps[m] = steps[n]})
    <3> DEFINE plan   == Since(PlanTurns(h), c.at)
               steps  == StepsAt(h, plan)
               n      == StepOf(h, c)
               before == {d \in made : plan < d.at /\ d.at < c.at}
               D      == {d \in made : plan < d.at /\ d.at < c.at /\ IsStep(d, steps[n])}
               M      == {m \in 1..n-1 : steps[m] = steps[n]}
    <3>1. MadeOk(h, c)
      BY <2>1
    <3> HIDE DEF h
    <3>2. plan \in PlanTurns(h) /\ n \in 1..Len(steps) /\ IsStep(c, steps[n])
      BY <2>1, <2>2, <3>1, InPlanFacts
    <3>3. {d \in before : IsStep(d, steps[n])} = D
      OBVIOUS
    <3> HIDE DEF plan, n, steps, before
    <3>4. steps = StepsAt(h, plan) /\ plan = Since(PlanTurns(h), c.at) /\ n = StepOf(h, c)
      BY DEF steps, plan, n
    <3>5. n \in DOMAIN steps
      <4> DEFINE U == [tool : STRING, step : Nat \ {0}]
      <4>1. steps \in Seq(U)
        BY <2>1, <3>2, <3>4, StepsKnown
      <4> HIDE DEF U
      <4> QED
        BY <3>2, <4>1
    <3>6. InOrder(SubSeq(steps, 1, n - 1), CallsTo(h, plan, c.at - 1))
      BY <2>1, <2>2, <3>1, <3>4, BeforeIt
    <3>7. Cardinality(D) <= Cardinality(M)
      <4>1. D = {d \in made : plan < d.at /\ d.at < c.at /\ IsStep(d, steps[n])}
        OBVIOUS
      <4>2. M = {m \in 1..n-1 : steps[m] = steps[n]}
        OBVIOUS
      <4> HIDE DEF D, M
      <4> QED
        BY <2>1, <2>2, <3>4, <4>1, <4>2, NoMoreOften
    <3>8. \E m \in DOMAIN steps :
             /\ IsStep(c, steps[m])
             /\ InOrder(SubSeq(steps, 1, m - 1), CallsTo(h, plan, c.at - 1))
             /\ Cardinality({d \in before : IsStep(d, steps[m])})
                   <= Cardinality({l \in 1..m-1 : steps[l] = steps[m]})
      BY <3>2, <3>3, <3>5, <3>6, <3>7
    <3> QED
      BY <3>8 DEF plan, steps, before
  <2>3. \A c, d \in made : c.tool = "Agent" /\ d.tool = "Agent" /\ c.at < d.at =>
          Since(TextTurns(h), d.at) > c.at
    <3> HIDE DEF h
    <3> QED
      BY <2>1, AgentOnce
  <2> QED
    BY <2>2, <2>3 DEF PlanInOrder
<1>2. Spec => []IInv
  BY Invariance
<1>3. Spec => []MadeIs
  BY MadeInvariance
<1> QED
  BY <1>1, <1>2, <1>3, PTL
=============================================================================
