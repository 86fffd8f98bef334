---------------------------- MODULE StreamHookProofs ----------------------------
(***************************************************************************)
(* Proofs about StreamHook, for any requests, any answers of a provider    *)
(* and any way the transport cuts them.                                    *)
(***************************************************************************)
EXTENDS StreamHook, SequenceProofs

-----------------------------------------------------------------------------
(* The frames of a message. *)

\* What a provider sends and what the hook may say or call in its place.
Sayable == Block \cup {Stray, Text("final")}
CallAt(b, r, i) == Use(Extracted(b.t, r)[i].tool, Extracted(b.t, r)[i].step, TRUE)
Written == {CallAt(b, r, i) : b \in Sayable, r \in Requests, i \in Nat}
Due     == {PlannedCall(r) : r \in Requests} \cup {Use("Agent", 0, TRUE), Use("Bash", 0, TRUE)}
Held    == Sayable \cup Written \cup Due

Frame == [ev : {"start", "end"}] \cup [ev : {"open", "delta"}, i : Nat, b : Held]
         \cup [ev : {"close"}, i : Nat]

\* A block is started once, what is in it comes next, and a call that has
\* arguments was started before.
Once(fs) == \A j, k \in 1..Len(fs) :
    fs[j].ev = "open" /\ fs[k].ev = "open" /\ fs[j].i = fs[k].i => j = k
Begun(fs) == \A j \in 1..Len(fs) :
    fs[j].ev = "delta" /\ fs[j].b.k = "use" => \E k \in 1..(j-1) : fs[k] = Open(fs[j].i, fs[j].b)
Filled(fs) == \A j \in 1..Len(fs) :
    fs[j].ev = "open" => j < Len(fs) /\ fs[j+1] = Delta(fs[j].i, fs[j].b)
Framed(fs) == fs \in Seq(Frame) /\ Once(fs) /\ Begun(fs) /\ Filled(fs)

\* The blocks started are numbered from n on.
From(fs, n) == \A j \in 1..Len(fs) : fs[j].ev = "open" => fs[j].i >= n
Below(fs, n) == \A j \in 1..Len(fs) : fs[j].ev = "open" => fs[j].i < n

LEMMA FrameIs ==
    ASSUME NEW f \in Frame
    PROVE  /\ f.ev \in {"start", "end", "open", "delta", "close"}
           /\ f.ev \in {"start", "end"} => f = [ev |-> f.ev]
           /\ f.ev \in {"open", "delta"} => /\ f.i \in Nat /\ f.b \in Held
                                            /\ f = [ev |-> f.ev, i |-> f.i, b |-> f.b]
           /\ f.ev = "close" => f.i \in Nat /\ f = Close(f.i)
BY DEF Frame, Close

LEMMA ConcatFramed ==
    ASSUME NEW s, NEW t, Framed(s), Framed(t), NEW n \in Nat, Below(s, n), From(t, n)
    PROVE  Framed(s \o t)
<1> DEFINE u == s \o t
<1>1. /\ s \in Seq(Frame) /\ t \in Seq(Frame) /\ Len(s) \in Nat /\ Len(t) \in Nat
      /\ u \in Seq(Frame) /\ Len(u) = Len(s) + Len(t)
      /\ \A j \in 1..Len(u) : u[j] = IF j <= Len(s) THEN s[j] ELSE t[j - Len(s)]
  BY ConcatProperties, LenProperties DEF Framed
<1>2. \A j \in 1..Len(t) : u[Len(s) + j] = t[j]
  <2> TAKE j \in 1..Len(t)
  <2>1. Len(s) + j \in 1..Len(u) /\ ~(Len(s) + j <= Len(s)) /\ (Len(s) + j) - Len(s) = j
    BY <1>1
  <2> QED
    BY <1>1, <2>1
<1> HIDE DEF u
<1>3. \A j \in 1..Len(u) : \/ j \in 1..Len(s) /\ u[j] = s[j]
                           \/ j - Len(s) \in 1..Len(t) /\ u[j] = t[j - Len(s)]
  BY <1>1
<1>4. \A j \in 1..Len(s) : s[j] \in Frame
  BY <1>1, SeqFacts
<1>5. \A j \in 1..Len(t) : t[j] \in Frame
  BY <1>1, SeqFacts
<1>6. Once(u)
  <2> SUFFICES ASSUME NEW j \in 1..Len(u), NEW k \in 1..Len(u),
                      u[j].ev = "open", u[k].ev = "open", u[j].i = u[k].i
               PROVE  j = k
    BY DEF Once
  <2>1. CASE j \in 1..Len(s) /\ u[j] = s[j] /\ k \in 1..Len(s) /\ u[k] = s[k]
    BY <2>1 DEF Framed, Once
  <2>2. CASE /\ j - Len(s) \in 1..Len(t) /\ u[j] = t[j - Len(s)]
             /\ k - Len(s) \in 1..Len(t) /\ u[k] = t[k - Len(s)]
    <3>1. j - Len(s) = k - Len(s)
      BY <2>2 DEF Framed, Once
    <3> QED
      BY <1>1, <3>1
  <2>3. ASSUME NEW a \in 1..Len(s), NEW b \in 1..Len(t), s[a].ev = "open", t[b].ev = "open"
        PROVE  s[a].i # t[b].i
    <3>1. s[a].i \in Nat /\ t[b].i \in Nat
      BY <1>4, <1>5, <2>3, FrameIs
    <3>2. s[a].i < n /\ t[b].i >= n
      BY <2>3 DEF Below, From
    <3> QED
      BY <3>1, <3>2
  <2> QED
    BY <1>3, <2>1, <2>2, <2>3
<1>7. Begun(u)
  <2> SUFFICES ASSUME NEW j \in 1..Len(u), u[j].ev = "delta", u[j].b.k = "use"
               PROVE  \E k \in 1..(j-1) : u[k] = Open(u[j].i, u[j].b)
    BY DEF Begun
  <2>1. CASE j \in 1..Len(s) /\ u[j] = s[j]
    <3>1. PICK k \in 1..(j-1) : s[k] = Open(s[j].i, s[j].b)
      BY <2>1 DEF Framed, Begun
    <3>2. k \in 1..Len(u) /\ k <= Len(s)
      BY <1>1, <2>1
    <3>3. u[k] = s[k]
      BY <1>1, <3>2
    <3> QED
      BY <2>1, <3>1, <3>3
  <2>2. CASE j - Len(s) \in 1..Len(t) /\ u[j] = t[j - Len(s)]
    <3> DEFINE l == j - Len(s)
    <3>1. PICK k \in 1..(l-1) : t[k] = Open(t[l].i, t[l].b)
      BY <2>2 DEF Framed, Begun
    <3>2. k \in 1..Len(t) /\ Len(s) + k \in 1..(j-1)
      BY <1>1, <2>2
    <3>3. u[Len(s) + k] = t[k]
      BY <1>2, <3>2
    <3> QED
      BY <2>2, <3>1, <3>2, <3>3
  <2> QED
    BY <1>3, <2>1, <2>2
<1>8. Filled(u)
  <2> SUFFICES ASSUME NEW j \in 1..Len(u), u[j].ev = "open"
               PROVE  j < Len(u) /\ u[j+1] = Delta(u[j].i, u[j].b)
    BY DEF Filled
  <2>1. CASE j \in 1..Len(s) /\ u[j] = s[j]
    <3>1. j < Len(s) /\ s[j+1] = Delta(s[j].i, s[j].b)
      BY <2>1 DEF Framed, Filled
    <3>2. j + 1 \in 1..Len(u) /\ j + 1 <= Len(s) /\ j < Len(u)
      BY <1>1, <2>1, <3>1
    <3>3. u[j+1] = s[j+1]
      BY <1>1, <3>2
    <3> QED
      BY <2>1, <3>1, <3>2, <3>3
  <2>2. CASE j - Len(s) \in 1..Len(t) /\ u[j] = t[j - Len(s)]
    <3> DEFINE l == j - Len(s)
               k == l + 1
    <3>1. l < Len(t) /\ t[l+1] = Delta(t[l].i, t[l].b)
      BY <2>2 DEF Framed, Filled
    <3>2. k \in 1..Len(t) /\ Len(s) + k = j + 1 /\ j < Len(u)
      <4>1. l \in 1..Len(t) /\ l < Len(t) /\ j = Len(s) + l
        BY <1>1, <2>2, <3>1
      <4> HIDE DEF l
      <4> QED
        BY <1>1, <4>1
    <3>3. t[k] = Delta(u[j].i, u[j].b)
      BY <2>2, <3>1
    <3> HIDE DEF k, l
    <3>4. u[Len(s) + k] = t[k]
      BY <1>2, <3>2
    <3> QED
      BY <3>2, <3>3, <3>4
  <2> QED
    BY <1>3, <2>1, <2>2
<1> QED
  BY <1>1, <1>6, <1>7, <1>8 DEF u, Framed

LEMMA BlockIsFramed ==
    ASSUME NEW b \in Held, NEW n \in Nat
    PROVE  Framed(BlockFrames(b, n)) /\ From(BlockFrames(b, n), n) /\ Below(BlockFrames(b, n), n + 1)
<1> DEFINE o == Open(n, b)
           d == Delta(n, b)
           e == Delta(n, Stray)
           c == Close(n)
           three == <<o, d, c>>
           five == <<o, d, e, c, e>>
<1>1. /\ o \in Frame /\ d \in Frame /\ c \in Frame
      /\ o.ev = "open" /\ d.ev = "delta" /\ c.ev = "close" /\ e.ev = "delta"
      /\ o.i = n /\ d.i = n /\ d.b = b /\ e.b = Stray
  BY DEF Open, Delta, Close, Frame
<1>2. Stray \in Held /\ Stray.k # "use"
  BY DEF Stray, Held, Sayable
<1>3. e \in Frame /\ e.b.k # "use" /\ o = Open(d.i, d.b)
  BY <1>1, <1>2 DEF Delta, Frame
<1>3a. d = Delta(o.i, o.b)
  BY DEF Open
<1> HIDE DEF o, d, e, c
<1>4. Framed(three) /\ From(three, n) /\ Below(three, n + 1)
  <2>1. /\ three \in Seq(Frame) /\ Len(three) = 3
        /\ three[1] = o /\ three[2] = d /\ three[3] = c
    BY <1>1
  <2> HIDE DEF three
  <2>2. Once(three)
    BY <1>1, <2>1 DEF Once
  <2>3. Begun(three)
    <3> SUFFICES ASSUME NEW j \in 1..3, three[j].ev = "delta"
                 PROVE  \E k \in 1..(j-1) : three[k] = Open(three[j].i, three[j].b)
      BY <2>1 DEF Begun
    <3>1. j = 2
      BY <1>1, <2>1
    <3>2. 1 \in 1..(j-1) /\ three[1] = Open(three[j].i, three[j].b)
      BY <1>3, <2>1, <3>1
    <3> QED
      BY <3>2
  <2>4. Filled(three)
    <3> SUFFICES ASSUME NEW j \in 1..3, three[j].ev = "open"
                 PROVE  j < 3 /\ three[j+1] = Delta(three[j].i, three[j].b)
      BY <2>1 DEF Filled
    <3>1. j = 1
      BY <1>1, <2>1
    <3>2. three[2] = Delta(three[1].i, three[1].b)
      BY <1>3a, <2>1
    <3> QED
      BY <3>1, <3>2
  <2> QED
    BY <1>1, <2>1, <2>2, <2>3, <2>4 DEF Framed, From, Below
<1>5. Framed(five) /\ From(five, n) /\ Below(five, n + 1)
  <2>1. /\ five \in Seq(Frame) /\ Len(five) = 5
        /\ five[1] = o /\ five[2] = d /\ five[3] = e /\ five[4] = c /\ five[5] = e
    BY <1>1, <1>3
  <2> HIDE DEF five
  <2>2. Once(five)
    BY <1>1, <2>1 DEF Once
  <2>3. Begun(five)
    <3> SUFFICES ASSUME NEW j \in 1..5, five[j].ev = "delta", five[j].b.k = "use"
                 PROVE  \E k \in 1..(j-1) : five[k] = Open(five[j].i, five[j].b)
      BY <2>1 DEF Begun
    <3>1. j = 2
      BY <1>1, <1>3, <2>1
    <3>2. 1 \in 1..(j-1) /\ five[1] = Open(five[j].i, five[j].b)
      BY <1>3, <2>1, <3>1
    <3> QED
      BY <3>2
  <2>4. Filled(five)
    <3> SUFFICES ASSUME NEW j \in 1..5, five[j].ev = "open"
                 PROVE  j < 5 /\ five[j+1] = Delta(five[j].i, five[j].b)
      BY <2>1 DEF Filled
    <3>1. j = 1
      BY <1>1, <2>1
    <3>2. five[2] = Delta(five[1].i, five[1].b)
      BY <1>3a, <2>1
    <3> QED
      BY <3>1, <3>2
  <2> QED
    BY <1>1, <2>1, <2>2, <2>3, <2>4 DEF Framed, From, Below
<1> QED
  BY <1>4, <1>5 DEF BlockFrames, three, five, o, d, e, c

\* So are the frames of any answer.
LEMMA FramesOfFramed ==
    ASSUME NEW body \in Seq(Held)
    PROVE  Framed(FramesOf(body))
<1> DEFINE n == Len(body)
           ss == [i \in DOMAIN body |-> BlockFrames(body[i], i - 1)]
<1>1. n \in Nat /\ DOMAIN body = 1..n /\ \A i \in 1..n : body[i] \in Held /\ i - 1 \in Nat
  BY SeqFacts
<1>2. \A i \in 1..n : ss[i] = BlockFrames(body[i], i - 1)
  BY <1>1
<1>3. \A i \in 1..n : /\ Framed(ss[i]) /\ From(ss[i], i - 1) /\ Below(ss[i], i)
  <2> HIDE DEF ss
  <2> TAKE i \in 1..n
  <2> DEFINE k == i - 1
  <2>1. k \in Nat /\ k + 1 = i
    BY <1>1
  <2> HIDE DEF k
  <2>2. Framed(BlockFrames(body[i], k)) /\ From(BlockFrames(body[i], k), k)
        /\ Below(BlockFrames(body[i], k), k + 1)
    BY <1>1, <2>1, BlockIsFramed
  <2> QED
    BY <1>2, <2>1, <2>2 DEF k
<1>4. Parts(ss, n, Frame)
  BY <1>1, <1>3 DEF Parts, Framed
<1> HIDE DEF ss
<1>5. PICK f \in [0..n -> Seq(Frame)] : Joins(f, n, ss) /\ Joined(ss) = f[n]
  <2> HIDE DEF n
  <2> QED
    BY <1>1, <1>4, JoinedSteps
<1>6. \A i \in 0..n : Framed(f[i]) /\ Below(f[i], i)
  <2> DEFINE P == {i \in 0..n : Framed(f[i]) /\ Below(f[i], i)}
  <2>1. 0 \in P
    <3>1. f[0] = << >> /\ Len(<< >>) = 0 /\ << >> \in Seq(Frame)
      BY <1>5 DEF Joins
    <3> QED
      BY <1>1, <3>1 DEF Framed, Once, Begun, Filled, Below
  <2>2. ASSUME NEW i \in 0..n, i \in P, i < n
        PROVE  i + 1 \in P
    <3> DEFINE u == f[i]
               v == ss[i+1]
               w == f[i+1]
    <3>1. i + 1 \in 1..n /\ i + 1 \in 0..n /\ (i + 1) - 1 = i /\ i \in Nat
      BY <1>1, <2>2
    <3>2. w = u \o v
      BY <1>5, <3>1 DEF Joins
    <3>3. Framed(u) /\ Below(u, i) /\ Framed(v) /\ From(v, i) /\ Below(v, i + 1)
      BY <1>3, <2>2, <3>1
    <3> HIDE DEF u, v, w
    <3>4. Framed(w)
      BY <3>1, <3>2, <3>3, ConcatFramed
    <3>5. Below(w, i + 1)
      <4>1. /\ u \in Seq(Frame) /\ v \in Seq(Frame) /\ Len(u) \in Nat /\ Len(v) \in Nat
            /\ Len(w) = Len(u) + Len(v)
            /\ \A j \in 1..Len(w) : w[j] = IF j <= Len(u) THEN u[j] ELSE v[j - Len(u)]
        BY <3>2, <3>3, ConcatProperties, LenProperties DEF Framed
      <4> SUFFICES ASSUME NEW j \in 1..Len(w), w[j].ev = "open"
                   PROVE  w[j].i < i + 1
        BY DEF Below
      <4>2. CASE j <= Len(u)
        <5>1. j \in 1..Len(u) /\ w[j] = u[j]
          BY <4>1, <4>2
        <5>2. u[j].i < i /\ u[j] \in Frame
          BY <3>3, <4>1, <5>1, SeqFacts DEF Below
        <5>3. u[j].i \in Nat
          BY <5>1, <5>2, FrameIs
        <5> QED
          BY <3>1, <5>1, <5>2, <5>3
      <4>3. CASE ~(j <= Len(u))
        <5>1. j - Len(u) \in 1..Len(v) /\ w[j] = v[j - Len(u)]
          BY <4>1, <4>3
        <5> QED
          BY <3>3, <5>1 DEF Below
      <4> QED
        BY <4>2, <4>3
    <3> QED
      BY <3>1, <3>4, <3>5 DEF w
  <2>3. \A i \in 0..n : i \in P
    <3> HIDE DEF P, n
    <3> QED
      BY <1>1, <2>1, <2>2, Induction
  <2> QED
    BY <2>3
<1> DEFINE a == <<[ev |-> "start"]>>
           m == f[n]
           z == <<[ev |-> "end"]>>
<1>7. Framed(m) /\ Below(m, n)
  BY <1>1, <1>6
<1>8. /\ Framed(a) /\ Below(a, 0) /\ Framed(z) /\ From(z, n)
  <2>1. [ev |-> "start"] \in Frame /\ [ev |-> "end"] \in Frame
    BY DEF Frame
  <2>2. a \in Seq(Frame) /\ z \in Seq(Frame) /\ Len(a) = 1 /\ Len(z) = 1
        /\ a[1].ev = "start" /\ z[1].ev = "end"
    BY <2>1
  <2> HIDE DEF a, z
  <2> QED
    BY <2>2 DEF Framed, Once, Begun, Filled, Below, From
<1>9. From(m, 0)
  <2>1. \A j \in 1..Len(m) : m[j] \in Frame
    BY <1>7, SeqFacts DEF Framed
  <2> HIDE DEF m
  <2>2. \A j \in 1..Len(m) : m[j].ev = "open" => m[j].i \in Nat
    BY <2>1, FrameIs
  <2> QED
    BY <2>2 DEF From
<1>10. FramesOf(body) = a \o m \o z
  BY <1>5 DEF FramesOf, ss
<1> HIDE DEF a, m, z, n
<1>11. Framed(a \o m)
  BY <1>7, <1>8, <1>9, ConcatFramed
<1>12. Below(a \o m, n)
  <2> DEFINE w == a \o m
  <2>1. /\ a \in Seq(Frame) /\ m \in Seq(Frame) /\ Len(a) \in Nat /\ Len(m) \in Nat
        /\ Len(w) = Len(a) + Len(m)
        /\ \A j \in 1..Len(w) : w[j] = IF j <= Len(a) THEN a[j] ELSE m[j - Len(a)]
    BY <1>7, <1>8, ConcatProperties, LenProperties DEF Framed
  <2> HIDE DEF w
  <2>2. \A j \in 1..Len(a) : a[j] \in Frame
    BY <2>1, SeqFacts
  <2> SUFFICES ASSUME NEW j \in 1..Len(w), w[j].ev = "open"
               PROVE  w[j].i < n
    BY DEF Below, w
  <2>3. CASE j <= Len(a)
    <3>1. j \in 1..Len(a) /\ w[j] = a[j]
      BY <2>1, <2>3
    <3>2. a[j].i < 0 /\ a[j].i \in Nat
      BY <1>8, <2>2, <3>1, FrameIs DEF Below
    <3> QED
      BY <3>2
  <2>4. CASE ~(j <= Len(a))
    <3>1. j - Len(a) \in 1..Len(m) /\ w[j] = m[j - Len(a)]
      BY <2>1, <2>4
    <3> QED
      BY <1>7, <3>1 DEF Below
  <2> QED
    BY <2>3, <2>4
<1> DEFINE am == a \o m
<1>13. Framed(am) /\ Below(am, n)
  BY <1>11, <1>12
<1> HIDE DEF am
<1>14. Framed(am \o z)
  BY <1>1, <1>8, <1>13, ConcatFramed
<1> QED
  BY <1>10, <1>14 DEF am

-----------------------------------------------------------------------------
(* The events a client is given and the frames it sees in them. *)

Item  == [by : {"provider"}, f : Frame, part : {"whole", "head", "tail"}]
Event == Item \cup [by : {"hook"}, f : Frame \cup {[ev |-> "ping"]}, part : {"whole"}]

LEMMA EventIs ==
    ASSUME NEW e \in Event
    PROVE  /\ e.by \in {"provider", "hook"} /\ e.part \in {"whole", "head", "tail"}
           /\ e.by = "provider" => e \in Item /\ e.f \in Frame
           /\ e.f \in Frame \cup {[ev |-> "ping"]}
BY DEF Event, Item

LEMMA ItemIs ==
    ASSUME NEW e \in Item
    PROVE  /\ e \in Event /\ e.by = "provider" /\ e.f \in Frame
           /\ e.part \in {"whole", "head", "tail"}
           /\ e # Ping
<1>1. Ping.by = "hook"
  BY DEF Ping, Made
<1> QED
  BY <1>1 DEF Event, Item

LEMMA OwnIsItem ==
    ASSUME NEW f \in Frame, NEW part \in {"whole", "head", "tail"}
    PROVE  Own(f, part) \in Item /\ Own(f, part).f = f /\ Own(f, part).part = part
BY DEF Own, Item

LEMMA PingIsEvent == Ping \in Event
BY DEF Ping, Made, Event

Seen == Frame \cup {[ev |-> "ping"]}

LEMMA FramesInNext ==
    ASSUME NEW s \in Seq(Event)
    PROVE  /\ FramesIn(s) \in Seq(Seen)
           /\ \A e \in Event : FramesIn(Append(s, e)) =
                  IF e.part = "head" THEN FramesIn(s) ELSE Append(FramesIn(s), e.f)
<1> DEFINE T == Event
           Is(t) == {j \in DOMAIN t : t[j].part # "head"}
           W(t) == Picked(t, Is(t))
           F(w) == [j \in DOMAIN w |-> w[j].f]
<1>1. \A t \in Seq(T) : FramesIn(t) = F(W(t)) /\ W(t) \in Seq(T)
  <2> TAKE t \in Seq(T)
  <2> DEFINE is == Is(t)
  <2>1. FramesIn(t) = F(W(t))
    BY DEF FramesIn
  <2> HIDE DEF T, is
  <2>2. Picked(t, is) \in Seq(T)
    BY PickedFacts
  <2> QED
    BY <2>1, <2>2 DEF is
<1>2. \A w \in Seq(T) : /\ F(w) \in Seq(Seen) /\ Len(F(w)) = Len(w)
                        /\ \A j \in 1..Len(w) : F(w)[j] = w[j].f
  <2> TAKE w \in Seq(T)
  <2> DEFINE n == Len(w)
             g == F(w)
  <2>1. n \in Nat /\ DOMAIN w = 1..n /\ \A j \in 1..n : w[j] \in Event
    BY SeqFacts
  <2>2. g = [j \in 1..n |-> g[j]] /\ \A j \in 1..n : g[j] = w[j].f
    BY <2>1
  <2>3. \A j \in 1..n : w[j].f \in Seen
    BY <2>1, EventIs DEF Seen
  <2> HIDE DEF g, n
  <2>4. Len(g) = n
    BY <2>1, <2>2, FunctionIsSeq
  <2>5. g \in [1..n -> Seen]
    BY <2>2, <2>3
  <2>6. g \in Seq(Seen)
    BY <2>1, <2>5
  <2> QED
    BY <2>2, <2>4, <2>6 DEF g, n
<1>3. FramesIn(s) \in Seq(Seen)
  BY <1>1, <1>2
<1>4. ASSUME NEW e \in Event
      PROVE  FramesIn(Append(s, e)) =
                  IF e.part = "head" THEN FramesIn(s) ELSE Append(FramesIn(s), e.f)
  <2> DEFINE t == Append(s, e)
             is == Is(s)
             js == Is(t)
             n == Len(s)
             w == W(s)
             v == W(t)
  <2>1. /\ n \in Nat /\ t \in Seq(T) /\ Len(t) = n + 1
        /\ \A j \in 1..n : t[j] = s[j]
        /\ t[n+1] = e
    BY AppendProperties, LenProperties
  <2>2. DOMAIN s = 1..n /\ DOMAIN t = 1..n+1
    BY <2>1, SeqFacts
  <2>3. /\ \A j \in 1..n : j \in is <=> j \in js
        /\ n + 1 \in js <=> e.part # "head"
    <3> HIDE DEF t
    <3> QED
      BY <2>1, <2>2
  <2>4. Picked(t, js) = IF n + 1 \in js THEN Append(Picked(s, is), e) ELSE Picked(s, is)
    <3> HIDE DEF is, js
    <3> QED
      BY <2>3, PickedAppend
  <2>5. v = IF e.part # "head" THEN Append(w, e) ELSE w
    BY <2>3, <2>4
  <2>6. FramesIn(t) = F(v) /\ FramesIn(s) = F(w) /\ w \in Seq(T) /\ v \in Seq(T)
    BY <1>1, <2>1
  <2> HIDE DEF t, is, js, w, v, F
  <2>7. CASE e.part = "head"
    BY <2>5, <2>6, <2>7 DEF t
  <2>8. CASE e.part # "head"
    <3>1. v = Append(w, e) /\ e \in T
      BY <2>5, <2>8
    <3>2. /\ Len(v) = Len(w) + 1 /\ Len(w) \in Nat
          /\ \A j \in 1..Len(w) : v[j] = w[j]
          /\ v[Len(w)+1] = e
      BY <2>6, <3>1, AppendProperties, LenProperties
    <3>3. /\ F(v) \in Seq(Seen) /\ Len(F(v)) = Len(v) /\ \A j \in 1..Len(v) : F(v)[j] = v[j].f
          /\ F(w) \in Seq(Seen) /\ Len(F(w)) = Len(w) /\ \A j \in 1..Len(w) : F(w)[j] = w[j].f
      BY <1>2, <2>6
    <3> DEFINE x == e.f
               u == Append(F(w), x)
    <3>4. x \in Seen
      BY EventIs DEF Seen
    <3> HIDE DEF x
    <3>5. /\ u \in Seq(Seen) /\ Len(u) = Len(F(w)) + 1
          /\ \A j \in 1..Len(F(w)) : u[j] = F(w)[j]
          /\ u[Len(F(w)) + 1] = x
      BY <3>3, <3>4, AppendProperties
    <3> HIDE DEF u
    <3>6. \A j \in 1..Len(v) : F(v)[j] = u[j]
      <4> TAKE j \in 1..Len(v)
      <4>1. CASE j \in 1..Len(w)
        BY <3>2, <3>3, <3>5, <4>1
      <4>2. CASE j = Len(w) + 1
        BY <3>2, <3>3, <3>5, <4>2 DEF x
      <4> QED
        BY <3>2, <4>1, <4>2
    <3>7. Len(F(v)) = Len(u)
      BY <3>2, <3>3, <3>5
    <3>8. F(v) = u
      <4> DEFINE g == F(v)
      <4>1. g \in Seq(Seen) /\ Len(g) = Len(u) /\ \A j \in 1..Len(g) : g[j] = u[j]
        BY <3>3, <3>6, <3>7
      <4> HIDE DEF g
      <4>2. g = u
        BY <3>5, <4>1, SeqEqual
      <4> QED
        BY <4>2 DEF g
    <3> QED
      BY <2>6, <2>8, <3>8 DEF t, u, x
  <2> QED
    BY <2>7, <2>8
<1> QED
  BY <1>3, <1>4

LEMMA FramesInNone == FramesIn(<< >>) = << >>
<1> DEFINE e == << >>
           w == Picked(e, {j \in DOMAIN e : e[j].part # "head"})
<1>1. w = << >>
  BY PickedNone
<1>2. FramesIn(e) = [j \in DOMAIN w |-> w[j].f]
  BY DEF FramesIn
<1> HIDE DEF w
<1> QED
  BY <1>1, <1>2

LEMMA FramesInConcat ==
    ASSUME NEW s \in Seq(Event), NEW t \in Seq(Event)
    PROVE  FramesIn(s \o t) = FramesIn(s) \o FramesIn(t)
<1> DEFINE n == Len(t)
           U(i) == SubSeq(t, 1, i)
           P == {i \in 0..n : FramesIn(s \o U(i)) = FramesIn(s) \o FramesIn(U(i))}
<1>1. n \in Nat /\ \A i \in 1..n : t[i] \in Event
  BY SeqFacts
<1>2. U(0) = << >> /\ U(n) = t /\ \A i \in 0..n : U(i) \in Seq(Event)
  BY SubSeqFrom
<1>3. \A i \in 0..n : i < n => U(i + 1) = Append(U(i), t[i+1])
  BY SubSeqNext
<1> HIDE DEF U
<1>4. 0 \in P
  <2>1. FramesIn(s) \in Seq(Seen)
    BY FramesInNext
  <2>2. s \o << >> = s /\ FramesIn(s) \o << >> = FramesIn(s)
    BY <2>1, ConcatEmptySeq
  <2>3. FramesIn(s \o U(0)) = FramesIn(s) \o FramesIn(U(0))
    BY <1>2, <2>2, FramesInNone
  <2>4. 0 \in 0..n
    BY <1>1
  <2> QED
    BY <2>3, <2>4
<1>5. ASSUME NEW i \in 0..n, i \in P, i < n
      PROVE  i + 1 \in P
  <2> DEFINE u == U(i)
             e == t[i+1]
             fs == FramesIn(s)
             fu == FramesIn(u)
             x == e.f
  <2>1. /\ i + 1 \in 0..n /\ u \in Seq(Event) /\ e \in Event /\ U(i + 1) = Append(u, e)
        /\ FramesIn(s \o u) = fs \o fu
    BY <1>1, <1>2, <1>3, <1>5
  <2> HIDE DEF u, e
  <2>2. /\ fs \in Seq(Seen) /\ fu \in Seq(Seen) /\ x \in Seen
    BY <2>1, FramesInNext, EventIs DEF Seen
  <2>3. s \o Append(u, e) = Append(s \o u, e) /\ s \o u \in Seq(Event)
    BY <2>1, ConcatNext
  <2>4. FramesIn(Append(s \o u, e)) = IF e.part = "head" THEN FramesIn(s \o u)
                                      ELSE Append(FramesIn(s \o u), x)
    BY <2>1, <2>3, FramesInNext
  <2>5. FramesIn(Append(u, e)) = IF e.part = "head" THEN fu ELSE Append(fu, x)
    BY <2>1, FramesInNext
  <2> HIDE DEF fs, fu, x
  <2>6. fs \o Append(fu, x) = Append(fs \o fu, x)
    BY <2>2, ConcatNext
  <2>7. FramesIn(s \o U(i + 1)) = FramesIn(s) \o FramesIn(U(i + 1))
    BY <2>1, <2>3, <2>4, <2>5, <2>6 DEF fs
  <2> QED
    BY <2>1, <2>7
<1>6. \A i \in 0..n : i \in P
  <2> HIDE DEF P, n
  <2> QED
    BY <1>1, <1>4, <1>5, Induction
<1>7. n \in 0..n
  BY <1>1
<1> QED
  BY <1>2, <1>6, <1>7

-----------------------------------------------------------------------------
(* The sanitizer, and the frames of the message it has let through. *)

State == [thinking : SUBSET Nat, held : Frame \cup {None}, given : Seq(Item)]

LEMMA StartIsState == Start \in State
BY DEF Start, State

\* What the sanitizer does with a whole frame.
Drops(s, f) == f.ev = "delta" /\ f.b.k = "think" /\ f.i \notin s.thinking
Thinks(th, f) ==
    IF f.ev = "open" THEN IF f.b.k = "think" THEN th \cup {f.i} ELSE th \ {f.i}
    ELSE IF f.ev = "close" THEN th \ {f.i}
    ELSE th

LEMMA SanitizeIs ==
    ASSUME NEW s \in State, NEW f \in Frame
    PROVE  /\ Sanitize(s, f) \in State
           /\ Sanitize(s, f).thinking = Thinks(s.thinking, f)
           /\ Sanitize(s, f).held = s.held
           /\ Sanitize(s, f).given = IF Drops(s, f) THEN s.given ELSE Append(s.given, Own(f, "whole"))
<1> DEFINE g == s.given
           h == s.held
           th == s.thinking
           o == Own(f, "whole")
           a == Append(g, o)
           R(x, y) == [thinking |-> x, held |-> h, given |-> y]
<1>1. /\ s = R(th, g) /\ g \in Seq(Item) /\ th \in SUBSET Nat /\ h \in Frame \cup {None}
  BY DEF State
<1>2. o \in Item
  BY OwnIsItem
<1>3. a \in Seq(Item)
  BY <1>1, <1>2, AppendProperties
<1>4. /\ f.ev \in {"start", "end", "open", "delta", "close"}
      /\ f.ev \in {"open", "delta", "close"} => f.i \in Nat
  BY FrameIs
<1>5. ASSUME NEW x \in SUBSET Nat, NEW y \in Seq(Item)
      PROVE  R(x, y) \in State
  BY <1>1 DEF State
<1>6. \A x, y : R(x, y).thinking = x /\ R(x, y).held = h /\ R(x, y).given = y
  OBVIOUS
<1>7. CASE f.ev = "open"
  <2>1. Sanitize(s, f) = [s EXCEPT !.thinking = IF f.b.k = "think" THEN @ \cup {f.i} ELSE @ \ {f.i},
                                   !.given = Append(@, Own(f, "whole"))]
    BY <1>7 DEF Sanitize
  <2>2. Sanitize(s, f) = R(Thinks(th, f), a)
    BY <1>1, <1>7, <2>1 DEF Thinks
  <2>3. Thinks(th, f) \in SUBSET Nat
    BY <1>1, <1>4, <1>7 DEF Thinks
  <2>4. ~Drops(s, f)
    BY <1>7 DEF Drops
  <2> DEFINE x == Thinks(th, f)
  <2> HIDE DEF R, a, x
  <2>5. R(x, a) \in State
    BY <1>3, <1>5, <2>3 DEF x
  <2>6. R(x, a).thinking = x /\ R(x, a).held = h /\ R(x, a).given = a
    BY <1>6
  <2> QED
    BY <2>2, <2>4, <2>5, <2>6 DEF a, x
<1>8. CASE f.ev = "close"
  <2>1. Sanitize(s, f) = [s EXCEPT !.thinking = @ \ {f.i}, !.given = Append(@, Own(f, "whole"))]
    BY <1>8 DEF Sanitize
  <2>2. Sanitize(s, f) = R(Thinks(th, f), a)
    BY <1>1, <1>8, <2>1 DEF Thinks
  <2>3. Thinks(th, f) \in SUBSET Nat
    BY <1>1, <1>4, <1>8 DEF Thinks
  <2>4. ~Drops(s, f)
    BY <1>8 DEF Drops
  <2> DEFINE x == Thinks(th, f)
  <2> HIDE DEF R, a, x
  <2>5. R(x, a) \in State
    BY <1>3, <1>5, <2>3 DEF x
  <2>6. R(x, a).thinking = x /\ R(x, a).held = h /\ R(x, a).given = a
    BY <1>6
  <2> QED
    BY <2>2, <2>4, <2>5, <2>6 DEF a, x
<1>9. CASE Drops(s, f)
  <2>1. f.ev = "delta" /\ f.b.k = "think" /\ f.i \notin s.thinking
    BY <1>9 DEF Drops
  <2>2. Sanitize(s, f) = s
    BY <2>1 DEF Sanitize
  <2>3. Thinks(th, f) = th
    BY <2>1 DEF Thinks
  <2> QED
    BY <1>9, <2>2, <2>3
<1>10. CASE f.ev \in {"start", "end", "delta"} /\ ~Drops(s, f)
  <2>1. Sanitize(s, f) = [s EXCEPT !.given = Append(@, Own(f, "whole"))]
    BY <1>10 DEF Sanitize, Drops
  <2>2. Sanitize(s, f) = R(th, a)
    BY <1>1, <2>1
  <2>3. Thinks(th, f) = th
    BY <1>10 DEF Thinks
  <2> HIDE DEF R, a
  <2>5. R(th, a) \in State
    BY <1>1, <1>3, <1>5
  <2>6. R(th, a).thinking = th /\ R(th, a).held = h /\ R(th, a).given = a
    BY <1>6
  <2> QED
    BY <1>10, <2>2, <2>3, <2>5, <2>6 DEF a
<1> QED
  BY <1>4, <1>7, <1>8, <1>9, <1>10

LEMMA FeedIs ==
    ASSUME NEW s \in State, NEW it \in Item
    PROVE  /\ Feed(s, it) \in State
           /\ it.part = "head" => /\ Feed(s, it).thinking = s.thinking
                                  /\ Feed(s, it).held = it.f /\ Feed(s, it).given = s.given
           /\ it.part # "head" => /\ Feed(s, it).thinking = Thinks(s.thinking, it.f)
                                  /\ Feed(s, it).held = None
                                  /\ Feed(s, it).given = IF Drops(s, it.f) THEN s.given
                                                         ELSE Append(s.given, Own(it.f, "whole"))
<1> DEFINE f == it.f
<1>1. f \in Frame
  BY ItemIs
<1> HIDE DEF f
<1>2. \A x \in Frame \cup {None} :
         /\ [s EXCEPT !.held = x] \in State
         /\ [s EXCEPT !.held = x].thinking = s.thinking
         /\ [s EXCEPT !.held = x].held = x
         /\ [s EXCEPT !.held = x].given = s.given
  BY DEF State
<1>3. CASE it.part = "head"
  <2>1. Feed(s, it) = [s EXCEPT !.held = f]
    BY <1>3 DEF Feed, f
  <2> QED
    BY <1>1, <1>2, <1>3, <2>1 DEF f
<1>4. CASE it.part # "head"
  <2> DEFINE u == [s EXCEPT !.held = None]
  <2>1. Feed(s, it) = Sanitize(u, f)
    BY <1>4 DEF Feed, f
  <2>2. u \in State /\ u.thinking = s.thinking /\ u.held = None /\ u.given = s.given
    BY <1>2
  <2> HIDE DEF u
  <2>3. Drops(u, f) <=> Drops(s, f)
    BY <2>2 DEF Drops
  <2>4. /\ Sanitize(u, f) \in State
        /\ Sanitize(u, f).thinking = Thinks(u.thinking, f)
        /\ Sanitize(u, f).held = u.held
        /\ Sanitize(u, f).given = IF Drops(u, f) THEN u.given ELSE Append(u.given, Own(f, "whole"))
    BY <1>1, <2>2, SanitizeIs
  <2> QED
    BY <1>4, <2>1, <2>2, <2>3, <2>4 DEF f
<1> QED
  BY <1>3, <1>4

\* Feeding items one after the other.
Feeds(p, items) ==
    p[0] = Start /\ \A i \in 1..Len(items) : p[i] = Feed(p[i-1], items[i])

LEMMA FedSteps ==
    ASSUME NEW items \in Seq(Item)
    PROVE  \E p \in [0..Len(items) -> State] : Feeds(p, items) /\ Fed(items) = p[Len(items)]
<1> DEFINE S == State
           n == Len(items)
           G == [q \in (1..n) \X S |-> Feed(q[2], items[q[1]])]
           e == Start
           Value(f, i) == IF i = 0 THEN e ELSE Feed(f[i-1], items[i])
           fed == CHOOSE f : f = [i \in 0..n |-> Value(f, i)]
<1>1. n \in Nat /\ \A i \in 1..n : items[i] \in Item
  BY SeqFacts
<1> HIDE DEF n
<1>2. G \in [(1..n) \X S -> S]
  <2>1. ASSUME NEW i \in 1..n, NEW u \in S
        PROVE  Feed(u, items[i]) \in S
    <3>1. items[i] \in Item
      BY <1>1
    <3> QED
      BY <3>1, FeedIs
  <2> HIDE DEF S
  <2> QED
    BY <2>1
<1>3. e \in S
  BY StartIsState
<1>4. PICK f \in [0..n -> S] : f[0] = e /\ \A i \in 1..n : f[i] = G[<<i, f[i-1]>>]
  <2> HIDE DEF S, G, Value, fed, e
  <2>1. \E f \in [0..n -> S] : Follows(f, n, e, G)
    BY <1>1, <1>2, <1>3, Recursion
  <2> QED
    BY <2>1 DEF Follows
<1>5. \A i \in 1..n : f[i] = Feed(f[i-1], items[i])
  <2> HIDE DEF S
  <2> TAKE i \in 1..n
  <2>1. <<i, f[i-1]>> \in (1..n) \X S
    BY <1>1, <1>4
  <2> QED
    BY <1>4, <2>1
<1>6. f = [i \in 0..n |-> Value(f, i)]
  <2>1. ASSUME NEW i \in 0..n
        PROVE  f[i] = Value(f, i)
    <3>1. i # 0 => i \in 1..n
      BY <1>1
    <3> QED
      BY <1>4, <1>5, <3>1
  <2> HIDE DEF S, Value
  <2> QED
    BY <1>4, <2>1
<1>7. fed = [i \in 0..n |-> Value(fed, i)]
  BY <1>6
<1>8. Fed(items) = fed[n]
  BY DEF Fed, fed, n
<1> HIDE DEF fed
<1>9. \A i \in 0..n : fed[i] = f[i]
  <2> DEFINE P == {i \in 0..n : fed[i] = f[i]}
  <2>1. 0 \in P
    BY <1>1, <1>4, <1>7
  <2>2. ASSUME NEW i \in 0..n, i \in P, i < n
        PROVE  i + 1 \in P
    <3>1. i + 1 \in 1..n /\ i + 1 \in 0..n /\ (i + 1) - 1 = i /\ i + 1 # 0
      BY <1>1, <2>2
    <3>2. fed[i+1] = Value(fed, i + 1)
      BY <1>7, <3>1
    <3>3. fed[i+1] = Feed(fed[i], items[i+1])
      BY <3>1, <3>2
    <3>4. f[i+1] = Feed(f[i], items[i+1])
      BY <1>5, <3>1
    <3> QED
      BY <2>2, <3>1, <3>3, <3>4
  <2>3. \A i \in 0..n : i \in P
    <3> HIDE DEF P
    <3> QED
      BY <1>1, <2>1, <2>2, Induction
  <2> QED
    BY <2>3
<1>10. n \in 0..n
  BY <1>1
<1>11. Fed(items) = f[n] /\ f \in [0..n -> State]
  BY <1>4, <1>8, <1>9, <1>10
<1>12. Feeds(f, items)
  BY <1>4, <1>5 DEF Feeds, n
<1> QED
  BY <1>11, <1>12 DEF n

LEMMA FedNone == Fed(<< >>) = Start
<1> DEFINE e == << >>
<1>1. e \in Seq(Item) /\ Len(e) = 0
  OBVIOUS
<1> HIDE DEF e
<1>2. PICK p \in [0..Len(e) -> State] : Feeds(p, e) /\ Fed(e) = p[Len(e)]
  BY <1>1, FedSteps
<1>3. Fed(e) = Start
  BY <1>1, <1>2 DEF Feeds
<1> QED
  BY <1>3 DEF e

LEMMA FedNext ==
    ASSUME NEW s \in Seq(Item), NEW it \in Item
    PROVE  Fed(s) \in State /\ Fed(Append(s, it)) = Feed(Fed(s), it)
<1> DEFINE n == Len(s)
           t == Append(s, it)
<1>1. /\ n \in Nat /\ t \in Seq(Item) /\ Len(t) = n + 1
      /\ \A i \in 1..n : t[i] = s[i]
      /\ t[n+1] = it
  BY AppendProperties, LenProperties
<1> HIDE DEF t
<1>2. PICK p \in [0..n -> State] : Feeds(p, s) /\ Fed(s) = p[n]
  BY FedSteps
<1>3. PICK q \in [0..n+1 -> State] : Feeds(q, t) /\ Fed(t) = q[n+1]
  <2>1. \E q \in [0..Len(t) -> State] : Feeds(q, t) /\ Fed(t) = q[Len(t)]
    BY <1>1, FedSteps
  <2> QED
    BY <1>1, <2>1
<1> DEFINE P == {i \in 0..n : p[i] = q[i]}
<1>4. 0 \in P
  BY <1>1, <1>2, <1>3 DEF Feeds
<1>5. ASSUME NEW i \in 0..n, i \in P, i < n
      PROVE  i + 1 \in P
  <2>1. i + 1 \in 1..n /\ i + 1 \in 0..n /\ (i + 1) - 1 = i /\ i + 1 \in 1..Len(t)
    BY <1>1, <1>5
  <2>2. p[i+1] = Feed(p[i], s[i+1])
    BY <1>2, <2>1 DEF Feeds
  <2>3. q[i+1] = Feed(q[i], t[i+1])
    BY <1>3, <2>1 DEF Feeds
  <2> QED
    BY <1>1, <1>5, <2>1, <2>2, <2>3
<1>6. \A i \in 0..n : i \in P
  <2> HIDE DEF P, n
  <2> QED
    BY <1>1, <1>4, <1>5, Induction
<1>7. n \in 0..n /\ n + 1 \in 1..Len(t) /\ (n + 1) - 1 = n
  BY <1>1
<1>8. p[n] = q[n] /\ p[n] \in State
  BY <1>2, <1>6, <1>7
<1>9. q[n+1] = Feed(q[n], t[n+1])
  BY <1>3, <1>7 DEF Feeds
<1> QED
  BY <1>1, <1>2, <1>3, <1>8, <1>9 DEF t

\* The sound frames among the first n, and the thinking blocks open after them.
SoundTo(n) == Picked(SubSeq(message, 1, n), {j \in 1..n : req.shape = "raw" \/ Sound(j)})
ThinkingAt(n) ==
    {i \in Nat : \E k \in 1..n : /\ message[k].ev = "open" /\ message[k].b.k = "think"
                                 /\ message[k].i = i
                                 /\ \A l \in k..n : message[l] # Close(i)}

LEMMA SoundNext ==
    ASSUME Framed(message), NEW n \in Nat, n <= Len(message)
    PROVE  /\ SoundTo(n) \in Seq(Frame)
           /\ SoundTo(0) = << >>
           /\ n < Len(message) =>
                  SoundTo(n + 1) = IF req.shape = "raw" \/ Sound(n + 1)
                                   THEN Append(SoundTo(n), message[n+1]) ELSE SoundTo(n)
<1> DEFINE Is(k) == {j \in 1..k : req.shape = "raw" \/ Sound(j)}
           U(k) == SubSeq(message, 1, k)
<1>1. message \in Seq(Frame) /\ Len(message) \in Nat /\ n \in 0..Len(message)
      /\ \A j \in 1..Len(message) : message[j] \in Frame
  BY SeqFacts DEF Framed
<1>2. \A k : SoundTo(k) = Picked(U(k), Is(k))
  BY DEF SoundTo
<1>3. U(n) \in Seq(Frame) /\ Len(U(n)) = n /\ U(0) = << >>
  BY <1>1, SubSeqFrom
<1>4. SoundTo(n) \in Seq(Frame)
  <2> DEFINE is == Is(n)
             u == U(n)
  <2>1. u \in Seq(Frame)
    BY <1>3
  <2> HIDE DEF is, u
  <2>2. Picked(u, is) \in Seq(Frame)
    BY <2>1, PickedFacts
  <2> QED
    BY <1>2, <2>2 DEF is, u
<1>5. SoundTo(0) = << >>
  <2> HIDE DEF U, Is
  <2> QED
    BY <1>2, <1>3, PickedNone
<1>6. ASSUME n < Len(message)
      PROVE  SoundTo(n + 1) = IF req.shape = "raw" \/ Sound(n + 1)
                              THEN Append(SoundTo(n), message[n+1]) ELSE SoundTo(n)
  <2> DEFINE m == n + 1
             e == message[m]
             u == U(n)
             is == Is(n)
             js == Is(m)
  <2>1. U(m) = Append(u, e)
    BY <1>1, <1>6, SubSeqNext
  <2>2. /\ u \in Seq(Frame) /\ Len(u) = n
    BY <1>3
  <2>3. /\ \A j \in 1..n : j \in is <=> j \in js
        /\ m \in js <=> req.shape = "raw" \/ Sound(m)
    BY <1>1
  <2>4. m \in 1..Len(message)
    BY <1>1, <1>6
  <2> HIDE DEF m
  <2>5. e \in Frame
    BY <1>1, <2>4
  <2> HIDE DEF u, is, js, e
  <2>6. Picked(Append(u, e), js) = IF Len(u) + 1 \in js THEN Append(Picked(u, is), e) ELSE Picked(u, is)
    BY <2>2, <2>3, <2>5, PickedAppend
  <2>7. Len(u) + 1 = m
    BY <2>2 DEF m
  <2>8. SoundTo(m) = Picked(Append(u, e), js) /\ SoundTo(n) = Picked(u, is)
    BY <1>2, <2>1 DEF u, is, js
  <2>9. SoundTo(m) = IF req.shape = "raw" \/ Sound(m) THEN Append(SoundTo(n), e) ELSE SoundTo(n)
    BY <2>3, <2>6, <2>7, <2>8
  <2> QED
    BY <2>9 DEF m, e
<1> QED
  BY <1>4, <1>5, <1>6

LEMMA ThinkingNext ==
    ASSUME Framed(message), NEW n \in Nat, n < Len(message)
    PROVE  /\ ThinkingAt(n + 1) = Thinks(ThinkingAt(n), message[n+1])
           /\ Sound(n + 1) <=> ~(/\ message[n+1].ev = "delta" /\ message[n+1].b.k = "think"
                                 /\ message[n+1].i \notin ThinkingAt(n))
<1> DEFINE m == n + 1
           f == message[m]
           Opens(k, i) == message[k].ev = "open" /\ message[k].b.k = "think" /\ message[k].i = i
           Shut(k, p, i) == \E l \in k..p : message[l] = Close(i)
<1>1. /\ message \in Seq(Frame) /\ Len(message) \in Nat /\ m \in 1..Len(message)
      /\ \A j \in 1..Len(message) : message[j] \in Frame
  BY SeqFacts DEF Framed
<1>2. \A p, i : i \in ThinkingAt(p) <=> i \in Nat /\ \E k \in 1..p : Opens(k, i) /\ ~Shut(k, p, i)
  BY DEF ThinkingAt
<1>3. \A i : \A k \in 1..n : Shut(k, m, i) <=> Shut(k, n, i) \/ f = Close(i)
  <2>1. \A k \in 1..n : k..m = (k..n) \cup {m}
    OBVIOUS
  <2> HIDE DEF m
  <2> QED
    BY <2>1
<1>4. \A i : Shut(m, m, i) <=> f = Close(i)
  <2>1. m..m = {m}
    OBVIOUS
  <2> HIDE DEF m
  <2> QED
    BY <2>1
<1>5. 1..m = (1..n) \cup {m} /\ m \notin 1..n
  OBVIOUS
<1>6. \A i : i \in ThinkingAt(m) <=>
          /\ i \in Nat
          /\ \/ f # Close(i) /\ i \in ThinkingAt(n)
             \/ Opens(m, i) /\ f # Close(i)
  <2> HIDE DEF m, f, Opens, Shut
  <2> QED
    BY <1>2, <1>3, <1>4, <1>5
<1>7. f \in Frame /\ \A i : Opens(m, i) <=> f.ev = "open" /\ f.b.k = "think" /\ f.i = i
  BY <1>1
<1>8. /\ f.ev \in {"start", "end", "open", "delta", "close"}
      /\ f.ev \in {"open", "delta", "close"} => f.i \in Nat
      /\ \A i : f = Close(i) <=> f.ev = "close" /\ f.i = i
  <2>1. \A i : Close(i).ev = "close" /\ Close(i).i = i
    BY DEF Close
  <2> HIDE DEF f
  <2> QED
    BY <1>7, <2>1, FrameIs
\* A block that is started was not started before.
<1>9. ASSUME f.ev = "open"
      PROVE  f.i \notin ThinkingAt(n)
  <2> SUFFICES ASSUME f.i \in ThinkingAt(n)
               PROVE  FALSE
    OBVIOUS
  <2>1. PICK k \in 1..n : message[k].ev = "open" /\ message[k].i = f.i
    BY <1>2
  <2>2. k \in 1..Len(message) /\ k # m
    BY <1>1
  <2> QED
    BY <1>1, <1>9, <2>1, <2>2 DEF Framed, Once
<1>10. \A i : i \in ThinkingAt(n) => i \in Nat
  BY <1>2
<1>11. ThinkingAt(m) = Thinks(ThinkingAt(n), f)
  <2> HIDE DEF m, f, Opens
  <2>1. CASE f.ev = "open" /\ f.b.k = "think"
    <3>1. Thinks(ThinkingAt(n), f) = ThinkingAt(n) \cup {f.i}
      BY <2>1 DEF Thinks
    <3>2. \A i : i \in ThinkingAt(m) <=> i \in ThinkingAt(n) \/ i = f.i
      BY <1>6, <1>7, <1>8, <1>10, <2>1
    <3> QED
      BY <3>1, <3>2
  <2>2. CASE f.ev = "open" /\ f.b.k # "think"
    <3>1. Thinks(ThinkingAt(n), f) = ThinkingAt(n) \ {f.i}
      BY <2>2 DEF Thinks
    <3>2. \A i : i \in ThinkingAt(m) <=> i \in ThinkingAt(n)
      BY <1>6, <1>7, <1>8, <1>10, <2>2
    <3> QED
      BY <1>9, <2>2, <3>1, <3>2
  <2>3. CASE f.ev = "close"
    <3>1. Thinks(ThinkingAt(n), f) = ThinkingAt(n) \ {f.i}
      BY <2>3 DEF Thinks
    <3>2. \A i : i \in ThinkingAt(m) <=> i \in ThinkingAt(n) /\ i # f.i
      BY <1>6, <1>7, <1>8, <1>10, <2>3
    <3> QED
      BY <3>1, <3>2
  <2>4. CASE f.ev \in {"start", "end", "delta"}
    <3>1. Thinks(ThinkingAt(n), f) = ThinkingAt(n)
      BY <2>4 DEF Thinks
    <3>2. \A i : i \in ThinkingAt(m) <=> i \in ThinkingAt(n)
      BY <1>6, <1>7, <1>8, <1>10, <2>4
    <3> QED
      BY <3>1, <3>2
  <2> QED
    BY <1>8, <2>1, <2>2, <2>3, <2>4
<1>12. ASSUME f.ev = "delta"
       PROVE  InThinking(m) <=> f.i \in ThinkingAt(n)
  <2>1. m - 1 = n
    OBVIOUS
  <2>2. InThinking(m) <=> \E k \in 1..n : Opens(k, f.i) /\ ~Shut(k, m, f.i)
    BY <2>1 DEF InThinking
  <2>3. f # Close(f.i) /\ f.i \in Nat
    BY <1>8, <1>12
  <2> HIDE DEF m, f, Opens, Shut
  <2> QED
    BY <1>2, <1>3, <2>2, <2>3
<1>13. Sound(m) <=> ~(f.ev = "delta" /\ f.b.k = "think" /\ f.i \notin ThinkingAt(n))
  BY <1>12 DEF Sound
<1> QED
  BY <1>11, <1>13

\* The sanitizer has seen n frames, and of the next one the head if h.
Consistent(s, n, h) ==
    /\ s \in State
    /\ s.thinking = ThinkingAt(n)
    /\ s.held = IF h THEN message[n+1] ELSE None
    /\ FramesIn(s.given) = SoundTo(n)

LEMMA StartConsistent ==
    ASSUME Framed(message)
    PROVE  Consistent(Start, 0, FALSE)
<1>1. Start.thinking = {} /\ Start.held = None /\ Start.given = << >>
  BY DEF Start
<1>2. ThinkingAt(0) = {}
  <2>1. 1..0 = {}
    OBVIOUS
  <2> QED
    BY <2>1 DEF ThinkingAt
<1>3. 0 \in Nat /\ 0 <= Len(message)
  BY LenProperties DEF Framed
<1>4. SoundTo(0) = << >>
  BY <1>3, SoundNext
<1> QED
  BY <1>1, <1>2, <1>4, StartIsState, FramesInNone DEF Consistent

LEMMA FeedConsistent ==
    ASSUME Framed(message), req.shape # "raw", NEW n \in Nat, n < Len(message),
           NEW s, NEW h, Consistent(s, n, h), NEW part \in {"whole", "head", "tail"}
    PROVE  Consistent(Feed(s, Own(message[n+1], part)), IF part = "head" THEN n ELSE n + 1,
                      part = "head")
<1> DEFINE m == n + 1
           f == message[m]
           it == Own(f, part)
           t == Feed(s, it)
           o == Own(f, "whole")
<1>1. m \in 1..Len(message) /\ Len(message) \in Nat
  BY LenProperties DEF Framed
<1>2. f \in Frame
  <2> HIDE DEF m
  <2> QED
    BY <1>1, SeqFacts DEF Framed
<1> HIDE DEF f
<1>3. it \in Item /\ it.f = f /\ it.part = part /\ o \in Item /\ o.f = f /\ o.part = "whole"
  BY <1>2, OwnIsItem
<1> HIDE DEF it, o
<1>4. /\ t \in State
      /\ it.part = "head" => t.thinking = s.thinking /\ t.held = it.f /\ t.given = s.given
      /\ it.part # "head" => /\ t.thinking = Thinks(s.thinking, it.f)
                             /\ t.held = None
                             /\ t.given = IF Drops(s, it.f) THEN s.given
                                          ELSE Append(s.given, Own(it.f, "whole"))
  BY <1>3, FeedIs DEF Consistent
<1> HIDE DEF t
<1>5. CASE part = "head"
  <2>1. Consistent(t, n, TRUE)
    BY <1>3, <1>4, <1>5 DEF Consistent, f, m
  <2> QED
    BY <1>5, <2>1 DEF t, it, f, m
<1>6. CASE part # "head"
  <2>1. /\ ThinkingAt(m) = Thinks(ThinkingAt(n), f)
        /\ Sound(m) <=> ~(f.ev = "delta" /\ f.b.k = "think" /\ f.i \notin ThinkingAt(n))
    BY ThinkingNext DEF f
  <2>2. SoundTo(m) = IF Sound(m) THEN Append(SoundTo(n), f) ELSE SoundTo(n)
    BY <1>1, SoundNext DEF f
  <2>3. Drops(s, f) <=> ~Sound(m)
    BY <2>1 DEF Drops, Consistent
  <2>4. t.thinking = ThinkingAt(m) /\ t.held = None
    BY <1>3, <1>4, <1>6, <2>1 DEF Consistent
  <2>5. t.given = IF Sound(m) THEN Append(s.given, o) ELSE s.given
    BY <1>3, <1>4, <1>6, <2>3 DEF o
  <2> DEFINE g == s.given
  <2>6. g \in Seq(Event)
    <3>1. g \in Seq(Item) /\ Item \subseteq Event
      BY DEF Consistent, State, Event
    <3> HIDE DEF g
    <3> QED
      BY <3>1, SeqMonotonic
  <2>7. o \in Event
    BY <1>3, ItemIs
  <2> HIDE DEF g
  <2>8. FramesIn(Append(g, o)) = Append(FramesIn(g), f)
    BY <1>3, <2>6, <2>7, FramesInNext
  <2>9. FramesIn(t.given) = SoundTo(m)
    BY <2>2, <2>5, <2>8 DEF g, Consistent
  <2>10. Consistent(t, m, FALSE)
    BY <1>4, <2>4, <2>9 DEF Consistent
  <2> QED
    BY <1>6, <2>10 DEF t, it, f, m
<1> QED
  BY <1>5, <1>6

-----------------------------------------------------------------------------
(* What the hook makes up. *)

\* What follows on what in a message.
Chained(fs) == \A j \in 2..Len(fs) : Continues(fs[j-1], fs[j])

LEMMA ConcatChained ==
    ASSUME NEW s \in Seq(Frame), NEW t \in Seq(Frame), s # << >>, t # << >>,
           Chained(s), Chained(t), Continues(s[Len(s)], t[1])
    PROVE  /\ s \o t \in Seq(Frame) /\ s \o t # << >> /\ Chained(s \o t)
           /\ (s \o t)[1] = s[1] /\ (s \o t)[Len(s \o t)] = t[Len(t)]
<1> DEFINE u == s \o t
<1>1. /\ Len(s) \in Nat /\ Len(t) \in Nat /\ Len(s) # 0 /\ Len(t) # 0
      /\ u \in Seq(Frame) /\ Len(u) = Len(s) + Len(t)
      /\ \A j \in 1..Len(u) : u[j] = IF j <= Len(s) THEN s[j] ELSE t[j - Len(s)]
  BY ConcatProperties, LenProperties, EmptySeq
<1>2. \A j \in 1..Len(t) : u[Len(s) + j] = t[j]
  <2> TAKE j \in 1..Len(t)
  <2>1. Len(s) + j \in 1..Len(u) /\ ~(Len(s) + j <= Len(s)) /\ (Len(s) + j) - Len(s) = j
    BY <1>1
  <2> QED
    BY <1>1, <2>1
<1>3. \A j \in 1..Len(s) : u[j] = s[j]
  BY <1>1
<1> HIDE DEF u
<1>4. u # << >>
  <2>1. Len(<< >>) = 0
    OBVIOUS
  <2> QED
    BY <1>1, <2>1
<1>5. u[1] = s[1] /\ u[Len(u)] = t[Len(t)]
  BY <1>1, <1>2, <1>3
<1>6. Chained(u)
  <2> SUFFICES ASSUME NEW j \in 2..Len(u)
               PROVE  Continues(u[j-1], u[j])
    BY DEF Chained
  <2>1. CASE j <= Len(s)
    <3>1. j \in 2..Len(s) /\ j - 1 \in 1..Len(s) /\ j \in 1..Len(s)
      BY <1>1, <2>1
    <3> QED
      BY <1>3, <3>1 DEF Chained
  <2>2. CASE j = Len(s) + 1
    <3>1. j - 1 = Len(s) /\ Len(s) \in 1..Len(s) /\ 1 \in 1..Len(t)
      BY <1>1, <2>2
    <3> QED
      BY <1>2, <1>3, <2>2, <3>1
  <2>3. CASE j > Len(s) + 1
    <3> DEFINE k == j - Len(s)
    <3>1. k \in 2..Len(t) /\ k \in 1..Len(t) /\ k - 1 \in 1..Len(t)
          /\ j = Len(s) + k /\ j - 1 = Len(s) + (k - 1)
      BY <1>1, <2>3
    <3> HIDE DEF k
    <3>2. u[j] = t[k] /\ u[j-1] = t[k-1]
      BY <1>2, <3>1
    <3> QED
      BY <3>1, <3>2 DEF Chained
  <2> QED
    BY <1>1, <2>1, <2>2, <2>3
<1> QED
  BY <1>1, <1>4, <1>5, <1>6 DEF u

\* The frames of a call or of the closing text.
LEMMA PlainBlock ==
    ASSUME NEW b \in Held, b.k = "use" \/ b = Text("final"), NEW n \in Nat
    PROVE  LET t == BlockFrames(b, n)
           IN  /\ t \in Seq(Frame) /\ t # << >> /\ Chained(t)
               /\ t[1] = Open(n, b) /\ t[Len(t)].ev = "close"
               /\ \A f \in Range(t) : f.ev = "open" => f.b = b
<1> DEFINE o == Open(n, b)
           d == Delta(n, b)
           c == Close(n)
           three == <<o, d, c>>
<1>1. ~(b.k = "text" /\ b.t = "leaky")
  BY DEF Text
<1>2. BlockFrames(b, n) = three
  BY <1>1 DEF BlockFrames
<1>3. /\ o \in Frame /\ d \in Frame /\ c \in Frame
      /\ o.ev = "open" /\ d.ev = "delta" /\ c.ev = "close"
      /\ o.b = b /\ d.i = n /\ c.i = n /\ o = Open(d.i, d.b)
  BY DEF Open, Delta, Close, Frame
<1> HIDE DEF o, d, c
<1>4. /\ three \in Seq(Frame) /\ Len(three) = 3 /\ three # << >>
      /\ three[1] = o /\ three[2] = d /\ three[3] = c
  BY <1>3
<1> HIDE DEF three
<1>5. Chained(three)
  <2>1. Continues(o, d) /\ Continues(d, c)
    BY <1>3 DEF Continues
  <2> SUFFICES ASSUME NEW j \in 2..3
               PROVE  Continues(three[j-1], three[j])
    BY <1>4 DEF Chained
  <2>2. j = 2 \/ j = 3
    OBVIOUS
  <2> QED
    BY <1>4, <2>1, <2>2
<1>6. Range(three) = {three[i] : i \in 1..3}
  BY <1>4, SeqFacts
<1>7. \A f \in Range(three) : f = o \/ f = d \/ f = c
  <2>1. \A i \in 1..3 : i = 1 \/ i = 2 \/ i = 3
    OBVIOUS
  <2> QED
    BY <1>4, <1>6, <2>1
<1>8. \A f \in Range(three) : f.ev = "open" => f.b = b
  BY <1>3, <1>7
<1> QED
  BY <1>2, <1>3, <1>4, <1>5, <1>8 DEF o

Plain(body) ==
    \E n \in Nat \ {0} : /\ body = [i \in 1..n |-> body[i]]
                         /\ \A i \in 1..n : /\ body[i] \in Held
                                            /\ body[i].k = "use" \/ body[i] = Text("final")

LEMMA PlainIs ==
    ASSUME NEW body, Plain(body)
    PROVE  /\ body \in Seq(Held) /\ Len(body) \in Nat \ {0} /\ DOMAIN body = 1..Len(body)
           /\ \A i \in 1..Len(body) : /\ body[i] \in Held
                                      /\ body[i].k = "use" \/ body[i] = Text("final")
<1>1. PICK n \in Nat \ {0} : /\ body = [i \in 1..n |-> body[i]]
                             /\ \A i \in 1..n : /\ body[i] \in Held
                                                /\ body[i].k = "use" \/ body[i] = Text("final")
  BY DEF Plain
<1>2. Len(body) = n /\ DOMAIN body = 1..n
  BY <1>1, FunctionIsSeq
<1>3. body \in [1..n -> Held]
  BY <1>1
<1>4. body \in Seq(Held)
  BY <1>1, <1>3
<1> QED
  BY <1>1, <1>2, <1>4

\* It is one message, and its calls are those of the body.
LEMMA MadeIsMessage ==
    ASSUME NEW body, Plain(body)
    PROVE  LET fs == FramesOf(body)
           IN  /\ fs \in Seq(Frame) /\ fs # << >> /\ fs[1].ev = "start" /\ Chained(fs)
               /\ fs[Len(fs)].ev = "end"
               /\ Open(0, body[1]) \in Range(fs)
               /\ \A f \in Range(fs) : f.ev = "open" => f.b \in Range(body)
<1> DEFINE n == Len(body)
           ss == [i \in DOMAIN body |-> BlockFrames(body[i], i - 1)]
<1>1. /\ body \in Seq(Held) /\ n \in Nat \ {0} /\ DOMAIN body = 1..n
      /\ \A i \in 1..n : /\ body[i] \in Held /\ i - 1 \in Nat
                         /\ body[i].k = "use" \/ body[i] = Text("final")
  BY PlainIs
<1>2. ss = [i \in 1..n |-> ss[i]] /\ \A i \in 1..n : ss[i] = BlockFrames(body[i], i - 1)
  BY <1>1
<1> HIDE DEF ss
<1>3. \A i \in 1..n : /\ ss[i] \in Seq(Frame) /\ ss[i] # << >> /\ Chained(ss[i])
                      /\ ss[i][1] = Open(i - 1, body[i]) /\ ss[i][Len(ss[i])].ev = "close"
                      /\ \A f \in Range(ss[i]) : f.ev = "open" => f.b = body[i]
  <2> TAKE i \in 1..n
  <2> DEFINE k == i - 1
             b == body[i]
             t == BlockFrames(b, k)
  <2>1. k \in Nat /\ b \in Held /\ (b.k = "use" \/ b = Text("final"))
    BY <1>1
  <2> HIDE DEF k, b
  <2>2. /\ t \in Seq(Frame) /\ t # << >> /\ Chained(t)
        /\ t[1] = Open(k, b) /\ t[Len(t)].ev = "close"
        /\ \A f \in Range(t) : f.ev = "open" => f.b = b
    BY <2>1, PlainBlock
  <2>3. ss[i] = t
    BY <1>2 DEF k, b
  <2> HIDE DEF t
  <2> QED
    BY <2>2, <2>3 DEF k, b
<1>4. Parts(ss, n, Frame)
  BY <1>2, <1>3 DEF Parts
<1> HIDE DEF n
<1>5. PICK f \in [0..n -> Seq(Frame)] : Joins(f, n, ss) /\ Joined(ss) = f[n]
  BY <1>1, <1>4, JoinedSteps
<1> DEFINE Good(t) == /\ t \in Seq(Frame) /\ t # << >> /\ Chained(t)
                      /\ t[1] = Open(0, body[1]) /\ t[Len(t)].ev = "close"
<1>6. \A i \in 0..n : i # 0 => Good(f[i])
  <2> DEFINE P == {i \in 0..n : i # 0 => Good(f[i])}
  <2>1. 0 \in P
    BY <1>1
  <2>2. ASSUME NEW i \in 0..n, i \in P, i < n
        PROVE  i + 1 \in P
    <3> DEFINE u == f[i]
               v == ss[i+1]
               w == f[i+1]
    <3>1. i + 1 \in 1..n /\ i + 1 \in 0..n /\ (i + 1) - 1 = i /\ i \in Nat
      BY <1>1, <2>2
    <3>2. w = u \o v
      BY <1>5, <3>1 DEF Joins
    <3>3. /\ v \in Seq(Frame) /\ v # << >> /\ Chained(v)
          /\ v[1] = Open(i, body[i+1]) /\ v[Len(v)].ev = "close"
      BY <1>3, <3>1
    <3>4. CASE i = 0
      <4>1. u = << >>
        BY <1>5, <3>4 DEF Joins
      <4> HIDE DEF v
      <4>2. w = v
        BY <3>2, <3>3, <4>1, ConcatEmptySeq
      <4> QED
        BY <3>1, <3>3, <3>4, <4>2
    <3>5. CASE i # 0
      <4>1. Good(u)
        BY <2>2, <3>5
      <4>2. Continues(u[Len(u)], v[1])
        BY <3>3, <4>1 DEF Continues, Open
      <4> HIDE DEF u, v, w
      <4>3. /\ u \o v \in Seq(Frame) /\ u \o v # << >> /\ Chained(u \o v)
            /\ (u \o v)[1] = u[1] /\ (u \o v)[Len(u \o v)] = v[Len(v)]
        BY <3>3, <4>1, <4>2, ConcatChained
      <4>4. Good(w)
        BY <3>2, <3>3, <4>1, <4>3
      <4> QED
        BY <3>1, <4>4 DEF w
    <3> QED
      BY <3>4, <3>5
  <2>3. \A i \in 0..n : i \in P
    <3> HIDE DEF P
    <3> QED
      BY <1>1, <2>1, <2>2, Induction
  <2> QED
    BY <2>3
<1> DEFINE a == <<[ev |-> "start"]>>
           m == Joined(ss)
           z == <<[ev |-> "end"]>>
<1>7. Good(m)
  <2>1. n \in 0..n /\ n # 0
    BY <1>1
  <2> QED
    BY <1>5, <1>6, <2>1
<1>8. /\ a \in Seq(Frame) /\ Len(a) = 1 /\ a # << >> /\ a[1].ev = "start" /\ Chained(a)
      /\ z \in Seq(Frame) /\ Len(z) = 1 /\ z # << >> /\ z[1].ev = "end" /\ Chained(z)
  <2>1. [ev |-> "start"] \in Frame /\ [ev |-> "end"] \in Frame
    BY DEF Frame
  <2>2. a \in Seq(Frame) /\ Len(a) = 1 /\ a # << >> /\ a[1].ev = "start"
        /\ z \in Seq(Frame) /\ Len(z) = 1 /\ z # << >> /\ z[1].ev = "end"
    BY <2>1
  <2>3. 2..1 = {}
    OBVIOUS
  <2> HIDE DEF a, z
  <2> QED
    BY <2>2, <2>3 DEF Chained
<1>9. FramesOf(body) = a \o m \o z
  BY DEF FramesOf, ss
<1>10. \A x : x \in Range(m) <=> \E i \in 1..n : x \in Range(ss[i])
  BY <1>1, <1>4, JoinedRange
<1> HIDE DEF a, m, z
<1> DEFINE am == a \o m
           fs == am \o z
<1>11. am \in Seq(Frame) /\ am # << >> /\ Chained(am) /\ am[1].ev = "start" /\ am[Len(am)].ev = "close"
  <2>1. Continues(a[Len(a)], m[1])
    BY <1>7, <1>8 DEF Continues, Open
  <2>2. /\ a \o m \in Seq(Frame) /\ a \o m # << >> /\ Chained(a \o m)
        /\ (a \o m)[1] = a[1] /\ (a \o m)[Len(a \o m)] = m[Len(m)]
    BY <1>7, <1>8, <2>1, ConcatChained
  <2> QED
    BY <1>7, <1>8, <2>2
<1> HIDE DEF am
<1>12. fs \in Seq(Frame) /\ fs # << >> /\ Chained(fs) /\ fs[1].ev = "start" /\ fs[Len(fs)].ev = "end"
  <2>1. Continues(am[Len(am)], z[1])
    BY <1>8, <1>11 DEF Continues
  <2>2. /\ am \o z \in Seq(Frame) /\ am \o z # << >> /\ Chained(am \o z)
        /\ (am \o z)[1] = am[1] /\ (am \o z)[Len(am \o z)] = z[Len(z)]
    BY <1>8, <1>11, <2>1, ConcatChained
  <2> QED
    BY <1>8, <1>11, <2>2
<1>13. \A x : x \in Range(fs) <=> x \in Range(a) \/ x \in Range(m) \/ x \in Range(z)
  <2>1. Range(am) = Range(a) \cup Range(m)
    BY <1>7, <1>8, ConcatRange DEF am
  <2>2. Range(fs) = Range(am) \cup Range(z)
    BY <1>8, <1>11, ConcatRange
  <2> QED
    BY <2>1, <2>2
<1>14. \A x : x \in Range(a) \/ x \in Range(z) => x.ev # "open"
  <2>1. Range(a) = {a[i] : i \in 1..1} /\ Range(z) = {z[i] : i \in 1..1}
    BY <1>8, SeqFacts
  <2>2. \A i \in 1..1 : i = 1
    OBVIOUS
  <2> QED
    BY <1>8, <2>1, <2>2
<1>15. \A x \in Range(fs) : x.ev = "open" => x.b \in Range(body)
  <2> SUFFICES ASSUME NEW x \in Range(fs), x.ev = "open"
               PROVE  x.b \in Range(body)
    OBVIOUS
  <2>1. PICK i \in 1..n : x \in Range(ss[i])
    BY <1>10, <1>13, <1>14
  <2>2. x.b = body[i]
    BY <1>3, <2>1
  <2> QED
    BY <1>1, <2>2 DEF Range
<1>16. Open(0, body[1]) \in Range(fs)
  <2>1. 1 \in 1..Len(m)
    <3>1. Len(m) \in Nat /\ (m # << >> => Len(m) # 0)
      BY <1>7, EmptySeq, LenProperties
    <3> QED
      BY <1>7, <3>1
  <2>2. m[1] \in Range(m)
    BY <1>7, <2>1, SeqFacts
  <2> QED
    BY <1>7, <1>13, <2>2
<1> QED
  BY <1>9, <1>12, <1>15, <1>16 DEF am

-----------------------------------------------------------------------------
(* What the readers of a stream that was held back see. *)

LEMMA ReadableNext ==
    ASSUME NEW s \in Seq(Item)
    PROVE  /\ Readable(s) \in Seq(Frame)
           /\ \A it \in Item : Range(Readable(Append(s, it))) =
                  Range(Readable(s)) \cup (IF it.part = "whole" THEN {it.f} ELSE {})
<1> DEFINE Is(t) == {j \in DOMAIN t : t[j].part = "whole"}
           W(t) == Picked(t, Is(t))
           F(w) == [j \in DOMAIN w |-> w[j].f]
<1>1. \A t \in Seq(Item) :
         Readable(t) = F(W(t)) /\ W(t) \in Seq(Item)
         /\ Range(W(t)) = {t[j] : j \in {l \in 1..Len(t) : t[l].part = "whole"}}
  <2> TAKE t \in Seq(Item)
  <2> DEFINE is == Is(t)
  <2>1. Readable(t) = F(W(t))
    BY DEF Readable
  <2>2. DOMAIN t = 1..Len(t)
    BY SeqFacts
  <2>3. is \cap 1..Len(t) = {l \in 1..Len(t) : t[l].part = "whole"}
    BY <2>2
  <2> HIDE DEF is
  <2>4. Picked(t, is) \in Seq(Item) /\ Range(Picked(t, is)) = {t[j] : j \in is \cap 1..Len(t)}
    BY PickedFacts
  <2> QED
    BY <2>1, <2>3, <2>4 DEF is
<1>2. \A w \in Seq(Item) : F(w) \in Seq(Frame) /\ Range(F(w)) = {x.f : x \in Range(w)}
  <2> TAKE w \in Seq(Item)
  <2> DEFINE n == Len(w)
             g == F(w)
  <2>1. /\ n \in Nat /\ DOMAIN w = 1..n /\ \A j \in 1..n : w[j] \in Item
        /\ Range(w) = {w[j] : j \in 1..n}
    BY SeqFacts
  <2>2. g = [j \in 1..n |-> g[j]] /\ \A j \in 1..n : g[j] = w[j].f
    BY <2>1
  <2>3. \A j \in 1..n : w[j].f \in Frame
    BY <2>1, ItemIs
  <2> HIDE DEF g, n
  <2>4. g \in [1..n -> Frame]
    BY <2>2, <2>3
  <2>5. g \in Seq(Frame) /\ DOMAIN g = 1..n
    BY <2>1, <2>4
  <2>6. Range(g) = {g[j] : j \in 1..n}
    BY <2>5 DEF Range
  <2>7. Range(g) = {x.f : x \in Range(w)}
    BY <2>1, <2>2, <2>6
  <2> QED
    BY <2>5, <2>7 DEF g
<1> HIDE DEF Is, W, F
<1>3. Readable(s) \in Seq(Frame)
  BY <1>1, <1>2
<1>4. ASSUME NEW it \in Item
      PROVE  Range(Readable(Append(s, it))) =
                 Range(Readable(s)) \cup (IF it.part = "whole" THEN {it.f} ELSE {})
  <2> DEFINE t == Append(s, it)
             n == Len(s)
  <2>1. /\ n \in Nat /\ t \in Seq(Item) /\ Len(t) = n + 1
        /\ \A j \in 1..n : t[j] = s[j]
        /\ t[n+1] = it
    BY AppendProperties, LenProperties
  <2> HIDE DEF t, n
  <2>2. Range(W(t)) = {t[j] : j \in {l \in 1..n+1 : t[l].part = "whole"}}
        /\ Range(W(s)) = {s[j] : j \in {l \in 1..n : s[l].part = "whole"}}
    BY <1>1, <2>1 DEF n
  <2>3. 1..n+1 = (1..n) \cup {n+1}
    BY <2>1
  <2>4. Range(W(t)) = Range(W(s)) \cup (IF it.part = "whole" THEN {it} ELSE {})
    BY <2>1, <2>2, <2>3
  <2>5. Range(Readable(t)) = {x.f : x \in Range(W(t))} /\ Range(Readable(s)) = {x.f : x \in Range(W(s))}
    BY <1>1, <1>2, <2>1
  <2>6. Range(Readable(t)) = Range(Readable(s)) \cup (IF it.part = "whole" THEN {it.f} ELSE {})
    BY <2>4, <2>5
  <2> QED
    BY <2>6 DEF t
<1> QED
  BY <1>3, <1>4

LEMMA ReadableNone == Readable(<< >>) = << >>
<1> DEFINE e == << >>
           w == Picked(e, {j \in DOMAIN e : e[j].part = "whole"})
<1>1. w = << >>
  BY PickedNone
<1>2. Readable(e) = [j \in DOMAIN w |-> w[j].f]
  BY DEF Readable
<1> HIDE DEF w
<1> QED
  BY <1>1, <1>2

\* What they see of the contents of blocks.
Told(items) == {f.b : f \in {g \in Range(Readable(items)) : g.ev = "delta"}}

LEMMA ToldIsHeld ==
    ASSUME NEW items \in Seq(Item), NEW b \in Told(items)
    PROVE  b \in Held /\ (b.k \in {"text", "think"} => b \in Sayable)
<1>1. PICK f \in Range(Readable(items)) : f.ev = "delta" /\ b = f.b
  BY DEF Told
<1>2. f \in Frame
  BY ReadableNext, SeqFacts
<1>3. b \in Held
  BY <1>1, <1>2, FrameIs
<1>4. \A x \in Written \cup Due : x.k = "use"
  BY DEF Written, CallAt, Due, Use, PlannedCall
<1> QED
  BY <1>3, <1>4 DEF Held

LEMMA TextSeenIs ==
    ASSUME NEW items \in Seq(Item), NEW kind
    PROVE  LET ts == TextSeen(items, kind)
           IN  /\ Len(ts) \in Nat /\ DOMAIN ts = 1..Len(ts)
               /\ ts # << >> => Len(ts) # 0 /\ Head(ts) = ts[1]
               /\ \A j \in 1..Len(ts) : \E b \in Told(items) : b.k = kind /\ b.t = ts[j]
               /\ Readable(items) = << >> => ts = << >>
<1> DEFINE fs == Readable(items)
           is == {j \in DOMAIN fs : fs[j].ev = "delta" /\ fs[j].b.k = kind}
           deltas == Picked(fs, is)
           ts == [j \in DOMAIN deltas |-> deltas[j].b.t]
           n == Len(deltas)
<1>1. TextSeen(items, kind) = ts
  BY DEF TextSeen
<1>2. fs \in Seq(Frame)
  BY ReadableNext
<1>3. \A j \in is : fs[j].ev = "delta" /\ fs[j].b.k = kind
  OBVIOUS
<1> HIDE DEF fs, is
<1>4. deltas \in Seq(Frame) /\ Range(deltas) = {fs[j] : j \in is \cap 1..Len(fs)}
  BY <1>2, PickedFacts
<1>5. fs = << >> => deltas = << >>
  BY PickedNone
<1> HIDE DEF deltas
<1>6. n \in Nat /\ DOMAIN deltas = 1..n /\ Range(deltas) = {deltas[j] : j \in 1..n}
  BY <1>4, SeqFacts
<1>7. ts = [j \in 1..n |-> ts[j]] /\ \A j \in 1..n : ts[j] = deltas[j].b.t
  BY <1>6
<1>8. fs = << >> => ts = << >>
  BY <1>5
<1> HIDE DEF ts, n
<1>9. Len(ts) = n /\ DOMAIN ts = 1..n /\ ts \in Seq(Range(ts))
  BY <1>6, <1>7, FunctionIsSeq
<1>10. ts # << >> => Len(ts) # 0 /\ Head(ts) = ts[1]
  BY <1>9, EmptySeq
<1>11. ASSUME NEW j \in 1..n
       PROVE  \E b \in Told(items) : b.k = kind /\ b.t = ts[j]
  <2>1. PICK l \in is \cap 1..Len(fs) : deltas[j] = fs[l]
    BY <1>4, <1>6
  <2>2. fs[l] \in Range(fs)
    BY <1>2, <2>1, SeqFacts
  <2>3. fs[l].b \in Told(items) /\ fs[l].b.k = kind
    BY <1>3, <2>1, <2>2 DEF Told, fs
  <2> QED
    BY <1>7, <2>1, <2>3
<1> QED
  BY <1>1, <1>6, <1>8, <1>9, <1>10, <1>11 DEF fs

-----------------------------------------------------------------------------
(* What they answer. *)

LEMMA FirstOfIs ==
    ASSUME NEW n \in Nat, NEW bodies, DOMAIN bodies = 1..n
    PROVE  \/ FirstOf(bodies) = NoMessage /\ \A i \in 1..n : bodies[i] = NoMessage
           \/ \E i \in 1..n : /\ bodies[i] # NoMessage /\ FirstOf(bodies) = bodies[i]
                              /\ \A j \in 1..(i-1) : bodies[j] = NoMessage
<1> DEFINE some == {i \in DOMAIN bodies : bodies[i] # NoMessage}
<1>1. FirstOf(bodies) = IF some = {} THEN NoMessage ELSE bodies[Min(some)]
  BY DEF FirstOf
<1>2. some \subseteq Nat /\ \A i : i \in some <=> i \in 1..n /\ bodies[i] # NoMessage
  OBVIOUS
<1> HIDE DEF some
<1>3. CASE some = {}
  BY <1>1, <1>2, <1>3
<1>4. CASE some # {}
  <2>1. \E x \in some : \A y \in some : x <= y
    BY <1>2, <1>4, Least
  <2> DEFINE i == Min(some)
  <2>2. i \in some /\ \A y \in some : i <= y
    BY <2>1 DEF Min
  <2>3. FirstOf(bodies) = bodies[i]
    BY <1>1, <1>4
  <2> HIDE DEF i
  <2>4. i \in 1..n /\ bodies[i] # NoMessage
    BY <1>2, <2>2
  <2>5. \A j \in 1..(i-1) : bodies[j] = NoMessage
    <3> TAKE j \in 1..(i-1)
    <3>1. j \in 1..n /\ ~(i <= j)
      BY <2>4
    <3> QED
      BY <1>2, <2>2, <3>1
  <2> QED
    BY <2>3, <2>4, <2>5
<1> QED
  BY <1>3, <1>4

LEMMA OnePlain ==
    ASSUME NEW b \in Held, b.k = "use" \/ b = Text("final")
    PROVE  LET one == <<b>> IN Plain(one) /\ Range(one) = {b} /\ one # NoMessage /\ one[1] = b
<1> DEFINE one == <<b>>
<1>1. one = [i \in 1..1 |-> one[i]] /\ DOMAIN one = 1..1 /\ one[1] = b /\ one # << >>
  OBVIOUS
<1>2. \A i \in 1..1 : i = 1
  OBVIOUS
<1> HIDE DEF one
<1>3. Range(one) = {b}
  BY <1>1, <1>2 DEF Range
<1>4. Plain(one)
  BY <1>1, <1>2 DEF Plain
<1> QED
  BY <1>1, <1>3, <1>4 DEF one, NoMessage

\* Calls in what the model said.
LEMMA WrittenIs ==
    ASSUME NEW items \in Seq(Item), NEW r \in Requests
    PROVE  /\ Readable(items) = << >> => WrittenCalls(items, r) = NoMessage
           /\ WrittenCalls(items, r) # NoMessage =>
                 /\ Plain(WrittenCalls(items, r))
                 /\ \A b \in Range(WrittenCalls(items, r)) : b.k = "use"
                 /\ \E b \in Told(items) : b.k \in {"text", "think"} /\ Marks[b.t] # {}
<1> DEFINE calls(kind) ==
              IF TextSeen(items, kind) = << >> THEN << >>
              ELSE CallsOf(Extracted(Head(TextSeen(items, kind)), r))
<1>1. WrittenCalls(items, r) = IF calls("text") # << >> THEN calls("text") ELSE calls("think")
  BY DEF WrittenCalls
<1>2. ASSUME NEW kind \in {"text", "think"}
      PROVE  /\ Readable(items) = << >> => calls(kind) = << >>
             /\ calls(kind) # << >> =>
                   /\ Plain(calls(kind))
                   /\ \A b \in Range(calls(kind)) : b.k = "use"
                   /\ \E b \in Told(items) : b.k = kind /\ Marks[b.t] # {}
  <2> DEFINE ts == TextSeen(items, kind)
             t == Head(ts)
             ex == Extracted(t, r)
             cs == CallsOf(ex)
             found == {m \in AllMarks : m \in Marks[t] /\ Recognised(m, r)}
             n == Cardinality(found)
  <2>1. /\ ts # << >> => Len(ts) \in Nat /\ Len(ts) # 0 /\ Head(ts) = ts[1]
        /\ \A j \in 1..Len(ts) : \E b \in Told(items) : b.k = kind /\ b.t = ts[j]
        /\ Readable(items) = << >> => ts = << >>
    BY TextSeenIs
  <2>2. calls(kind) = IF ts = << >> THEN << >> ELSE cs
    OBVIOUS
  <2>3. IsFiniteSet(found) /\ n \in Nat
    <3>1. IsFiniteSet(found)
      BY MarksAssumption, FS_Subset
    <3> QED
      BY <3>1, FS_CardinalityType
  <2>4. n # 0 => Marks[t] # {}
    <3>1. found = {} => n = 0
      BY FS_EmptySet
    <3>2. found # {} => Marks[t] # {}
      OBVIOUS
    <3> HIDE DEF found, n
    <3> QED
      BY <3>1, <3>2
  <2>5. DOMAIN ex = 1..n
    BY DEF Extracted
  <2> HIDE DEF ts, t, ex, found, n
  <2>6. cs = [i \in 1..n |-> cs[i]] /\ \A i \in 1..n : cs[i] = Use(ex[i].tool, ex[i].step, TRUE)
    BY <2>5 DEF CallsOf
  <2> HIDE DEF cs, calls
  <2>7. ASSUME ts # << >>, cs # << >>
        PROVE  /\ Plain(cs) /\ \A b \in Range(cs) : b.k = "use"
               /\ \E b \in Told(items) : b.k = kind /\ Marks[b.t] # {}
    <3>1. PICK b \in Told(items) : b.k = kind /\ b.t = t
      <4>1. 1 \in 1..Len(ts)
        BY <2>1, <2>7
      <4> QED
        BY <2>1, <2>7, <4>1 DEF t
    <3>2. b \in Sayable
      BY <3>1, ToldIsHeld
    <3>3. n # 0
      <4> SUFFICES ASSUME n = 0
                   PROVE  FALSE
        OBVIOUS
      <4>1. cs = << >>
        BY <2>6
      <4> QED
        BY <2>7, <4>1
    <3>4. ASSUME NEW i \in 1..n
          PROVE  cs[i] \in Held /\ cs[i].k = "use"
      <4>1. cs[i] = CallAt(b, r, i)
        BY <2>6, <3>1 DEF ex, CallAt
      <4>2. i \in Nat
        BY <2>3
      <4>3. cs[i] \in Written
        BY <3>2, <4>1, <4>2 DEF Written
      <4>4. cs[i].k = "use"
        BY <4>1 DEF CallAt, Use
      <4> QED
        BY <4>3, <4>4 DEF Held
    <3>5. Plain(cs)
      BY <2>3, <2>6, <3>3, <3>4 DEF Plain
    <3>6. \A x \in Range(cs) : x.k = "use"
      <4>1. Range(cs) = {cs[i] : i \in 1..n}
        BY <2>6 DEF Range
      <4> QED
        BY <3>4, <4>1
    <3> QED
      BY <2>4, <3>1, <3>3, <3>5, <3>6
  <2>8. CASE ts = << >>
    BY <2>2, <2>8
  <2>9. CASE ts # << >>
    BY <2>1, <2>2, <2>7, <2>9
  <2> QED
    BY <2>8, <2>9
<1> HIDE DEF calls
<1> QED
  BY <1>1, <1>2 DEF NoMessage

\* What a reader may answer to what it saw.
AgentCall == Use("Agent", 0, TRUE)
BashCall  == Use("Bash", 0, TRUE)
AgentWanted(r) == "Agent" \in r.tools /\ r.agent = "call"
Answer(items, r, body) ==
    \/ body = <<PlannedCall(r)>>
    \/ body = <<AgentCall>> /\ AgentWanted(r)
    \/ body = WrittenCalls(items, r) /\ body # NoMessage
    \/ body = <<BashCall>> /\ IsCommand(SaidSeen(items))
    \/ body = <<Text("final")>> /\ ~Replaceable(r)

LEMMA PlannedIs ==
    ASSUME NEW r
    PROVE  Replaceable(r) <=> \/ CommandTool(r) /\ IsPlanned(r, "Bash")
                              \/ IsPlanned(r, "Read")
BY DEF Replaceable, CommandTool, IsPlanned

LEMMA NativeOrPlannedIs ==
    ASSUME NEW items, NEW r
    PROVE  /\ \/ NativeOrPlanned(items, r) = NoMessage
              \/ Answer(items, r, NativeOrPlanned(items, r))
           /\ CallsSeen(items) # {} => NativeOrPlanned(items, r) = NoMessage
           /\ CallsSeen(items) = {} /\ IsPlanned(r, "Read") => NativeOrPlanned(items, r) # NoMessage
           /\ WrittenCalls(items, r) = NoMessage /\ ~IsPlanned(r, "Read") /\ ~AgentWanted(r) =>
                  NativeOrPlanned(items, r) = NoMessage
<1> DEFINE planned == <<PlannedCall(r)>>
           called == <<AgentCall>>
           read == IF IsPlanned(r, "Read") THEN planned ELSE NoMessage
           agent == IF "Agent" \in r.tools /\ r.agent = "call" THEN called ELSE NoMessage
           written == WrittenCalls(items, r)
           all == <<written, read, agent>>
<1>1. NativeOrPlanned(items, r) = IF CallsSeen(items) # {} THEN NoMessage ELSE FirstOf(all)
  BY DEF NativeOrPlanned, AgentCall
<1>2. /\ IsPlanned(r, "Read") => read = planned
      /\ ~IsPlanned(r, "Read") => read = NoMessage
      /\ AgentWanted(r) => agent = called
      /\ ~AgentWanted(r) => agent = NoMessage
  BY DEF AgentWanted
<1>3. planned # NoMessage
  BY DEF NoMessage
<1> HIDE DEF read, agent, written
<1>4. DOMAIN all = 1..3 /\ all[1] = written /\ all[2] = read /\ all[3] = agent
  OBVIOUS
<1> HIDE DEF all
<1>5. \/ FirstOf(all) = NoMessage /\ \A i \in 1..3 : all[i] = NoMessage
      \/ \E i \in 1..3 : all[i] # NoMessage /\ FirstOf(all) = all[i]
  BY <1>4, FirstOfIs
<1>6. \A i \in 1..3 : i = 1 \/ i = 2 \/ i = 3
  OBVIOUS
<1>7. \/ FirstOf(all) = NoMessage /\ written = NoMessage /\ read = NoMessage /\ agent = NoMessage
      \/ FirstOf(all) = written /\ written # NoMessage
      \/ FirstOf(all) = read /\ read # NoMessage
      \/ FirstOf(all) = agent /\ agent # NoMessage
  BY <1>4, <1>5, <1>6
<1> HIDE DEF planned, called
<1>8. FirstOf(all) = NoMessage \/ Answer(items, r, FirstOf(all))
  BY <1>2, <1>7 DEF Answer, written, planned, called
<1> QED
  BY <1>1, <1>2, <1>3, <1>7, <1>8 DEF written

LEMMA CommandIs ==
    ASSUME NEW items, NEW r
    PROVE  /\ Command(items, r) = NoMessage \/ Answer(items, r, Command(items, r))
           /\ CallsSeen(items) # {} => Command(items, r) = NoMessage
           /\ CallsSeen(items) = {} /\ CommandTool(r) /\ IsPlanned(r, "Bash") =>
                  Command(items, r) # NoMessage
           /\ ~IsCommand(SaidSeen(items)) /\ ~IsPlanned(r, "Bash") =>
                  Command(items, r) = NoMessage
<1> DEFINE planned == <<PlannedCall(r)>>
           bash == <<BashCall>>
<1>1. Command(items, r) = IF ~CommandTool(r) \/ CallsSeen(items) # {} THEN NoMessage
                          ELSE IF IsCommand(SaidSeen(items)) THEN bash
                          ELSE IF IsPlanned(r, "Bash") THEN planned ELSE NoMessage
  BY DEF Command, BashCall
<1>2. planned # NoMessage /\ bash # NoMessage
  BY DEF NoMessage
<1> HIDE DEF planned, bash
<1> QED
  BY <1>1, <1>2 DEF Answer, planned, bash

LEMMA PlannedRewriteIs ==
    ASSUME NEW items, NEW r
    PROVE  /\ \/ PlannedRewrite(items, r) = NoMessage
              \/ Answer(items, r, PlannedRewrite(items, r))
           /\ ~Replaceable(r) => PlannedRewrite(items, r) = NoMessage
           /\ Replaceable(r) /\ PlannedRewrite(items, r) = NoMessage =>
                  \A i : CallsSeen(items) = {i} => AsPlanned(SeenCall(items, i), r)
<1> DEFINE planned == <<PlannedCall(r)>>
           Off == \E i \in CallsSeen(items) :
                      CallsSeen(items) = {i} /\ ~AsPlanned(SeenCall(items, i), r)
<1>1. PlannedRewrite(items, r) = IF Replaceable(r) /\ Off THEN planned ELSE NoMessage
  BY DEF PlannedRewrite
<1>2. planned # NoMessage
  BY DEF NoMessage
<1>3. ~Off => \A i : CallsSeen(items) = {i} => AsPlanned(SeenCall(items, i), r)
  OBVIOUS
<1> HIDE DEF planned, Off
<1> QED
  BY <1>1, <1>2, <1>3 DEF Answer, planned

LEMMA LateIs ==
    ASSUME NEW items, NEW r
    PROVE  /\ LateAnswer(items, r) = NoMessage \/ Answer(items, r, LateAnswer(items, r))
           /\ LateAnswer(items, r) = NoMessage <=>
                 /\ PlannedRewrite(items, r) = NoMessage /\ NativeOrPlanned(items, r) = NoMessage
                 /\ Command(items, r) = NoMessage /\ FinalText(items, r) = NoMessage
<1> DEFINE a == PlannedRewrite(items, r)
           b == NativeOrPlanned(items, r)
           c == Command(items, r)
           d == FinalText(items, r)
           all == <<a, b, c, d>>
           closing == <<Text("final")>>
<1>1. LateAnswer(items, r) = FirstOf(all)
  BY DEF LateAnswer
<1>2. \/ d = NoMessage
      \/ d = closing /\ CallsSeen(items) = {}
  BY DEF FinalText
<1> HIDE DEF a, b, c, d, closing
<1>3. DOMAIN all = 1..4 /\ all[1] = a /\ all[2] = b /\ all[3] = c /\ all[4] = d
  OBVIOUS
<1> HIDE DEF all
<1>4. \/ FirstOf(all) = NoMessage /\ \A i \in 1..4 : all[i] = NoMessage
      \/ \E i \in 1..4 : /\ all[i] # NoMessage /\ FirstOf(all) = all[i]
                         /\ \A j \in 1..(i-1) : all[j] = NoMessage
  BY <1>3, FirstOfIs
<1>5. \/ FirstOf(all) = NoMessage /\ a = NoMessage /\ b = NoMessage /\ c = NoMessage /\ d = NoMessage
      \/ FirstOf(all) = a /\ a # NoMessage
      \/ FirstOf(all) = b /\ b # NoMessage
      \/ FirstOf(all) = c /\ c # NoMessage
      \/ FirstOf(all) = d /\ d # NoMessage /\ b = NoMessage /\ c = NoMessage
  <2>1. CASE FirstOf(all) = NoMessage /\ \A i \in 1..4 : all[i] = NoMessage
    BY <1>3, <2>1
  <2>2. ASSUME NEW i \in 1..4, all[i] # NoMessage, FirstOf(all) = all[i],
               \A j \in 1..(i-1) : all[j] = NoMessage
        PROVE  \/ FirstOf(all) = a /\ a # NoMessage
               \/ FirstOf(all) = b /\ b # NoMessage
               \/ FirstOf(all) = c /\ c # NoMessage
               \/ FirstOf(all) = d /\ d # NoMessage /\ b = NoMessage /\ c = NoMessage
    <3>1. i = 1 \/ i = 2 \/ i = 3 \/ i = 4
      OBVIOUS
    <3>2. i = 4 => 2 \in 1..(i-1) /\ 3 \in 1..(i-1)
      OBVIOUS
    <3> QED
      BY <1>3, <2>2, <3>1, <3>2
  <2> QED
    BY <1>4, <2>1, <2>2
<1>6. a = NoMessage \/ Answer(items, r, a)
  BY PlannedRewriteIs DEF a
<1>7. b = NoMessage \/ Answer(items, r, b)
  BY NativeOrPlannedIs DEF b
<1>8. c = NoMessage \/ Answer(items, r, c)
  BY CommandIs DEF c
<1>9. d # NoMessage /\ b = NoMessage /\ c = NoMessage => Answer(items, r, d)
  <2> SUFFICES ASSUME d # NoMessage, b = NoMessage, c = NoMessage
               PROVE  Answer(items, r, d)
    OBVIOUS
  <2>1. d = closing /\ CallsSeen(items) = {}
    BY <1>2
  <2>2. ~IsPlanned(r, "Read")
    BY <2>1, NativeOrPlannedIs DEF b
  <2>3. ~(CommandTool(r) /\ IsPlanned(r, "Bash"))
    BY <2>1, CommandIs DEF c
  <2>4. ~Replaceable(r)
    BY <2>2, <2>3, PlannedIs
  <2> QED
    BY <2>1, <2>4 DEF Answer, closing
<1> QED
  BY <1>1, <1>5, <1>6, <1>7, <1>8, <1>9 DEF a, b, c, d

\* An early answer is about a stream of which nothing was seen.
LEMMA EarlyIs ==
    ASSUME NEW items, NEW r
    PROVE  /\ \/ EarlyAnswer(items, r) = NoMessage
              \/ Answer(items, r, EarlyAnswer(items, r))
              \/ Answer(<< >>, r, EarlyAnswer(items, r))
           /\ PlannedRewrite(items, r) = NoMessage /\ NativeOrPlanned(<< >>, r) = NoMessage
              /\ Command(<< >>, r) = NoMessage => EarlyAnswer(items, r) = NoMessage
<1> DEFINE a == PlannedRewrite(items, r)
           b == NativeOrPlanned(<< >>, r)
           c == Command(<< >>, r)
           all == <<a, b, c>>
<1>1. EarlyAnswer(items, r) = FirstOf(all)
  BY DEF EarlyAnswer
<1> HIDE DEF a, b, c
<1>2. DOMAIN all = 1..3 /\ all[1] = a /\ all[2] = b /\ all[3] = c
  OBVIOUS
<1> HIDE DEF all
<1>3. \/ FirstOf(all) = NoMessage
      \/ \E i \in 1..3 : all[i] # NoMessage /\ FirstOf(all) = all[i]
  BY <1>2, FirstOfIs
<1>4. \A i \in 1..3 : i = 1 \/ i = 2 \/ i = 3
  OBVIOUS
<1>5. \/ FirstOf(all) = NoMessage
      \/ FirstOf(all) = a /\ a # NoMessage
      \/ FirstOf(all) = b /\ b # NoMessage
      \/ FirstOf(all) = c /\ c # NoMessage
  BY <1>2, <1>3, <1>4
<1>6. a = NoMessage \/ Answer(items, r, a)
  BY PlannedRewriteIs DEF a
<1>7. b = NoMessage \/ Answer(<< >>, r, b)
  BY NativeOrPlannedIs DEF b
<1>8. c = NoMessage \/ Answer(<< >>, r, c)
  BY CommandIs DEF c
<1> QED
  BY <1>1, <1>5, <1>6, <1>7, <1>8 DEF a, b, c

\* Of what was said a command is seen as text.
LEMMA CommandSeen ==
    ASSUME NEW items \in Seq(Item), IsCommand(SaidSeen(items))
    PROVE  \E b \in Told(items) : b.k \in {"text", "think"} /\ b.t = "command"
<1> DEFINE said == SaidSeen(items)
           one == <<"command">>
<1>1. PICK kind \in {"text", "think"} : said = TextSeen(items, kind)
  BY DEF SaidSeen
<1>2. said = one
  BY DEF IsCommand
<1>3. Len(one) = 1 /\ one[1] = "command"
  OBVIOUS
<1> HIDE DEF said, one
<1>4. \A j \in 1..Len(said) : \E b \in Told(items) : b.k = kind /\ b.t = said[j]
  BY <1>1, TextSeenIs
<1>5. 1 \in 1..Len(said) /\ said[1] = "command"
  BY <1>2, <1>3
<1> QED
  BY <1>4, <1>5

\* An answer is calls or the closing text, and made of what is planned, wanted
\* or said.
LEMMA AnswerIs ==
    ASSUME NEW items \in Seq(Item), NEW r \in Requests, NEW body, Answer(items, r, body)
    PROVE  /\ Plain(body) /\ body # NoMessage
           /\ Replaceable(r) =>
                 \A b \in Range(body) :
                     /\ b.k = "use"
                     /\ \/ AsPlanned(b, r)
                        \/ AgentWanted(r)
                        \/ \E x \in Told(items) : /\ x.k \in {"text", "think"}
                                                  /\ Marks[x.t] # {} \/ x.t = "command"
<1> DEFINE p == PlannedCall(r)
           c == Text("final")
<1>1. /\ p \in Held /\ AgentCall \in Held /\ BashCall \in Held /\ c \in Held
      /\ p.k = "use" /\ AgentCall.k = "use" /\ BashCall.k = "use" /\ AsPlanned(p, r)
  BY DEF Held, Due, Sayable, AgentCall, BashCall, Use, PlannedCall, AsPlanned
<1> HIDE DEF p, c
<1>2. CASE body = <<p>>
  <2>1. Plain(<<p>>) /\ Range(<<p>>) = {p} /\ <<p>> # NoMessage
    BY <1>1, OnePlain
  <2> QED
    BY <1>1, <1>2, <2>1
<1>3. CASE body = <<AgentCall>> /\ AgentWanted(r)
  <2>1. Plain(<<AgentCall>>) /\ Range(<<AgentCall>>) = {AgentCall} /\ <<AgentCall>> # NoMessage
    BY <1>1, OnePlain
  <2> QED
    BY <1>1, <1>3, <2>1
<1>4. CASE body = WrittenCalls(items, r) /\ body # NoMessage
  BY <1>4, WrittenIs
<1>5. CASE body = <<BashCall>> /\ IsCommand(SaidSeen(items))
  <2>1. Plain(<<BashCall>>) /\ Range(<<BashCall>>) = {BashCall} /\ <<BashCall>> # NoMessage
    BY <1>1, OnePlain
  <2>2. \E x \in Told(items) : x.k \in {"text", "think"} /\ x.t = "command"
    BY <1>5, CommandSeen
  <2> QED
    BY <1>1, <1>5, <2>1, <2>2
<1>6. CASE body = <<c>> /\ ~Replaceable(r)
  <2>1. Plain(<<c>>) /\ <<c>> # NoMessage
    <3>1. c.k = "use" \/ c = Text("final")
      BY DEF c
    <3> QED
      BY <1>1, <3>1, OnePlain
  <2> QED
    BY <1>6, <2>1
<1> QED
  BY <1>2, <1>3, <1>4, <1>5, <1>6 DEF Answer, p, c

\* Of an empty buffer nothing is seen.
LEMMA SeenNone ==
    ASSUME NEW r \in Requests
    PROVE  /\ << >> \in Seq(Item) /\ Told(<< >>) = {} /\ CallsSeen(<< >>) = {}
           /\ WrittenCalls(<< >>, r) = NoMessage /\ ~IsCommand(SaidSeen(<< >>))
<1> DEFINE e == << >>
<1>1. e \in Seq(Item) /\ Readable(e) = e
  BY ReadableNone
<1>2. Range(e) = {}
  BY DEF Range
<1> HIDE DEF e
<1>3. Told(e) = {}
  BY <1>1, <1>2 DEF Told
<1>4. CallsSeen(e) = {}
  BY <1>1, <1>2 DEF CallsSeen
<1>5. WrittenCalls(e, r) = NoMessage
  BY <1>1, WrittenIs DEF e
<1>6. ~IsCommand(SaidSeen(e))
  BY <1>1, <1>3, CommandSeen
<1> QED
  BY <1>1, <1>3, <1>4, <1>5, <1>6 DEF e

\* What is answered in the place of a stream.
LEMMA AnswersAre ==
    ASSUME NEW items \in Seq(Item), NEW r \in Requests,
           NEW body \in {EarlyAnswer(items, r), LateAnswer(items, r)}, body # NoMessage
    PROVE  /\ Plain(body)
           /\ Replaceable(r) =>
                 \A b \in Range(body) :
                     /\ b.k = "use"
                     /\ \/ AsPlanned(b, r)
                        \/ AgentWanted(r)
                        \/ \E x \in Told(items) : /\ x.k \in {"text", "think"}
                                                  /\ Marks[x.t] # {} \/ x.t = "command"
<1>1. Answer(items, r, body) \/ Answer(<< >>, r, body)
  BY EarlyIs, LateIs
<1>2. CASE Answer(items, r, body)
  BY <1>2, AnswerIs
<1>3. CASE Answer(<< >>, r, body)
  <2> DEFINE e == << >>
  <2>1. e \in Seq(Item) /\ Told(e) = {} /\ Answer(e, r, body)
    BY <1>3, SeenNone
  <2> HIDE DEF e
  <2>2. /\ Plain(body)
        /\ Replaceable(r) =>
              \A b \in Range(body) :
                  /\ b.k = "use"
                  /\ \/ AsPlanned(b, r)
                     \/ AgentWanted(r)
                     \/ \E x \in Told(e) : /\ x.k \in {"text", "think"}
                                           /\ Marks[x.t] # {} \/ x.t = "command"
    BY <2>1, AnswerIs
  <2> QED
    BY <2>1, <2>2
<1> QED
  BY <1>1, <1>2, <1>3

\* Nothing is, where nothing is planned and a call was seen.
LEMMA NoAnswers ==
    ASSUME NEW items \in Seq(Item), NEW r \in Requests, ~Replaceable(r)
    PROVE  /\ CallsSeen(items) # {} => LateAnswer(items, r) = NoMessage
           /\ ~AgentWanted(r) => EarlyAnswer(items, r) = NoMessage
<1>1. ~IsPlanned(r, "Bash") /\ ~IsPlanned(r, "Read")
  BY DEF Replaceable
<1>2. PlannedRewrite(items, r) = NoMessage
  BY PlannedRewriteIs
<1>3. ASSUME CallsSeen(items) # {}
      PROVE  LateAnswer(items, r) = NoMessage
  <2>1. NativeOrPlanned(items, r) = NoMessage
    BY <1>3, NativeOrPlannedIs
  <2>2. Command(items, r) = NoMessage
    BY <1>3, CommandIs
  <2>3. FinalText(items, r) = NoMessage
    BY <1>3 DEF FinalText
  <2> QED
    BY <1>2, <2>1, <2>2, <2>3, LateIs
<1>4. ASSUME ~AgentWanted(r)
      PROVE  EarlyAnswer(items, r) = NoMessage
  <2> DEFINE e == << >>
  <2>1. WrittenCalls(e, r) = NoMessage /\ ~IsCommand(SaidSeen(e))
    BY SeenNone
  <2> HIDE DEF e
  <2>2. NativeOrPlanned(e, r) = NoMessage
    BY <1>1, <1>4, <2>1, NativeOrPlannedIs
  <2>3. Command(e, r) = NoMessage
    BY <1>1, <2>1, CommandIs
  <2> QED
    BY <1>2, <2>2, <2>3, EarlyIs DEF e
<1> QED
  BY <1>3, <1>4

\* Where a call is planned and the stream stands, it holds a call, the planned
\* one if it is alone.
LEMMA StreamStands ==
    ASSUME NEW items, NEW r, Replaceable(r), LateAnswer(items, r) = NoMessage
    PROVE  /\ CallsSeen(items) # {}
           /\ \A i : CallsSeen(items) = {i} => AsPlanned(SeenCall(items, i), r)
<1>1. /\ PlannedRewrite(items, r) = NoMessage /\ NativeOrPlanned(items, r) = NoMessage
      /\ Command(items, r) = NoMessage
  BY LateIs
<1>2. \A i : CallsSeen(items) = {i} => AsPlanned(SeenCall(items, i), r)
  BY <1>1, PlannedRewriteIs
<1>3. CallsSeen(items) = {} => ~IsPlanned(r, "Read")
  BY <1>1, NativeOrPlannedIs
<1>4. CallsSeen(items) = {} => ~(CommandTool(r) /\ IsPlanned(r, "Bash"))
  BY <1>1, CommandIs
<1> QED
  BY <1>2, <1>3, <1>4, PlannedIs

-----------------------------------------------------------------------------
(* What the client is given. *)

LEMMA PrefixIs ==
    ASSUME NEW T, NEW s \in Seq(T), NEW t \in Seq(T)
    PROVE  IsPrefix(s, t) <=> Len(s) <= Len(t) /\ \A i \in 1..Len(s) : s[i] = t[i]
<1> DEFINE n == Len(s)
           u == SubSeq(s, 1, n)
           v == SubSeq(t, 1, n)
<1>1. n \in Nat /\ Len(t) \in Nat
  BY LenProperties
<1>2. IsPrefix(s, t) <=> n <= Len(t) /\ u = v
  BY DEF IsPrefix
<1>3. u = s
  BY SubSeqFrom
<1>4. ASSUME n <= Len(t)
      PROVE  s = v <=> \A i \in 1..n : s[i] = t[i]
  <2>1. n \in 0..Len(t)
    BY <1>1, <1>4
  <2> HIDE DEF n
  <2>2. v \in Seq(T) /\ Len(v) = n /\ \A i \in 1..n : v[i] = t[i]
    BY <2>1, SubSeqFrom
  <2> HIDE DEF v
  <2>3. (\A i \in 1..n : s[i] = v[i]) => s = v
    BY <2>2, SeqEqual DEF n
  <2> QED
    BY <2>2, <2>3
<1> HIDE DEF u, v, n
<1> QED
  BY <1>2, <1>3, <1>4 DEF n

LEMMA PrefixConcat ==
    ASSUME NEW T, NEW s \in Seq(T), NEW t \in Seq(T)
    PROVE  IsPrefix(s, s \o t)
<1> DEFINE u == s \o t
<1>1. /\ u \in Seq(T) /\ Len(u) = Len(s) + Len(t) /\ Len(s) \in Nat /\ Len(t) \in Nat
      /\ \A i \in 1..Len(u) : u[i] = IF i <= Len(s) THEN s[i] ELSE t[i - Len(s)]
  BY ConcatProperties, LenProperties
<1> HIDE DEF u
<1>2. Len(s) <= Len(u) /\ \A i \in 1..Len(s) : s[i] = u[i]
  BY <1>1
<1>3. IsPrefix(s, u)
  BY <1>1, <1>2, PrefixIs
<1> QED
  BY <1>3 DEF u

LEMMA PrefixAppend ==
    ASSUME NEW T, NEW s \in Seq(T), NEW t \in Seq(T), NEW e \in T, IsPrefix(s, t)
    PROVE  IsPrefix(s, Append(t, e))
<1> DEFINE u == Append(t, e)
<1>1. /\ u \in Seq(T) /\ Len(u) = Len(t) + 1 /\ Len(s) \in Nat /\ Len(t) \in Nat
      /\ \A i \in 1..Len(t) : u[i] = t[i]
  BY AppendProperties, LenProperties
<1>2. Len(s) <= Len(t) /\ \A i \in 1..Len(s) : s[i] = t[i]
  BY PrefixIs
<1> HIDE DEF u
<1>3. Len(s) <= Len(u) /\ \A i \in 1..Len(s) : s[i] = u[i]
  BY <1>1, <1>2
<1>4. IsPrefix(s, u)
  BY <1>1, <1>3, PrefixIs
<1> QED
  BY <1>4 DEF u

LEMMA PrefixSame ==
    ASSUME NEW T, NEW s \in Seq(T)
    PROVE  IsPrefix(s, s)
<1>1. Len(s) \in Nat
  BY LenProperties
<1> QED
  BY <1>1, PrefixIs

\* What is moved from the head of a sequence to the end of the one before it.
LEMMA HeadMoved ==
    ASSUME NEW T, NEW s \in Seq(T), NEW q \in Seq(T), q # << >>
    PROVE  /\ Append(s, Head(q)) \o Tail(q) = s \o q
           /\ Head(q) \in T /\ Tail(q) \in Seq(T) /\ Head(q) = q[1]
           /\ Len(Tail(q)) = Len(q) - 1 /\ Len(q) \in Nat /\ Len(q) # 0
           /\ \A i \in 1..Len(Tail(q)) : Tail(q)[i] = q[i+1]
<1> DEFINE h == Head(q)
           r == Tail(q)
           a == Append(s, h)
           u == a \o r
           v == s \o q
<1>1. /\ Len(q) \in Nat /\ Len(q) # 0 /\ Len(s) \in Nat
  BY LenProperties, EmptySeq
<1>2. h \in T /\ h = q[1]
  BY HeadTailProperties, SeqFacts, <1>1
<1>3. r \in Seq(T) /\ Len(r) = Len(q) - 1 /\ \A i \in 1..Len(r) : r[i] = q[i+1]
  BY HeadTailProperties
<1> HIDE DEF h, r
<1>4. /\ a \in Seq(T) /\ Len(a) = Len(s) + 1 /\ \A i \in 1..Len(s) : a[i] = s[i]
      /\ a[Len(s) + 1] = h
  BY <1>2, AppendProperties
<1> HIDE DEF a
<1>5. /\ u \in Seq(T) /\ Len(u) = Len(a) + Len(r) /\ Len(r) \in Nat /\ Len(a) \in Nat
      /\ \A i \in 1..Len(u) : u[i] = IF i <= Len(a) THEN a[i] ELSE r[i - Len(a)]
  <2>1. a \in Seq(T) /\ r \in Seq(T)
    BY <1>3, <1>4
  <2> QED
    BY <2>1, ConcatProperties, LenProperties
<1>6. /\ v \in Seq(T) /\ Len(v) = Len(s) + Len(q)
      /\ \A i \in 1..Len(v) : v[i] = IF i <= Len(s) THEN s[i] ELSE q[i - Len(s)]
  BY ConcatProperties
<1> HIDE DEF u, v
<1>7. Len(u) = Len(v)
  BY <1>1, <1>3, <1>4, <1>5, <1>6
<1>8. ASSUME NEW i \in 1..Len(u)
      PROVE  u[i] = v[i]
  <2>1. CASE i <= Len(s)
    BY <1>1, <1>4, <1>5, <1>6, <1>7, <2>1
  <2>2. CASE i = Len(s) + 1
    <3>1. u[i] = h
      BY <1>1, <1>4, <1>5, <2>2
    <3>2. i - Len(s) = 1 /\ ~(i <= Len(s))
      BY <1>1, <2>2
    <3>3. v[i] = q[1]
      BY <1>6, <1>7, <3>2
    <3> QED
      BY <1>2, <3>1, <3>3
  <2>3. CASE i > Len(s) + 1
    <3> DEFINE j == i - Len(a)
    <3>1. j \in 1..Len(r) /\ j + 1 = i - Len(s) /\ ~(i <= Len(a)) /\ ~(i <= Len(s))
      BY <1>1, <1>4, <1>5, <2>3
    <3>2. u[i] = r[j]
      BY <1>5, <3>1
    <3>3. r[j] = q[j+1]
      BY <1>3, <3>1
    <3>4. v[i] = q[j+1]
      BY <1>6, <1>7, <3>1
    <3> QED
      BY <3>2, <3>3, <3>4
  <2> QED
    BY <1>1, <2>1, <2>2, <2>3
<1>9. u = v
  BY <1>5, <1>6, <1>7, <1>8, SeqEqual
<1> QED
  BY <1>1, <1>2, <1>3, <1>9 DEF u, v, a, h, r

\* All but the pings.
NoPing(s) == Picked(s, {j \in DOMAIN s : s[j] # Ping})

LEMMA NoPingIs ==
    ASSUME NEW s \in Seq(Event)
    PROVE  /\ NoPing(s) \in Seq(Event)
           /\ Range(NoPing(s)) = {s[j] : j \in {l \in 1..Len(s) : s[l] # Ping}}
           /\ \A e \in Event : NoPing(Append(s, e)) =
                  IF e = Ping THEN NoPing(s) ELSE Append(NoPing(s), e)
<1> DEFINE is == {j \in DOMAIN s : s[j] # Ping}
<1>1. Len(s) \in Nat /\ DOMAIN s = 1..Len(s)
  BY SeqFacts
<1>2. is \cap 1..Len(s) = {l \in 1..Len(s) : s[l] # Ping}
  BY <1>1
<1>3. Picked(s, is) \in Seq(Event) /\ Range(Picked(s, is)) = {s[j] : j \in is \cap 1..Len(s)}
  <2> HIDE DEF is
  <2> QED
    BY PickedFacts
<1>4. ASSUME NEW e \in Event
      PROVE  NoPing(Append(s, e)) = IF e = Ping THEN NoPing(s) ELSE Append(NoPing(s), e)
  <2> DEFINE t == Append(s, e)
             js == {j \in DOMAIN t : t[j] # Ping}
  <2>1. /\ t \in Seq(Event) /\ Len(t) = Len(s) + 1
        /\ \A j \in 1..Len(s) : t[j] = s[j]
        /\ t[Len(s)+1] = e
    BY AppendProperties
  <2>2. DOMAIN t = 1..Len(s)+1
    BY <2>1, SeqFacts
  <2>3. /\ \A j \in 1..Len(s) : j \in is <=> j \in js
        /\ Len(s) + 1 \in js <=> e # Ping
    <3> HIDE DEF t
    <3> QED
      BY <1>1, <2>1, <2>2
  <2> HIDE DEF js, is
  <2>4. Picked(t, js) = IF Len(s) + 1 \in js THEN Append(Picked(s, is), e) ELSE Picked(s, is)
    BY <2>3, PickedAppend
  <2> QED
    BY <2>3, <2>4 DEF NoPing, js, is
<1> QED
  BY <1>2, <1>3, <1>4 DEF NoPing

LEMMA NoPingNone == NoPing(<< >>) = << >>
BY PickedNone DEF NoPing

\* Whole events show all their frames.
LEMMA FramesInWhole ==
    ASSUME NEW s \in Seq(Event), \A j \in 1..Len(s) : s[j].part # "head"
    PROVE  FramesIn(s) = [j \in 1..Len(s) |-> s[j].f]
<1> DEFINE is == {j \in DOMAIN s : s[j].part # "head"}
           w == Picked(s, is)
<1>1. DOMAIN s = 1..Len(s)
  BY SeqFacts
<1>2. 1..Len(s) \subseteq is
  BY <1>1
<1>3. FramesIn(s) = [j \in DOMAIN w |-> w[j].f]
  BY DEF FramesIn
<1> HIDE DEF is
<1>4. w = s
  BY <1>2, PickedAll
<1> HIDE DEF w
<1> QED
  BY <1>1, <1>3, <1>4

LEMMA MadeMessageIs ==
    ASSUME NEW body, Plain(body)
    PROVE  LET s == MadeMessage(body)
           IN  /\ s \in Seq(Event) /\ s # << >> /\ FramesIn(s) = FramesOf(body)
               /\ \A j \in 1..Len(s) : s[j].by = "hook" /\ s[j].part = "whole" /\ s[j] # Ping
<1> DEFINE fs == FramesOf(body)
           s == MadeMessage(body)
           n == Len(fs)
<1>1. fs \in Seq(Frame) /\ fs # << >>
  BY MadeIsMessage
<1>2. s = [j \in DOMAIN fs |-> Made(fs[j])]
  BY DEF MadeMessage
<1> HIDE DEF fs, s
<1>3. n \in Nat /\ n # 0 /\ DOMAIN fs = 1..n /\ \A j \in 1..n : fs[j] \in Frame
  BY <1>1, SeqFacts, EmptySeq
<1> HIDE DEF n
<1>4. /\ s = [j \in 1..n |-> s[j]]
      /\ \A j \in 1..n : s[j] = Made(fs[j])
  BY <1>2, <1>3
<1>5. ASSUME NEW j \in 1..n
      PROVE  /\ s[j] \in Event /\ s[j].by = "hook" /\ s[j].part = "whole" /\ s[j].f = fs[j]
             /\ s[j] # Ping
  <2> DEFINE f == fs[j]
  <2>1. f \in Frame
    BY <1>3
  <2> HIDE DEF f
  <2>2. Made(f) \in Event /\ Made(f).by = "hook" /\ Made(f).part = "whole" /\ Made(f).f = f
    BY <2>1 DEF Made, Event
  <2>3. Ping.f.ev = "ping" /\ f.ev # "ping"
    BY <2>1, FrameIs DEF Ping, Made
  <2> QED
    BY <1>4, <2>2, <2>3 DEF f
<1>6. s \in [1..n -> Event]
  BY <1>4, <1>5
<1>7. s \in Seq(Event) /\ Len(s) = n
  BY <1>3, <1>6
<1>8. s # << >>
  BY <1>3, <1>7
<1>9. FramesIn(s) = [j \in 1..n |-> s[j].f]
  BY <1>5, <1>7, FramesInWhole
<1>10. FramesIn(s) = fs
  <2>1. fs = [j \in 1..n |-> fs[j]]
    BY <1>1, <1>3
  <2>2. \A j \in 1..n : s[j].f = fs[j]
    BY <1>5
  <2> HIDE DEF fs
  <2> QED
    BY <1>9, <2>1, <2>2
<1> QED
  BY <1>5, <1>7, <1>8, <1>10 DEF s, fs

-----------------------------------------------------------------------------
(* The inductive invariant. *)

\* The reads the hook has taken: how many whole frames, and whether the head of
\* the next.
Unread   == pending = "done" /\ item.part \in {"whole", "head", "tail"}
ReadSent == IF Unread /\ item.part # "head" THEN sent - 1 ELSE sent
ReadHalf == IF Unread THEN item.part = "tail" ELSE half

Transport ==
    /\ req \in Requests
    /\ Framed(message)
    /\ sent \in 0..Len(message)
    /\ half \in BOOLEAN
    /\ half => sent < Len(message) /\ sent + 1 \in cut
    /\ pending \in {"none", "running", "done", "canceled"}
    /\ pending = "done" => \/ item \in {[part |-> "end"], [part |-> "error"]}
                           \/ /\ ReadSent \in Nat /\ ReadSent < Len(message)
                              /\ item.part \in {"whole", "head", "tail"}
                              /\ item = Own(message[ReadSent+1], item.part)
                              /\ item.part = "whole" <=> ReadSent + 1 \notin cut
                              /\ half = (item.part = "head")

Typed ==
    /\ buffered \in Seq(Item)
    /\ queue \in Seq(Event) /\ out \in Seq(Event)
    /\ ~Sanitizes(req) => sanitizer = Start
    /\ sanitizer \in State /\ sanitizer.given = << >>

Control ==
    /\ pc \in {"wait", "pass", "ping", "last", "ended", "raised", "closed"}
    /\ pc = "wait" => pending \in {"running", "done"} /\ queue = << >>
    /\ pc = "pass" => pending = "none" /\ queue # << >> /\ ~Buffers(req)
    /\ pc = "ping" => pending \in {"running", "done"} /\ queue = <<Ping>> /\ Buffers(req)
    /\ pc = "last" => pending \in {"none", "canceled"} /\ queue # << >>
    /\ pc \in {"ended", "raised"} => pending \in {"none", "canceled"} /\ queue = << >>
    /\ pc = "closed" => pending # "running" /\ queue = << >>

\* Pings come first, and while a stream is held back there is nothing else.
PingsFirst ==
    /\ \A j \in 1..Len(out) : out[j] = Ping => Buffers(req) /\ \A k \in 1..(j - 1) : out[k] = Ping
    /\ pc # "ping" => \A j \in 1..Len(queue) : queue[j] # Ping
    /\ Buffers(req) /\ pc \in {"wait", "ping", "raised"} => Given = << >>

\* What was read is held back as it came, or passed on.
Passing(all) ==
    /\ all \in Seq(Item)
    /\ IF Sanitizes(req) THEN Consistent([sanitizer EXCEPT !.given = all], ReadSent, ReadHalf)
       ELSE FramesIn(all) = SoundTo(ReadSent)
HeldBack == ~Buffers(req) /\ pc \in {"wait", "pass"} => Passing(Given \o queue)
Kept ==
    /\ Buffers(req) /\ pc \in {"wait", "ping"} => Consistent(Fed(buffered), ReadSent, ReadHalf)
    /\ Buffers(req) /\ pc \in {"wait", "ping", "last", "ended"} =>
           Range(Readable(buffered)) = {message[j] : j \in {i \in 1..ReadSent : i \notin cut}}

\* What the client is given in the end.
Complete(all) ==
    \/ /\ all \in Seq(Item)
       /\ FramesIn(all) = SoundFrames
       /\ Buffers(req) => LateAnswer(buffered, req) = NoMessage
    \/ /\ Buffers(req)
       /\ \E body \in {EarlyAnswer(buffered, req), LateAnswer(buffered, req)} :
              body # NoMessage /\ all = MadeMessage(body)
Finished == pc \in {"last", "ended"} => Complete(Given \o queue)

\* What it was given when it went away, or when the provider failed.
Delivered ==
    \/ /\ \A e \in Range(Given) : e.by = "provider"
       /\ IsPrefix(GivenFrames, SoundFrames)
    \/ /\ Buffers(req)
       /\ \A e \in Range(Given) : e.by = "hook"
       /\ OneMessage(GivenFrames)
BrokenOff == pc \in {"closed", "raised"} => Delivered

IInv == Transport /\ Typed /\ Control /\ PingsFirst /\ HeldBack /\ Kept /\ Finished /\ BrokenOff

\* It speaks of the request and the message, which stay.
LEMMA Stays ==
    ASSUME req' = req, message' = message
    PROVE  /\ \A n : SoundTo(n)' = SoundTo(n)
           /\ \A s, n, h : Consistent(s, n, h)' <=> Consistent(s, n, h)
           /\ Buffers(req)' <=> Buffers(req)
           /\ Sanitizes(req)' <=> Sanitizes(req)
<1>1. \A n : SoundTo(n)' = SoundTo(n)
  BY DEF SoundTo, Sound, InThinking
<1>2. \A n : ThinkingAt(n)' = ThinkingAt(n)
  BY DEF ThinkingAt
<1>3. \A s, n, h : Consistent(s, n, h)' <=> Consistent(s, n, h)
  BY <1>1, <1>2 DEF Consistent
<1> QED
  BY <1>1, <1>3 DEF Buffers, Sanitizes

LEMMA MessagesFramed ==
    ASSUME NEW b \in Messages
    PROVE  Framed(FramesOf(b))
<1>1. b \in Seq(Block) /\ Block \subseteq Held
  BY HookAssumption DEF Held, Sayable
<1>2. b \in Seq(Held)
  BY <1>1, SeqMonotonic
<1> QED
  BY <1>2, FramesOfFramed

LEMMA InitInv == Init => IInv
<1> DEFINE e == << >>
<1> SUFFICES ASSUME Init
             PROVE  IInv
  OBVIOUS
<1>1. /\ req \in Requests /\ sent = 0 /\ half = FALSE /\ pending = "running"
      /\ buffered = e /\ sanitizer = Start /\ queue = e /\ out = e /\ pc = "wait"
  BY DEF Init
<1>2. Framed(message)
  <2>1. PICK b \in Messages : message = FramesOf(b)
    BY DEF Init
  <2> QED
    BY <2>1, MessagesFramed
<1>3. Len(message) \in Nat
  BY <1>2, LenProperties DEF Framed
<1>4. e \in Seq(Item) /\ e \in Seq(Event) /\ Len(e) = 0 /\ e \o e = e
  <2>1. e \in Seq(Event)
    OBVIOUS
  <2> QED
    BY ConcatEmptySeq
<1>5. ReadSent = 0 /\ ReadHalf = FALSE
  BY <1>1 DEF ReadSent, ReadHalf, Unread
<1>6. NoPing(e) = e /\ FramesIn(e) = e /\ Fed(e) = Start /\ Readable(e) = e
  BY NoPingNone, FramesInNone, FedNone, ReadableNone
<1>7. Range(e) = {}
  BY DEF Range
<1> HIDE DEF e
<1>8. Given = e
  BY <1>1, <1>6 DEF Given, NoPing
<1>9. Transport
  <2>1. sent \in 0..Len(message) /\ half \in BOOLEAN /\ ~half
    <3>1. sent \in 0..Len(message)
      BY <1>1, <1>3
    <3>2. half \in BOOLEAN /\ ~half
      BY <1>1, Zenon
    <3> QED
      BY <3>1, <3>2
  <2>2. pending \in {"none", "running", "done", "canceled"} /\ ~(pending = "done")
    BY <1>1
  <2> HIDE DEF e
  <2> QED
    BY <1>1, <1>2, <2>1, <2>2, Zenon DEF Transport
<1>10. Typed
  BY <1>1, <1>4, StartIsState DEF Typed, Start, e
<1>11. Control
  BY <1>1 DEF Control, e
<1>12. PingsFirst
  <2>1. 1..0 = {}
    OBVIOUS
  <2> QED
    BY <1>1, <1>4, <1>8, <2>1 DEF PingsFirst, e
<1>13. Consistent(Start, 0, FALSE)
  BY <1>2, StartConsistent
<1>14. HeldBack
  <2>1. [Start EXCEPT !.given = e] = Start
    <3>1. \A x, y, z : [[thinking |-> x, held |-> y, given |-> z] EXCEPT !.given = z]
                       = [thinking |-> x, held |-> y, given |-> z]
      OBVIOUS
    <3> QED
      BY <3>1 DEF Start, e
  <2>2. SoundTo(0) = e
    BY <1>2, <1>3, SoundNext DEF e
  <2>3. Passing(e)
    BY <1>1, <1>4, <1>5, <1>6, <1>13, <2>1, <2>2 DEF Passing
  <2> QED
    BY <1>1, <1>4, <1>8, <2>3 DEF HeldBack
<1>15. Kept
  <2>1. {message[j] : j \in {i \in 1..0 : i \notin cut}} = {}
    OBVIOUS
  <2> QED
    BY <1>1, <1>5, <1>6, <1>7, <1>13, <2>1 DEF Kept
<1>16. Finished /\ BrokenOff
  BY <1>1 DEF Finished, BrokenOff
<1> QED
  BY <1>9, <1>10, <1>11, <1>12, <1>14, <1>15, <1>16 DEF IInv

\* What is read and what is held back does not change while the provider works.
LEMMA ReturnsInv ==
    ASSUME IInv, NEW it, Returns(it), pc # "closed",
           sent' \in 0..Len(message), half' \in BOOLEAN, half' => sent' < Len(message) /\ sent' + 1 \in cut,
           \/ it \in {[part |-> "end"], [part |-> "error"]} /\ sent' = sent /\ half' = half
           \/ /\ it.part \in {"whole", "head", "tail"}
              /\ sent < Len(message) /\ it = Own(message[sent+1], it.part)
              /\ it.part = "whole" <=> sent + 1 \notin cut
              /\ half' = (it.part = "head")
              /\ half = (it.part = "tail")
              /\ sent' = IF it.part = "head" THEN sent ELSE sent + 1
    PROVE  IInv'
<1>1. /\ pending = "running" /\ pending' = "done" /\ item' = it
      /\ req' = req /\ message' = message /\ cut' = cut /\ buffered' = buffered
      /\ sanitizer' = sanitizer /\ queue' = queue /\ out' = out /\ pc' = pc
  BY DEF Returns
<1>2. ~Unread /\ ReadSent = sent /\ ReadHalf = half
  BY <1>1 DEF Unread, ReadSent, ReadHalf
<1>3. sent \in Nat /\ Len(message) \in Nat /\ half \in BOOLEAN
  BY LenProperties DEF IInv, Transport, Framed
<1>4. ReadSent' = ReadSent /\ ReadHalf' = ReadHalf
  <2>1. CASE it \in {[part |-> "end"], [part |-> "error"]} /\ sent' = sent /\ half' = half
    <3>1. it.part \notin {"whole", "head", "tail"}
      BY <2>1
    <3> QED
      BY <1>1, <1>2, <2>1, <3>1 DEF Unread, ReadSent, ReadHalf
  <2>2. CASE /\ it.part \in {"whole", "head", "tail"}
             /\ half = (it.part = "tail")
             /\ sent' = IF it.part = "head" THEN sent ELSE sent + 1
    BY <1>1, <1>2, <1>3, <2>2 DEF Unread, ReadSent, ReadHalf
  <2> QED
    BY <2>1, <2>2
<1>5. /\ \A n : SoundTo(n)' = SoundTo(n)
      /\ \A s, n, h : Consistent(s, n, h)' <=> Consistent(s, n, h)
      /\ Buffers(req)' <=> Buffers(req)
      /\ Sanitizes(req)' <=> Sanitizes(req)
  BY <1>1, Stays
<1>6. Transport'
  BY <1>1, <1>2, <1>3, <1>4 DEF IInv, Transport, Framed
<1>7. Typed' /\ Control' /\ PingsFirst'
  BY <1>1, <1>5 DEF IInv, Typed, Control, PingsFirst, Given
<1>8. HeldBack'
  BY <1>1, <1>4, <1>5 DEF IInv, HeldBack, Passing, Given
<1>9. Kept'
  BY <1>1, <1>4, <1>5 DEF IInv, Kept
<1>10. pc \notin {"last", "ended", "closed", "raised"}
  BY <1>1 DEF IInv, Control
<1>11. Finished' /\ BrokenOff'
  BY <1>1, <1>10 DEF Finished, BrokenOff
<1> QED
  BY <1>6, <1>7, <1>8, <1>9, <1>11 DEF IInv

LEMMA ProviderInv == IInv /\ Provider => IInv'
<1> SUFFICES ASSUME IInv, Provider
             PROVE  IInv'
  OBVIOUS
<1>1. sent \in Nat /\ Len(message) \in Nat /\ sent <= Len(message) /\ half \in BOOLEAN
      /\ (half => sent < Len(message) /\ sent + 1 \in cut)
  BY LenProperties DEF IInv, Transport, Framed
<1>2. pending = "running" => pc # "closed"
  BY DEF IInv, Control
<1>3. \A f, part : Own(f, part).part = part
  BY DEF Own
<1>4. CASE SendWhole
  <2> DEFINE it == Own(message[sent+1], "whole")
  <2>1. /\ sent < Len(message) /\ sent + 1 \notin cut /\ sent' = sent + 1 /\ half' = half
        /\ Returns(it) /\ it.part = "whole"
    BY <1>3, <1>4 DEF SendWhole, Coming
  <2>2. half = FALSE /\ pc # "closed"
    BY <1>1, <1>2, <2>1 DEF Returns
  <2>3. it = Own(message[sent+1], it.part)
    BY <2>1
  <2> HIDE DEF it
  <2> QED
    BY <1>1, <2>1, <2>2, <2>3, ReturnsInv
<1>5. CASE SendHead
  <2> DEFINE it == Own(message[sent+1], "head")
  <2>1. /\ sent < Len(message) /\ sent + 1 \in cut /\ sent' = sent /\ half' = TRUE /\ ~half
        /\ Returns(it) /\ it.part = "head"
    BY <1>3, <1>5 DEF SendHead, Coming
  <2>2. half = FALSE /\ pc # "closed"
    BY <1>1, <1>2, <2>1 DEF Returns
  <2>3. it = Own(message[sent+1], it.part)
    BY <2>1
  <2>4. half' = (it.part = "head") /\ half = (it.part = "tail")
    BY <2>1, <2>2
  <2>5. /\ sent' \in 0..Len(message) /\ half' \in BOOLEAN
        /\ half' => sent' < Len(message) /\ sent' + 1 \in cut
        /\ sent' = IF it.part = "head" THEN sent ELSE sent + 1
        /\ sent < Len(message) /\ (it.part = "whole" <=> sent + 1 \notin cut)
    <3>1. half' \in BOOLEAN
      BY <2>1, Zenon
    <3>2. sent' \in 0..Len(message) /\ (half' => sent' < Len(message) /\ sent' + 1 \in cut)
      BY <1>1, <2>1, <2>2
    <3>3. sent' = IF it.part = "head" THEN sent ELSE sent + 1
      BY <2>1
    <3>4. sent < Len(message) /\ (it.part = "whole" <=> sent + 1 \notin cut)
      BY <2>1, <2>2
    <3> QED
      BY <3>1, <3>2, <3>3, <3>4
  <2> HIDE DEF it
  <2> QED
    BY <1>1, <2>1, <2>2, <2>3, <2>4, <2>5, ReturnsInv
<1>6. CASE SendTail
  <2> DEFINE it == Own(message[sent+1], "tail")
  <2>1. /\ half' = FALSE /\ sent' = sent + 1 /\ half
        /\ Returns(it) /\ it.part = "tail"
    BY <1>3, <1>6 DEF SendTail
  <2>2. sent < Len(message) /\ sent + 1 \in cut /\ half = TRUE /\ pc # "closed"
    BY <1>1, <1>2, <2>1 DEF Returns
  <2>3. it = Own(message[sent+1], it.part)
    BY <2>1
  <2>4. half' = (it.part = "head") /\ half = (it.part = "tail")
    BY <2>1, <2>2
  <2>5. /\ sent' \in 0..Len(message) /\ half' \in BOOLEAN
        /\ half' => sent' < Len(message) /\ sent' + 1 \in cut
        /\ sent' = IF it.part = "head" THEN sent ELSE sent + 1
        /\ sent < Len(message) /\ (it.part = "whole" <=> sent + 1 \notin cut)
    <3>1. half' \in BOOLEAN
      BY <2>1, Zenon
    <3>2. sent' \in 0..Len(message) /\ (half' => sent' < Len(message) /\ sent' + 1 \in cut)
      BY <1>1, <2>1, <2>2
    <3>3. sent' = IF it.part = "head" THEN sent ELSE sent + 1
      BY <2>1
    <3>4. sent < Len(message) /\ (it.part = "whole" <=> sent + 1 \notin cut)
      BY <2>1, <2>2
    <3> QED
      BY <3>1, <3>2, <3>3, <3>4
  <2> HIDE DEF it
  <2> QED
    BY <1>1, <2>1, <2>2, <2>3, <2>4, <2>5, ReturnsInv
<1>7. CASE SendEnd \/ SendError
  <2>1. PICK it \in {[part |-> "end"], [part |-> "error"]} : Returns(it)
    BY <1>7 DEF SendEnd, SendError
  <2>2. sent' = sent /\ half' = half /\ pc # "closed"
    BY <1>2, <1>7, <2>1 DEF SendEnd, SendError, Returns
  <2> QED
    BY <1>1, <2>1, <2>2, ReturnsInv
<1> QED
  BY <1>4, <1>5, <1>6, <1>7 DEF Provider

LEMMA TransportStays ==
    ASSUME IInv, req' = req, message' = message, cut' = cut, sent' = sent, half' = half,
           pending' \in {"none", "running", "canceled"}
    PROVE  Transport' /\ ReadSent' = sent /\ ReadHalf' = half
<1>1. pending' \in {"none", "running", "done", "canceled"} /\ ~(pending' = "done")
  OBVIOUS
<1>2. ReadSent' = sent /\ ReadHalf' = half
  BY <1>1 DEF ReadSent, ReadHalf, Unread
<1>3. Framed(message)'
  BY DEF IInv, Transport, Framed, Once, Begun, Filled
<1> QED
  BY <1>1, <1>2, <1>3 DEF IInv, Transport

\* What a read returned is the next frame or the half of it.
LEMMA TakenIs ==
    ASSUME IInv, pending = "done", item.part \in {"whole", "head", "tail"}
    PROVE  /\ ReadSent \in Nat /\ ReadSent < Len(message) /\ message[ReadSent+1] \in Frame
           /\ item = Own(message[ReadSent+1], item.part) /\ item \in Item
           /\ item.f = message[ReadSent+1]
           /\ item.part = "whole" <=> ReadSent + 1 \notin cut
           /\ sent = IF item.part = "head" THEN ReadSent ELSE ReadSent + 1
           /\ half = (item.part = "head")
<1> DEFINE part == item.part
           m == ReadSent + 1
<1>1. item.part \notin {"end", "error"} => item \notin {[part |-> "end"], [part |-> "error"]}
  OBVIOUS
<1>2. /\ ReadSent \in Nat /\ ReadSent < Len(message)
      /\ item = Own(message[ReadSent+1], item.part)
      /\ item.part = "whole" <=> ReadSent + 1 \notin cut
      /\ half = (item.part = "head")
  BY <1>1 DEF IInv, Transport
<1>3. m \in 1..Len(message) /\ message \in Seq(Frame)
  BY <1>2, LenProperties DEF IInv, Transport, Framed
<1> HIDE DEF m
<1>4. message[m] \in Frame
  BY <1>3, SeqFacts
<1>5. part \in {"whole", "head", "tail"} /\ item = Own(message[m], part)
  BY <1>2 DEF m
<1> HIDE DEF part
<1>6. item \in Item /\ item.f = message[m]
  BY <1>4, <1>5, OwnIsItem
<1>7. sent = IF item.part = "head" THEN ReadSent ELSE ReadSent + 1
  <2>1. sent \in Int /\ Unread
    BY DEF IInv, Transport, Unread
  <2> QED
    BY <2>1 DEF ReadSent
<1> QED
  BY <1>2, <1>4, <1>6, <1>7 DEF m

LEMMA KeepInv == IInv /\ Keep => IInv'
<1> DEFINE n == ReadSent
           part == item.part
           h == ReadHalf
           f == message[n+1]
<1> SUFFICES ASSUME IInv, Keep
             PROVE  IInv'
  OBVIOUS
<1>1. /\ pc = "wait" /\ pending = "done" /\ part \in {"whole", "head", "tail"} /\ Buffers(req)
      /\ buffered' = Append(buffered, item) /\ pc' = "wait" /\ pending' = "running"
      /\ req' = req /\ message' = message /\ cut' = cut /\ sent' = sent /\ half' = half
      /\ sanitizer' = sanitizer /\ queue' = queue /\ out' = out
  BY DEF Keep, Taken, ReadOn
<1>2. /\ n \in Nat /\ n < Len(message) /\ f \in Frame
      /\ item = Own(f, part) /\ item \in Item /\ item.f = f
      /\ part = "whole" <=> n + 1 \notin cut
      /\ sent = IF part = "head" THEN n ELSE n + 1
      /\ half = (part = "head")
  BY <1>1, TakenIs
<1>3. Transport' /\ ReadSent' = sent /\ ReadHalf' = half
  BY <1>1, TransportStays
<1>4. /\ \A s, k, b : Consistent(s, k, b)' <=> Consistent(s, k, b)
      /\ Buffers(req)' <=> Buffers(req)
      /\ Sanitizes(req)' <=> Sanitizes(req)
  BY <1>1, Stays
<1>5. buffered \in Seq(Item)
  BY DEF IInv, Typed
<1>6. Typed'
  <2>1. Append(buffered, item) \in Seq(Item)
    BY <1>2, <1>5, AppendProperties
  <2> QED
    BY <1>1, <1>4, <2>1 DEF IInv, Typed
<1>7. Control' /\ PingsFirst'
  BY <1>1, <1>4 DEF IInv, Control, PingsFirst, Given
<1>8. HeldBack' /\ Finished' /\ BrokenOff'
  BY <1>1, <1>4 DEF HeldBack, Finished, BrokenOff
<1>9. Consistent(Fed(buffered), n, h) /\ Framed(message)
      /\ Range(Readable(buffered)) = {message[j] : j \in {i \in 1..n : i \notin cut}}
  BY <1>1 DEF IInv, Kept, Transport
<1>10. req.shape # "raw"
  BY <1>1 DEF Buffers
<1>11. Consistent(Feed(Fed(buffered), Own(message[n+1], part)), IF part = "head" THEN n ELSE n + 1,
                  part = "head")
  <2> HIDE DEF n, h, part
  <2> QED
    BY <1>1, <1>2, <1>9, <1>10, FeedConsistent DEF f
<1>12. Fed(buffered') = Feed(Fed(buffered), item)
  BY <1>1, <1>2, <1>5, FedNext
<1>13. Consistent(Fed(buffered'), sent, half)
  BY <1>2, <1>11, <1>12
<1>14. Range(Readable(buffered')) = {message[j] : j \in {i \in 1..sent : i \notin cut}}
  <2>1. Range(Readable(buffered')) =
            Range(Readable(buffered)) \cup (IF part = "whole" THEN {f} ELSE {})
    BY <1>1, <1>2, <1>5, ReadableNext
  <2> HIDE DEF n, part
  <2>2. CASE part = "head"
    BY <1>2, <1>9, <2>1, <2>2
  <2>3. CASE part # "head"
    <3>1. sent = n + 1 /\ 1..n+1 = (1..n) \cup {n + 1}
      BY <1>2, <2>3
    <3>2. CASE part = "whole"
      BY <1>2, <1>9, <2>1, <3>1, <3>2
    <3>3. CASE part # "whole"
      BY <1>2, <1>9, <2>1, <3>1, <3>3
    <3> QED
      BY <3>2, <3>3
  <2> QED
    BY <2>2, <2>3
<1>15. Kept'
  BY <1>1, <1>3, <1>4, <1>13, <1>14 DEF Kept
<1> QED
  BY <1>3, <1>6, <1>7, <1>8, <1>15 DEF IInv

LEMMA StateIs ==
    ASSUME NEW s \in State
    PROVE  /\ s = [thinking |-> s.thinking, held |-> s.held, given |-> s.given]
           /\ \A g \in Seq(Item) : LET t == [s EXCEPT !.given = g]
                                   IN  /\ t \in State /\ t.thinking = s.thinking
                                       /\ t.held = s.held /\ t.given = g
BY DEF State

\* What the sanitizer lets through does not depend on what it let through.
LEMMA FeedWith ==
    ASSUME NEW s \in State, s.given = << >>, NEW it \in Item, NEW g \in Seq(Item)
    PROVE  Feed([s EXCEPT !.given = g], it) = [Feed(s, it) EXCEPT !.given = g \o Feed(s, it).given]
<1> DEFINE t == [s EXCEPT !.given = g]
           u == Feed(s, it)
           v == Feed(t, it)
           a == g \o u.given
           w == [u EXCEPT !.given = a]
           o == Own(it.f, "whole")
<1>1. t \in State /\ t.thinking = s.thinking /\ t.held = s.held /\ t.given = g
  BY StateIs
<1> HIDE DEF t
<1>2. u \in State /\ v \in State
  BY <1>1, FeedIs
<1>3. Drops(t, it.f) <=> Drops(s, it.f)
  BY <1>1 DEF Drops
<1>4. u.thinking = v.thinking /\ u.held = v.held
  BY <1>1, FeedIs
<1>5. /\ it.part = "head" => u.given = s.given /\ v.given = t.given
      /\ it.part # "head" => /\ u.given = IF Drops(s, it.f) THEN s.given ELSE Append(s.given, o)
                             /\ v.given = IF Drops(s, it.f) THEN t.given ELSE Append(t.given, o)
  BY <1>1, <1>3, FeedIs
<1>6. o \in Item
  BY ItemIs, OwnIsItem
<1> HIDE DEF u, v, o
<1>7. g \o << >> = g /\ g \o Append(<< >>, o) = Append(g, o)
  <2> DEFINE e == << >>
  <2>1. e \in Seq(Item) /\ g \o e = g
    BY ConcatEmptySeq
  <2> HIDE DEF e
  <2>2. g \o Append(e, o) = Append(g \o e, o)
    BY <1>6, <2>1, ConcatNext
  <2> QED
    BY <2>1, <2>2 DEF e
<1>8. v.given = a
  BY <1>1, <1>5, <1>7
<1>9. a \in Seq(Item)
  <2>1. v.given \in Seq(Item)
    BY <1>2 DEF State
  <2> QED
    BY <1>8, <2>1
<1> HIDE DEF a
<1>10. w \in State /\ w.thinking = u.thinking /\ w.held = u.held /\ w.given = a
  BY <1>2, <1>9, StateIs
<1> HIDE DEF w
<1>11. /\ v = [thinking |-> v.thinking, held |-> v.held, given |-> v.given]
       /\ w = [thinking |-> w.thinking, held |-> w.held, given |-> w.given]
  BY <1>2, <1>10, StateIs
<1>12. v = w
  BY <1>4, <1>8, <1>10, <1>11
<1> QED
  BY <1>12 DEF t, u, v, w, a

LEMMA PassOnInv == IInv /\ PassOn => IInv'
<1> DEFINE n == ReadSent
           part == item.part
           h == ReadHalf
           f == message[n+1]
           g == Given
           q == queue'
           e == << >>
<1> SUFFICES ASSUME IInv, PassOn
             PROVE  IInv'
  OBVIOUS
<1>1. /\ pc = "wait" /\ pending = "done" /\ part \in {"whole", "head", "tail"} /\ ~Buffers(req)
      /\ req' = req /\ message' = message /\ cut' = cut /\ sent' = sent /\ half' = half
      /\ buffered' = buffered /\ out' = out
  BY DEF PassOn, Taken
<1>2. /\ n \in Nat /\ n < Len(message) /\ f \in Frame
      /\ item = Own(f, part) /\ item \in Item /\ item.f = f
      /\ part = "whole" <=> n + 1 \notin cut
      /\ sent = IF part = "head" THEN n ELSE n + 1
      /\ half = (part = "head")
  BY <1>1, TakenIs
<1>3. \/ q = << >> /\ pc' = "wait" /\ pending' = "running"
      \/ q # << >> /\ pc' = "pass" /\ pending' = "none"
  BY DEF PassOn, ReadOn
<1>4. Transport' /\ ReadSent' = sent /\ ReadHalf' = half
  BY <1>1, <1>3, TransportStays
<1>5. /\ \A s, k, b : Consistent(s, k, b)' <=> Consistent(s, k, b)
      /\ \A k : SoundTo(k)' = SoundTo(k)
      /\ Buffers(req)' <=> Buffers(req)
      /\ Sanitizes(req)' <=> Sanitizes(req)
  BY <1>1, Stays
<1>6. Given' = g
  BY <1>1 DEF Given
<1>7. queue = << >> /\ sanitizer \in State /\ sanitizer.given = << >>
  BY <1>1 DEF IInv, Control, Typed
<1>8. Passing(g) /\ g \in Seq(Item)
  <2>1. Passing(g \o << >>)
    BY <1>1, <1>7 DEF IInv, HeldBack
  <2>2. g \in Seq(Event)
    BY NoPingIs DEF Given, NoPing, IInv, Typed
  <2> HIDE DEF g
  <2>3. g \o << >> = g
    BY <2>2, ConcatEmptySeq
  <2> QED
    BY <2>1, <2>3 DEF Passing
\* What is passed on now.
<1>9. /\ q \in Seq(Item)
      /\ IF Sanitizes(req) THEN Consistent([sanitizer' EXCEPT !.given = g \o q], sent, half)
         ELSE FramesIn(g \o q) = SoundTo(sent)
      /\ sanitizer' \in State /\ sanitizer'.given = << >> /\ (~Sanitizes(req) => sanitizer' = Start)
  <2>1. CASE Sanitizes(req)
    <3> DEFINE fed == Feed(sanitizer, item)
               s == [sanitizer EXCEPT !.given = g]
               u == [fed EXCEPT !.given = e]
    <3>1. sanitizer' = u /\ q = fed.given
      BY <2>1 DEF PassOn
    <3>2. fed \in State
      BY <1>2, <1>7, FeedIs
    <3>3. Feed(s, item) = [fed EXCEPT !.given = g \o fed.given]
      <4> HIDE DEF g
      <4> QED
        BY <1>2, <1>7, <1>8, FeedWith
    <3>4. Consistent(s, n, h)
      BY <1>8, <2>1 DEF Passing
    <3>5. req.shape # "raw" /\ Framed(message)
      BY <2>1 DEF Sanitizes, IInv, Transport
    <3> HIDE DEF fed
    <3>6. q \in Seq(Item) /\ e \in Seq(Item)
      BY <3>1, <3>2 DEF State
    <3> HIDE DEF q, e, g
    <3>7. u \in State /\ u.given = e
      BY <3>2, <3>6, StateIs
    <3>8. Consistent(Feed(s, Own(message[n+1], part)), IF part = "head" THEN n ELSE n + 1,
                     part = "head")
      <4> HIDE DEF n, h, part, s
      <4> QED
        BY <1>1, <1>2, <3>4, <3>5, FeedConsistent DEF f
    <3>9. Consistent([fed EXCEPT !.given = g \o q], sent, half)
      BY <1>2, <3>1, <3>3, <3>8
    <3>10. [fed EXCEPT !.given = g \o q] = [sanitizer' EXCEPT !.given = g \o q]
      <4>1. fed = [thinking |-> fed.thinking, held |-> fed.held, given |-> fed.given]
        BY <3>2, StateIs
      <4>2. \A x, y, z, v, w :
               [[[thinking |-> x, held |-> y, given |-> z] EXCEPT !.given = v] EXCEPT !.given = w]
               = [[thinking |-> x, held |-> y, given |-> z] EXCEPT !.given = w]
        OBVIOUS
      <4> QED
        BY <3>1, <4>1, <4>2
    <3> QED
      BY <2>1, <3>1, <3>6, <3>7, <3>9, <3>10 DEF e
  <2>2. CASE ~Sanitizes(req)
    <3> DEFINE o == <<item>>
    <3>1. sanitizer' = sanitizer /\ q = o /\ sanitizer = Start
      BY <2>2 DEF PassOn, IInv, Typed
    <3>2. o \in Seq(Item) /\ g \o o = Append(g, item)
      <4> HIDE DEF g
      <4> QED
        BY <1>2, <1>8, AppendIsConcat
    <3>3. FramesIn(g) = SoundTo(n) /\ Framed(message)
      BY <1>8, <2>2 DEF Passing, IInv, Transport
    <3>4. req.shape = "raw"
      <4>1. req.shape \in {"raw", "messages"}
        BY HookAssumption DEF IInv, Transport, Shape
      <4> QED
        BY <1>1, <2>2, <4>1 DEF Sanitizes
    <3>5. SoundTo(n + 1) = Append(SoundTo(n), f)
      <4> HIDE DEF n
      <4> QED
        BY <1>2, <3>3, <3>4, SoundNext DEF f
    <3>6. g \in Seq(Event) /\ item \in Event
      BY <1>2, ItemIs, NoPingIs DEF Given, NoPing, IInv, Typed
    <3> HIDE DEF g, o, q, n, f
    <3>7. FramesIn(Append(g, item)) = IF part = "head" THEN FramesIn(g) ELSE Append(FramesIn(g), f)
      BY <1>2, <3>6, FramesInNext
    <3>8. FramesIn(Append(g, item)) = SoundTo(sent)
      BY <1>2, <3>3, <3>5, <3>7
    <3> QED
      BY <1>7, <2>2, <3>1, <3>2, <3>8
  <2> QED
    BY <2>1, <2>2
<1>10. g \o q \in Seq(Item)
  <2> HIDE DEF g, q
  <2> QED
    BY <1>8, <1>9, ConcatProperties
<1>11. HeldBack'
  <2>1. (Given \o queue)' = g \o q
    BY <1>6
  <2>2. Passing(Given \o queue)'
    BY <1>4, <1>5, <1>9, <1>10, <2>1 DEF Passing
  <2> QED
    BY <2>2 DEF HeldBack
<1>12. q \in Seq(Event) /\ \A j \in 1..Len(q) : q[j] # Ping
  <2>1. Item \subseteq Event
    BY DEF Event
  <2> HIDE DEF q
  <2>2. q \in Seq(Event)
    BY <1>9, <2>1, SeqMonotonic
  <2>3. \A j \in 1..Len(q) : q[j] \in Item
    BY <1>9, SeqFacts
  <2> QED
    BY <2>2, <2>3, ItemIs
<1>13. Typed'
  BY <1>1, <1>5, <1>9, <1>12 DEF IInv, Typed
<1>14. Control'
  BY <1>1, <1>3, <1>5 DEF Control
<1>15. PingsFirst'
  BY <1>1, <1>5, <1>6, <1>12 DEF IInv, PingsFirst
<1>16. Kept' /\ Finished' /\ BrokenOff'
  BY <1>1, <1>3, <1>5 DEF Kept, Finished, BrokenOff
<1> QED
  BY <1>4, <1>11, <1>13, <1>14, <1>15, <1>16 DEF IInv

LEMMA FlushIs ==
    ASSUME NEW s \in State, NEW g \in Seq(Item), g = << >> \/ s.given = << >>
    PROVE  /\ Flush(s) \in Seq(Item)
           /\ g \o Flush(s) \in Seq(Item)
           /\ FramesIn(g \o Flush(s)) = IF g = << >> THEN FramesIn(s.given) ELSE FramesIn(g)
<1> DEFINE x == s.given
           o == Own(s.held, "head")
           u == Flush(s)
           e == << >>
<1>1. x \in Seq(Item) /\ (s.held # None => s.held \in Frame) /\ Item \subseteq Event
  BY DEF State, Event
<1>2. u = IF s.held = None THEN x ELSE Append(x, o)
  BY DEF Flush
<1>3. s.held # None => o \in Item /\ o.part = "head"
  BY <1>1, OwnIsItem
<1> HIDE DEF u, o, x
<1>4. u \in Seq(Item)
  BY <1>1, <1>2, <1>3, AppendProperties
<1>5. x \in Seq(Event) /\ u \in Seq(Event) /\ g \in Seq(Event)
  BY <1>1, <1>4, SeqMonotonic
<1>6. FramesIn(u) = FramesIn(x)
  <2>1. CASE s.held = None
    BY <1>2, <2>1
  <2>2. CASE s.held # None
    <3>1. o \in Event /\ o.part = "head" /\ u = Append(x, o)
      BY <1>1, <1>2, <1>3, <2>2
    <3> QED
      BY <1>5, <3>1, FramesInNext
  <2> QED
    BY <2>1, <2>2
<1>7. g \o u \in Seq(Item)
  BY <1>4, ConcatProperties
<1>8. FramesIn(g \o u) = FramesIn(g) \o FramesIn(u)
  BY <1>5, FramesInConcat
<1>9. FramesIn(g) \in Seq(Seen) /\ FramesIn(u) \in Seq(Seen) /\ FramesIn(e) = e
  BY <1>5, FramesInNext, FramesInNone
<1>10. CASE g = << >>
  <2>1. FramesIn(g) = e
    BY <1>9, <1>10
  <2> HIDE DEF e
  <2>2. e \o FramesIn(u) = FramesIn(u)
    BY <1>9, ConcatEmptySeq DEF e
  <2> QED
    BY <1>4, <1>6, <1>7, <1>8, <1>10, <2>1, <2>2 DEF u, x
<1>11. CASE g # << >>
  <2>1. FramesIn(u) = e
    BY <1>6, <1>9, <1>11 DEF x
  <2>2. FramesIn(g) \o e = FramesIn(g)
    BY <1>9, ConcatEmptySeq
  <2> QED
    BY <1>4, <1>7, <1>8, <1>11, <2>1, <2>2 DEF u
<1> QED
  BY <1>10, <1>11

LEMMA GivenIs ==
    ASSUME IInv
    PROVE  /\ Given = NoPing(out) /\ Given \in Seq(Event)
           /\ Range(Given) = {out[j] : j \in {l \in 1..Len(out) : out[l] # Ping}}
           /\ out \in Seq(Event) /\ queue \in Seq(Event)
<1>1. out \in Seq(Event) /\ queue \in Seq(Event)
  BY DEF IInv, Typed
<1> QED
  BY <1>1, NoPingIs DEF Given, NoPing

\* A prefix of what was said is one message too, as far as it goes.
LEMMA MessageBegun ==
    ASSUME NEW body, Plain(body), NEW s \in Seq(Event), NEW t \in Seq(Event),
           s \o t = MadeMessage(body), s # << >>
    PROVE  /\ \A e \in Range(s) : e.by = "hook"
           /\ OneMessage(FramesIn(s))
<1> DEFINE m == MadeMessage(body)
           fs == FramesOf(body)
           p == FramesIn(s)
<1>1. /\ m \in Seq(Event) /\ FramesIn(m) = fs
      /\ \A j \in 1..Len(m) : m[j].by = "hook" /\ m[j].part = "whole" /\ m[j] # Ping
  BY MadeMessageIs
<1>2. /\ fs \in Seq(Frame) /\ fs[1].ev = "start" /\ Chained(fs)
  BY MadeIsMessage
<1> HIDE DEF m, fs
<1>3. m = s \o t
  BY DEF m
<1>4. /\ Len(m) = Len(s) + Len(t) /\ Len(s) \in Nat /\ Len(t) \in Nat /\ Len(s) # 0
      /\ \A j \in 1..Len(m) : m[j] = IF j <= Len(s) THEN s[j] ELSE t[j - Len(s)]
  BY <1>3, ConcatProperties, LenProperties, EmptySeq
<1>5. \A j \in 1..Len(s) : s[j] = m[j] /\ j \in 1..Len(m)
  BY <1>4
<1>6. \A j \in 1..Len(s) : s[j].by = "hook" /\ s[j].part # "head"
  BY <1>1, <1>5
<1>7. Range(s) = {s[j] : j \in 1..Len(s)}
  BY SeqFacts
<1>8. p = [j \in 1..Len(s) |-> s[j].f]
  BY <1>6, FramesInWhole
<1>9. fs = [j \in 1..Len(m) |-> m[j].f]
  BY <1>1, FramesInWhole
<1>10. Len(p) = Len(s) /\ \A j \in 1..Len(s) : p[j] = fs[j]
  <2>1. \A j \in 1..Len(s) : p[j] = s[j].f
    BY <1>8
  <2>2. \A j \in 1..Len(m) : fs[j] = m[j].f
    BY <1>9
  <2>3. p = [j \in 1..Len(s) |-> p[j]]
    BY <1>8
  <2> HIDE DEF p
  <2>4. Len(p) = Len(s)
    BY <1>4, <2>3, FunctionIsSeq
  <2> QED
    BY <1>5, <2>1, <2>2, <2>4
<1>11. Len(fs) = Len(m)
  <2>1. fs = [j \in 1..Len(m) |-> fs[j]]
    BY <1>9
  <2>2. Len(m) \in Nat
    BY <1>4
  <2> QED
    BY <2>1, <2>2, FunctionIsSeq
<1> HIDE DEF p
<1>12. OneMessage(p)
  <2>1. 1 \in 1..Len(s)
    BY <1>4
  <2>2. \A j \in 2..Len(p) : Continues(p[j-1], p[j])
    <3> TAKE j \in 2..Len(p)
    <3>1. j \in 2..Len(fs) /\ j \in 1..Len(s) /\ j - 1 \in 1..Len(s)
      BY <1>4, <1>10, <1>11
    <3> QED
      BY <1>2, <1>10, <3>1 DEF Chained
  <2> QED
    BY <1>2, <1>10, <2>1, <2>2 DEF OneMessage
<1> QED
  BY <1>6, <1>7, <1>12 DEF p

\* What was given of the provider's answer is the beginning of it.
LEMMA BegunIsOwn ==
    ASSUME IInv, Given \o queue \in Seq(Item),
           NEW n \in {sent, ReadSent}, FramesIn(Given \o queue) = SoundTo(n)
    PROVE  Delivered
<1> DEFINE g == Given
           fg == FramesIn(g)
           fq == FramesIn(queue)
<1>1. g \in Seq(Event) /\ queue \in Seq(Event)
  BY GivenIs
<1>2. \A e \in Range(g) : e.by = "provider"
  <2> HIDE DEF g
  <2>1. Range(g \o queue) = Range(g) \cup Range(queue) /\ Range(g \o queue) \subseteq Item
    BY <1>1, ConcatRange, SeqFacts DEF g
  <2> QED
    BY <2>1, ItemIs
<1>3. /\ Framed(message) /\ sent \in Nat /\ sent <= Len(message) /\ Len(message) \in Nat
      /\ n \in Nat
      /\ n = sent \/ n + 1 = sent
  <2>1. Framed(message) /\ Len(message) \in Nat /\ sent \in 0..Len(message)
    BY LenProperties DEF IInv, Transport, Framed
  <2>2. ReadSent = sent \/ (ReadSent = sent - 1 /\ Unread)
    BY DEF ReadSent
  <2>3. Unread => ReadSent \in Nat
    BY TakenIs DEF Unread
  <2> QED
    BY <2>1, <2>2, <2>3
<1>4. fg \in Seq(Seen) /\ fq \in Seq(Seen) /\ FramesIn(g \o queue) = fg \o fq
  <2> HIDE DEF g
  <2> QED
    BY <1>1, FramesInNext, FramesInConcat
<1> HIDE DEF fg, fq
<1>5. IsPrefix(fg, SoundTo(n))
  BY <1>4, PrefixConcat
<1>6. SoundTo(n) \in Seq(Seen) /\ (n + 1 = sent => message[sent] \in Seen)
  <2>1. SoundTo(n) \in Seq(Frame) /\ Frame \subseteq Seen
    BY <1>3, SoundNext DEF Seen
  <2>2. n + 1 = sent => sent \in 1..Len(message)
    BY <1>3
  <2>3. message \in Seq(Frame)
    BY <1>3 DEF Framed
  <2> QED
    BY <2>1, <2>2, <2>3, SeqMonotonic, SeqFacts
<1>7. IsPrefix(fg, SoundTo(sent))
  <2>1. CASE n = sent
    BY <1>5, <2>1
  <2>2. CASE n + 1 = sent
    <3>1. n <= Len(message) /\ n < Len(message)
      BY <1>3, <2>2
    <3> DEFINE m == n + 1
    <3>2. SoundTo(m) = SoundTo(n) \/ SoundTo(m) = Append(SoundTo(n), message[m])
      BY <1>3, <3>1, SoundNext
    <3>3. m = sent
      BY <2>2
    <3> HIDE DEF m
    <3>4. IsPrefix(fg, Append(SoundTo(n), message[sent]))
      BY <1>4, <1>5, <1>6, <2>2, PrefixAppend
    <3> QED
      BY <1>5, <3>2, <3>3, <3>4
  <2> QED
    BY <1>3, <2>1, <2>2
<1>8. SoundFrames = SoundTo(sent)
  BY DEF SoundFrames, SoundTo
<1> QED
  BY <1>2, <1>7, <1>8 DEF Delivered, GivenFrames, fg

LEMMA NothingGiven ==
    ASSUME IInv, Given = << >>
    PROVE  Delivered
<1> DEFINE e == << >>
<1>1. Given = e /\ FramesIn(e) = e
  BY FramesInNone
<1>2. Range(e) = {} /\ Len(e) = 0 /\ \A t : SubSeq(t, 1, 0) = << >>
  BY DEF Range
<1>3. IsPrefix(e, SoundFrames)
  <2>1. Len(SoundFrames) >= 0
    <3>1. Framed(message) /\ sent \in Nat /\ sent <= Len(message)
      BY LenProperties DEF IInv, Transport, Framed
    <3>2. SoundTo(sent) \in Seq(Frame)
      BY <3>1, SoundNext
    <3> QED
      BY <3>2, LenProperties DEF SoundFrames, SoundTo
  <2> QED
    BY <1>2, <2>1 DEF IsPrefix
<1> HIDE DEF e
<1> QED
  BY <1>1, <1>2, <1>3 DEF Delivered, GivenFrames

\* Whenever the client leaves, or the provider fails, it has a part of one or
\* the other.
LEMMA AlwaysDelivered == IInv => Delivered
<1> SUFFICES ASSUME IInv
             PROVE  Delivered
  OBVIOUS
<1> DEFINE all == Given \o queue
<1>1. Given \in Seq(Event) /\ queue \in Seq(Event)
  BY GivenIs
<1>2. CASE ~Buffers(req) /\ pc \in {"wait", "pass"}
  <2>1. all \in Seq(Item) /\ Passing(all)
    BY <1>2 DEF IInv, HeldBack, Passing
  <2>2. FramesIn(all) = SoundTo(ReadSent)
    <3>1. CASE Sanitizes(req)
      <4>1. Consistent([sanitizer EXCEPT !.given = all], ReadSent, ReadHalf) /\ sanitizer \in State
        BY <2>1, <3>1 DEF Passing, IInv, Typed
      <4> HIDE DEF all
      <4>2. [sanitizer EXCEPT !.given = all].given = all
        BY <2>1, <4>1, StateIs
      <4> QED
        BY <4>1, <4>2 DEF Consistent
    <3>2. CASE ~Sanitizes(req)
      BY <2>1, <3>2 DEF Passing
    <3> QED
      BY <3>1, <3>2
  <2> QED
    BY <2>1, <2>2, BegunIsOwn
<1>3. CASE Buffers(req) /\ pc \in {"wait", "ping", "raised"}
  BY <1>3, NothingGiven DEF IInv, PingsFirst
<1>4. CASE pc \in {"last", "ended"}
  <2>1. Complete(all)
    BY <1>4 DEF IInv, Finished
  <2>2. CASE all \in Seq(Item) /\ FramesIn(all) = SoundFrames
    <3>1. SoundFrames = SoundTo(sent)
      BY DEF SoundFrames, SoundTo
    <3> QED
      BY <2>2, <3>1, BegunIsOwn
  <2>3. ASSUME Buffers(req), NEW body \in {EarlyAnswer(buffered, req), LateAnswer(buffered, req)},
               body # NoMessage, all = MadeMessage(body)
        PROVE  Delivered
    <3>1. buffered \in Seq(Item) /\ req \in Requests
      BY DEF IInv, Typed, Transport
    <3>2. Plain(body)
      BY <2>3, <3>1, AnswersAre
    <3>3. CASE Given = << >>
      BY <3>3, NothingGiven
    <3>4. CASE Given # << >>
      <4>1. (\A e \in Range(Given) : e.by = "hook") /\ OneMessage(FramesIn(Given))
        BY <1>1, <2>3, <3>2, <3>4, MessageBegun
      <4> QED
        BY <2>3, <4>1 DEF Delivered, GivenFrames
    <3> QED
      BY <3>3, <3>4
  <2> QED
    BY <2>1, <2>2, <2>3 DEF Complete
<1>5. CASE pc \in {"closed", "raised"}
  BY <1>5 DEF IInv, BrokenOff
<1>6. \/ ~Buffers(req) /\ pc \in {"wait", "pass"}
      \/ Buffers(req) /\ pc \in {"wait", "ping", "raised"}
      \/ pc \in {"last", "ended"}
      \/ pc \in {"closed", "raised"}
  BY DEF IInv, Control
<1> QED
  BY <1>2, <1>3, <1>4, <1>5, <1>6

LEMMA DeliveredStays ==
    ASSUME IInv, req' = req, message' = message, sent' = sent, out' = out
    PROVE  Delivered'
<1>1. Delivered
  BY AlwaysDelivered
<1>2. Given' = Given /\ GivenFrames' = GivenFrames
  BY DEF Given, GivenFrames
<1>3. SoundFrames' = SoundFrames
  BY DEF SoundFrames, Sound, InThinking
<1> QED
  BY <1>1, <1>2, <1>3 DEF Delivered, Buffers

LEMMA RaiseInv == IInv /\ Raise => IInv'
<1> SUFFICES ASSUME IInv, Raise
             PROVE  IInv'
  OBVIOUS
<1>1. /\ pc = "wait" /\ pending' = "none" /\ pc' = "raised"
      /\ req' = req /\ message' = message /\ cut' = cut /\ sent' = sent /\ half' = half
      /\ buffered' = buffered /\ sanitizer' = sanitizer /\ queue' = queue /\ out' = out
  BY DEF Raise, Taken
<1>2. Transport'
  BY <1>1, TransportStays
<1>3. Delivered'
  BY <1>1, DeliveredStays
<1>4. Given' = Given /\ (Buffers(req)' <=> Buffers(req)) /\ (Sanitizes(req)' <=> Sanitizes(req))
  BY <1>1 DEF Given, Buffers, Sanitizes
<1>5. Typed' /\ Control' /\ PingsFirst'
  BY <1>1, <1>4 DEF IInv, Typed, Control, PingsFirst
<1>6. HeldBack' /\ Kept' /\ Finished' /\ BrokenOff'
  BY <1>1, <1>3 DEF HeldBack, Kept, Finished, BrokenOff
<1> QED
  BY <1>2, <1>5, <1>6 DEF IInv

LEMMA DisconnectInv == IInv /\ Disconnect => IInv'
<1> DEFINE e == << >>
<1> SUFFICES ASSUME IInv, Disconnect
             PROVE  IInv'
  OBVIOUS
<1>1. /\ pc' = "closed" /\ queue' = e
      /\ pending' = IF pending = "running" THEN "canceled"
                    ELSE IF pending = "done" THEN "none" ELSE pending
      /\ req' = req /\ message' = message /\ cut' = cut /\ sent' = sent /\ half' = half
      /\ buffered' = buffered /\ sanitizer' = sanitizer /\ out' = out
  BY DEF Disconnect
<1>2. pending \in {"none", "running", "done", "canceled"}
  BY DEF IInv, Transport
<1>3. pending' \in {"none", "canceled"}
  BY <1>1, <1>2
<1>4. Transport'
  BY <1>1, <1>3, TransportStays
<1>5. Delivered'
  BY <1>1, DeliveredStays
<1>6. Given' = Given /\ (Buffers(req)' <=> Buffers(req)) /\ (Sanitizes(req)' <=> Sanitizes(req))
  BY <1>1 DEF Given, Buffers, Sanitizes
<1>7. e \in Seq(Event) /\ Len(e) = 0 /\ 1..0 = {}
  OBVIOUS
<1> HIDE DEF e
<1>8. Typed' /\ PingsFirst'
  BY <1>1, <1>6, <1>7 DEF IInv, Typed, PingsFirst
<1>9. Control'
  BY <1>1, <1>3 DEF Control, e
<1>10. HeldBack' /\ Kept' /\ Finished' /\ BrokenOff'
  BY <1>1, <1>5 DEF HeldBack, Kept, Finished, BrokenOff
<1> QED
  BY <1>4, <1>8, <1>9, <1>10 DEF IInv

LEMMA StutterInv == IInv /\ UNCHANGED vars => IInv'
<1> SUFFICES ASSUME IInv, UNCHANGED vars
             PROVE  IInv'
  OBVIOUS
<1>1. /\ req' = req /\ message' = message /\ cut' = cut /\ sent' = sent /\ half' = half
      /\ pending' = pending /\ item' = item /\ buffered' = buffered /\ sanitizer' = sanitizer
      /\ queue' = queue /\ out' = out /\ pc' = pc
  BY DEF vars
<1>2. /\ \A n : SoundTo(n)' = SoundTo(n)
      /\ \A s, n, h : Consistent(s, n, h)' <=> Consistent(s, n, h)
      /\ Buffers(req)' <=> Buffers(req)
      /\ Sanitizes(req)' <=> Sanitizes(req)
  BY <1>1, Stays
<1>3. Given' = Given /\ Unread' = Unread /\ ReadSent' = ReadSent /\ ReadHalf' = ReadHalf
  BY <1>1 DEF Given, Unread, ReadSent, ReadHalf
<1>4. Delivered'
  BY <1>1, DeliveredStays
<1>5. SoundFrames' = SoundFrames
  BY <1>1 DEF SoundFrames, Sound, InThinking
<1>6. Transport'
  BY <1>1, <1>3 DEF IInv, Transport
<1>7. Typed' /\ Control' /\ PingsFirst'
  BY <1>1, <1>2, <1>3 DEF IInv, Typed, Control, PingsFirst
<1>8. HeldBack' /\ Kept'
  BY <1>1, <1>2, <1>3 DEF IInv, HeldBack, Passing, Kept
<1>9. Finished' /\ BrokenOff'
  BY <1>1, <1>2, <1>3, <1>4, <1>5 DEF IInv, Finished, Complete, BrokenOff
<1> QED
  BY <1>6, <1>7, <1>8, <1>9 DEF IInv

\* An answer that is made up is a whole message of the hook.
LEMMA MadeIsComplete ==
    ASSUME IInv, Buffers(req), NEW body \in {EarlyAnswer(buffered, req), LateAnswer(buffered, req)},
           body # NoMessage
    PROVE  /\ MadeMessage(body) \in Seq(Event) /\ MadeMessage(body) # << >>
           /\ \A j \in 1..Len(MadeMessage(body)) : MadeMessage(body)[j] # Ping
           /\ << >> \o MadeMessage(body) = MadeMessage(body)
<1>1. buffered \in Seq(Item) /\ req \in Requests
  BY DEF IInv, Typed, Transport
<1>2. Plain(body)
  BY <1>1, AnswersAre
<1> DEFINE m == MadeMessage(body)
<1>3. m \in Seq(Event) /\ m # << >> /\ \A j \in 1..Len(m) : m[j] # Ping
  BY <1>2, MadeMessageIs
<1> HIDE DEF m
<1>4. << >> \o m = m
  BY <1>3, ConcatEmptySeq
<1> QED
  BY <1>3, <1>4 DEF m

LEMMA TimedOutInv == IInv /\ TimedOut => IInv'
<1> DEFINE early == EarlyAnswer(buffered, req)
           ping == <<Ping>>
<1> SUFFICES ASSUME IInv, TimedOut
             PROVE  IInv'
  OBVIOUS
<1>1. /\ pc = "wait" /\ pending = "running" /\ Buffers(req)
      /\ req' = req /\ message' = message /\ cut' = cut /\ sent' = sent /\ half' = half
      /\ item' = item /\ buffered' = buffered /\ sanitizer' = sanitizer /\ out' = out
  BY DEF TimedOut
<1>2. \/ /\ early # NoMessage /\ queue' = MadeMessage(early)
         /\ pending' = "canceled" /\ pc' = "last"
      \/ queue' = ping /\ pc' = "ping" /\ pending' = "running"
  BY <1>1 DEF TimedOut
<1>3. Transport' /\ ReadSent' = sent /\ ReadHalf' = half
  BY <1>1, <1>2, TransportStays
<1>4. /\ \A s, n, h : Consistent(s, n, h)' <=> Consistent(s, n, h)
      /\ Buffers(req)' <=> Buffers(req)
      /\ Sanitizes(req)' <=> Sanitizes(req)
  BY <1>1, Stays
<1>5. ReadSent = sent /\ ReadHalf = half /\ Given' = Given /\ Given = << >>
  BY <1>1 DEF ReadSent, ReadHalf, Unread, Given, IInv, PingsFirst
<1>6. Kept'
  BY <1>1, <1>3, <1>4, <1>5 DEF IInv, Kept
<1>7. HeldBack' /\ BrokenOff'
  BY <1>1, <1>2, <1>4 DEF HeldBack, BrokenOff
<1>8. CASE /\ early # NoMessage /\ queue' = MadeMessage(early)
           /\ pending' = "canceled" /\ pc' = "last"
  <2> HIDE DEF early
  <2>1. /\ MadeMessage(early) \in Seq(Event) /\ MadeMessage(early) # << >>
        /\ \A j \in 1..Len(MadeMessage(early)) : MadeMessage(early)[j] # Ping
        /\ << >> \o MadeMessage(early) = MadeMessage(early)
    BY <1>1, <1>8, MadeIsComplete DEF early
  <2>2. Typed' /\ Control' /\ PingsFirst'
    BY <1>1, <1>4, <1>5, <1>8, <2>1 DEF IInv, Typed, Control, PingsFirst
  <2>3. Complete(Given \o queue)'
    <3>1. (Given \o queue)' = MadeMessage(early)
      BY <1>5, <1>8, <2>1
    <3>2. early = EarlyAnswer(buffered, req)'
      BY <1>1 DEF early
    <3> QED
      BY <1>1, <1>4, <1>8, <3>1, <3>2 DEF Complete
  <2> QED
    BY <1>3, <1>6, <1>7, <2>2, <2>3 DEF IInv, Finished
<1>9. CASE queue' = ping /\ pc' = "ping" /\ pending' = "running"
  <2>1. ping \in Seq(Event)
    BY PingIsEvent
  <2>2. Typed'
    BY <1>1, <1>4, <1>9, <2>1 DEF IInv, Typed
  <2>3. Control' /\ PingsFirst' /\ Finished'
    BY <1>1, <1>4, <1>5, <1>9 DEF IInv, Control, PingsFirst, Finished
  <2> QED
    BY <1>3, <1>6, <1>7, <2>2, <2>3 DEF IInv
<1> QED
  BY <1>2, <1>8, <1>9

LEMMA FinishInv == IInv /\ Finish => IInv'
<1> DEFINE late == LateAnswer(buffered, req)
           all == Given \o queue'
           g == Given
<1> SUFFICES ASSUME IInv, Finish
             PROVE  IInv'
  OBVIOUS
<1>1. /\ pc = "wait" /\ pending = "done" /\ item.part = "end" /\ pending' = "none"
      /\ req' = req /\ message' = message /\ cut' = cut /\ sent' = sent /\ half' = half
      /\ buffered' = buffered /\ sanitizer' = sanitizer /\ out' = out
  BY DEF Finish, Taken
<1>2. queue' = IF ~Buffers(req) THEN Flush(sanitizer)
               ELSE IF late # NoMessage THEN MadeMessage(late)
               ELSE Flush(Fed(buffered))
  BY DEF Finish
<1>3. pc' = IF queue' = << >> THEN "ended" ELSE "last"
  BY DEF Finish
<1>4. Transport' /\ ReadSent' = sent /\ ReadHalf' = half
  BY <1>1, TransportStays
<1>5. /\ \A n : SoundTo(n)' = SoundTo(n)
      /\ Buffers(req)' <=> Buffers(req)
      /\ Sanitizes(req)' <=> Sanitizes(req)
  BY <1>1, Stays
<1>6. ReadSent = sent /\ ReadHalf = half /\ Given' = Given
  BY <1>1 DEF ReadSent, ReadHalf, Unread, Given
<1>7. SoundFrames = SoundTo(sent)
  BY DEF SoundFrames, SoundTo
<1>8. queue = << >> /\ sanitizer \in State /\ sanitizer.given = << >> /\ buffered \in Seq(Item)
      /\ (Buffers(req) => g = << >>) /\ g \in Seq(Event)
  BY <1>1, GivenIs DEF IInv, Control, Typed, PingsFirst
\* The rest of the answer, or what is said instead.
<1>9. /\ queue' \in Seq(Event)
      /\ \A j \in 1..Len(queue') : queue'[j] # Ping
      /\ \/ /\ all \in Seq(Item) /\ FramesIn(all) = SoundTo(sent)
            /\ Buffers(req) => late = NoMessage
         \/ Buffers(req) /\ late # NoMessage /\ all = MadeMessage(late)
  <2>0. ASSUME NEW q \in Seq(Item)
        PROVE  q \in Seq(Event) /\ \A j \in 1..Len(q) : q[j] # Ping
    <3>1. Item \subseteq Event
      BY DEF Event
    <3> QED
      BY <3>1, SeqMonotonic, SeqFacts, ItemIs
  <2>1. CASE ~Buffers(req)
    <3>1. g \o << >> = g
      <4> HIDE DEF g
      <4> QED
        BY <1>8, ConcatEmptySeq
    <3>2. Passing(g)
      BY <1>1, <1>8, <2>1, <3>1 DEF IInv, HeldBack
    <3>3. g \in Seq(Item)
      BY <3>2 DEF Passing
    <3>4. FramesIn(g) = SoundTo(sent)
      <4>1. CASE Sanitizes(req)
        <5>1. Consistent([sanitizer EXCEPT !.given = g], ReadSent, ReadHalf)
          BY <3>2, <4>1 DEF Passing
        <5> HIDE DEF g
        <5>2. [sanitizer EXCEPT !.given = g].given = g
          BY <1>8, <3>3, StateIs
        <5> QED
          BY <1>6, <5>1, <5>2 DEF Consistent
      <4>2. CASE ~Sanitizes(req)
        BY <1>6, <3>2, <4>2 DEF Passing
      <4> QED
        BY <4>1, <4>2
    <3> DEFINE q == Flush(sanitizer)
    <3>5. /\ q \in Seq(Item) /\ g \o q \in Seq(Item)
          /\ FramesIn(g \o q) = IF g = << >> THEN FramesIn(sanitizer.given) ELSE FramesIn(g)
      <4> HIDE DEF g
      <4> QED
        BY <1>8, <3>3, FlushIs
    <3>6. queue' = q
      BY <1>2, <2>1
    <3>7. q \in Seq(Event) /\ \A j \in 1..Len(q) : q[j] # Ping
      <4> HIDE DEF q
      <4> QED
        BY <2>0, <3>5
    <3>8. FramesIn(g \o q) = FramesIn(g)
      BY <1>8, <3>5
    <3> QED
      BY <2>1, <3>4, <3>5, <3>6, <3>7, <3>8
  <2>2. CASE Buffers(req) /\ late # NoMessage
    <3> HIDE DEF late
    <3>1. /\ MadeMessage(late) \in Seq(Event)
          /\ \A j \in 1..Len(MadeMessage(late)) : MadeMessage(late)[j] # Ping
          /\ << >> \o MadeMessage(late) = MadeMessage(late)
      BY <2>2, MadeIsComplete DEF late
    <3>2. queue' = MadeMessage(late)
      BY <1>2, <2>2
    <3> QED
      BY <1>8, <2>2, <3>1, <3>2
  <2>3. CASE Buffers(req) /\ late = NoMessage
    <3> DEFINE fed == Fed(buffered)
               q == Flush(fed)
               e == << >>
    <3>1. Consistent(fed, sent, half)
      BY <1>1, <1>6, <2>3 DEF IInv, Kept
    <3>2. fed \in State /\ FramesIn(fed.given) = SoundTo(sent)
      BY <3>1 DEF Consistent
    <3>3. e \in Seq(Item)
      OBVIOUS
    <3> HIDE DEF fed, e
    <3>4. /\ q \in Seq(Item) /\ e \o q \in Seq(Item) /\ FramesIn(e \o q) = FramesIn(fed.given)
      BY <3>2, <3>3, FlushIs DEF e
    <3>5. queue' = q /\ g = e
      BY <1>2, <1>8, <2>3 DEF e, fed
    <3>6. q \in Seq(Event) /\ \A j \in 1..Len(q) : q[j] # Ping
      <4> HIDE DEF q
      <4> QED
        BY <2>0, <3>4
    <3> QED
      BY <2>3, <3>2, <3>4, <3>5, <3>6
  <2> QED
    BY <2>1, <2>2, <2>3
<1>10. Typed'
  BY <1>1, <1>5, <1>9 DEF IInv, Typed
<1>11. Control'
  BY <1>1, <1>3, <1>5 DEF Control
<1>12. PingsFirst'
  BY <1>1, <1>3, <1>5, <1>6, <1>9 DEF IInv, PingsFirst
<1>13. Kept'
  BY <1>1, <1>3, <1>4, <1>5, <1>6 DEF IInv, Kept
<1>14. HeldBack' /\ BrokenOff'
  BY <1>3 DEF HeldBack, BrokenOff
<1>15. Finished'
  <2>1. (Given \o queue)' = all
    BY <1>6
  <2>2. SoundFrames' = SoundTo(sent)
    BY <1>1, <1>7 DEF SoundFrames, Sound, InThinking
  <2>3. late = LateAnswer(buffered, req)'
    BY <1>1
  <2> HIDE DEF all, late
  <2>4. Complete(Given \o queue)'
    BY <1>5, <1>9, <2>1, <2>2, <2>3 DEF Complete
  <2> QED
    BY <2>4 DEF Finished
<1> QED
  BY <1>4, <1>10, <1>11, <1>12, <1>13, <1>14, <1>15 DEF IInv

LEMMA GiveInv == IInv /\ Give => IInv'
<1> DEFINE h == Head(queue)
           r == Tail(queue)
           o == Append(out, h)
<1> SUFFICES ASSUME IInv, Give
             PROVE  IInv'
  OBVIOUS
<1>1. /\ pc \in {"pass", "ping", "last"} /\ queue' = r /\ out' = o
      /\ req' = req /\ message' = message /\ cut' = cut /\ sent' = sent /\ half' = half
      /\ item' = item /\ buffered' = buffered /\ sanitizer' = sanitizer
  BY DEF Give
<1>2. queue # << >>
  BY <1>1 DEF IInv, Control
<1>3. out \in Seq(Event) /\ queue \in Seq(Event) /\ Given = NoPing(out) /\ Given \in Seq(Event)
  BY GivenIs
<1>4. /\ h \in Event /\ r \in Seq(Event) /\ h = queue[1] /\ Len(r) = Len(queue) - 1
      /\ Len(queue) \in Nat /\ Len(queue) # 0
      /\ \A i \in 1..Len(r) : r[i] = queue[i+1]
  BY <1>2, <1>3, HeadMoved
<1>5. Append(Given, h) \o r = Given \o queue
  <2> DEFINE g == Given
  <2>1. g \in Seq(Event)
    BY <1>3
  <2> HIDE DEF g
  <2>2. Append(g, h) \o r = g \o queue
    BY <1>2, <1>3, <2>1, HeadMoved
  <2> QED
    BY <2>2 DEF g
<1>6. Len(r) = 0 <=> r = << >>
  BY <1>4, EmptySeq
<1> HIDE DEF h, r
<1>7. /\ o \in Seq(Event) /\ Len(o) = Len(out) + 1 /\ Len(out) \in Nat
      /\ \A j \in 1..Len(out) : o[j] = out[j]
      /\ o[Len(out)+1] = h
  BY <1>3, <1>4, AppendProperties, LenProperties
<1>8. NoPing(o) = IF h = Ping THEN NoPing(out) ELSE Append(NoPing(out), h)
  BY <1>3, <1>4, NoPingIs
<1> HIDE DEF o
<1>9. Given' = IF h = Ping THEN Given ELSE Append(Given, h)
  <2>1. Given' = NoPing(o)
    BY <1>1 DEF Given, NoPing
  <2> QED
    BY <1>3, <1>8, <2>1
<1>10. /\ \A n : SoundTo(n)' = SoundTo(n)
       /\ \A s, n, k : Consistent(s, n, k)' <=> Consistent(s, n, k)
       /\ Buffers(req)' <=> Buffers(req)
       /\ Sanitizes(req)' <=> Sanitizes(req)
  BY <1>1, Stays
<1>11. Framed(message)'
  BY <1>1 DEF IInv, Transport, Framed, Once, Begun, Filled
<1>12. Typed'
  BY <1>1, <1>4, <1>7, <1>10 DEF IInv, Typed
<1>13. CASE pc = "ping"
  <2>1. /\ queue = <<Ping>> /\ Buffers(req) /\ pending \in {"running", "done"} /\ Given = << >>
    BY <1>13 DEF IInv, Control, PingsFirst
  <2>2. h = Ping /\ Len(queue) = 1
    BY <1>4, <2>1
  <2>3. r = << >> /\ Given' = Given /\ pc' = "wait" /\ pending' = pending
    <3>1. pc' = "wait" /\ pending' = pending
      BY <1>13, <2>2 DEF Give
    <3> QED
      BY <1>4, <1>6, <1>9, <2>2, <3>1
  <2>4. Unread' = Unread /\ ReadSent' = ReadSent /\ ReadHalf' = ReadHalf
    BY <1>1, <2>3 DEF Unread, ReadSent, ReadHalf
  <2>5. Transport'
    BY <1>1, <1>11, <2>3, <2>4 DEF IInv, Transport
  <2>6. Control'
    BY <1>1, <2>1, <2>3 DEF Control
  <2>7. \A j \in 1..Len(out) : out[j] = Ping
    <3>1. Range(Given) = {out[j] : j \in {l \in 1..Len(out) : out[l] # Ping}}
      BY GivenIs
    <3>2. Range(<< >>) = {}
      BY DEF Range
    <3> QED
      BY <2>1, <3>1, <3>2
  <2>8. \A j \in 1..Len(o) : o[j] = Ping
    BY <1>7, <2>2, <2>7
  <2>9. PingsFirst'
    <3>1. \A j \in 1..Len(o) : \A k \in 1..(j - 1) : k \in 1..Len(o)
      BY <1>7
    <3>2. Len(<< >>) = 0 /\ 1..0 = {}
      OBVIOUS
    <3>3. \A j \in 1..Len(r) : r[j] # Ping
      BY <2>3, <3>2
    <3> QED
      BY <1>1, <1>10, <2>1, <2>3, <2>8, <3>1, <3>3 DEF PingsFirst
  <2>10. Kept'
    BY <1>1, <1>10, <1>13, <2>1, <2>3, <2>4 DEF IInv, Kept
  <2>11. HeldBack' /\ Finished' /\ BrokenOff'
    BY <1>10, <2>1, <2>3 DEF HeldBack, Finished, BrokenOff
  <2> QED
    BY <1>12, <2>5, <2>6, <2>9, <2>10, <2>11 DEF IInv
<1>14. CASE pc \in {"pass", "last"}
  <2>1. \A j \in 1..Len(queue) : queue[j] # Ping
    BY <1>14 DEF IInv, PingsFirst
  <2>2. h # Ping /\ \A j \in 1..Len(r) : r[j] # Ping
    <3>1. 1 \in 1..Len(queue) /\ \A j \in 1..Len(r) : j + 1 \in 1..Len(queue)
      BY <1>4
    <3> QED
      BY <1>4, <2>1, <3>1
  <2>3. Given' = Append(Given, h)
    BY <1>9, <2>2
  <2>4. Given' \o queue' = Given \o queue
    BY <1>1, <1>5, <2>3
  <2>5. \/ /\ pc = "pass" /\ pending = "none" /\ ~Buffers(req)
           /\ \/ r # << >> /\ pc' = "pass" /\ pending' = "none"
              \/ r = << >> /\ pc' = "wait" /\ pending' = "running"
        \/ /\ pc = "last" /\ pending \in {"none", "canceled"} /\ pending' = pending
           /\ \/ r # << >> /\ pc' = "last"
              \/ r = << >> /\ pc' = "ended"
    <3>1. /\ pc = "pass" => pending = "none" /\ ~Buffers(req)
          /\ pc = "last" => pending \in {"none", "canceled"}
      BY DEF IInv, Control
    <3>2. IF Len(queue) = 1 /\ pc = "pass" THEN pc' = "wait" /\ pending' = "running"
          ELSE /\ pc' = IF Len(queue) > 1 THEN pc ELSE IF pc = "ping" THEN "wait" ELSE "ended"
               /\ pending' = pending
      BY DEF Give, ReadOn
    <3>3. Len(queue) = 1 <=> r = << >>
      BY <1>4, <1>6
    <3>4. Len(queue) > 1 <=> r # << >>
      BY <1>4, <1>6
    <3> QED
      BY <1>14, <3>1, <3>2, <3>3, <3>4
  <2>6. Transport' /\ ReadSent' = sent /\ ReadHalf' = half
    <3>1. pending' \in {"none", "running", "canceled"}
      BY <2>5
    <3> QED
      BY <1>1, <3>1, TransportStays
  <2>7. ReadSent = sent /\ ReadHalf = half
    BY <2>5 DEF ReadSent, ReadHalf, Unread
  <2>8. Control'
    BY <1>1, <1>10, <2>5 DEF Control
  <2>9. PingsFirst'
    <3>1. \A j \in 1..Len(out) : out[j] = Ping => Buffers(req) /\ \A k \in 1..(j - 1) : out[k] = Ping
      BY DEF IInv, PingsFirst
    <3>2. ASSUME NEW j \in 1..Len(o), o[j] = Ping
          PROVE  Buffers(req) /\ \A k \in 1..(j - 1) : o[k] = Ping
      <4>1. j \in 1..Len(out)
        BY <1>7, <2>2, <3>2
      <4>2. \A k \in 1..(j - 1) : k \in 1..Len(out)
        BY <1>7, <4>1
      <4> QED
        BY <1>7, <3>1, <3>2, <4>1, <4>2
    <3>3. Buffers(req)' => pc' \notin {"wait", "ping", "raised"}
      BY <1>10, <2>5
    <3> QED
      BY <1>1, <1>10, <2>2, <3>2, <3>3 DEF PingsFirst
  <2>10. HeldBack'
    <3>1. (pc' \in {"wait", "pass"} /\ ~Buffers(req)') => Passing(Given \o queue)
      BY <1>10, <2>5 DEF IInv, HeldBack
    <3> QED
      BY <1>1, <1>10, <2>4, <2>6, <2>7, <3>1 DEF HeldBack, Passing
  <2>11. Kept'
    BY <1>1, <1>10, <2>5, <2>6, <2>7 DEF IInv, Kept
  <2>12. Finished'
    <3>1. SoundFrames' = SoundFrames
      BY <1>1 DEF SoundFrames, Sound, InThinking
    <3>2. pc' \in {"last", "ended"} => Complete(Given \o queue)
      BY <2>5 DEF IInv, Finished
    <3> QED
      BY <1>1, <1>10, <2>4, <3>1, <3>2 DEF Finished, Complete
  <2>13. BrokenOff'
    BY <2>5 DEF BrokenOff
  <2> QED
    BY <1>12, <2>6, <2>8, <2>9, <2>10, <2>11, <2>12, <2>13 DEF IInv
<1> QED
  BY <1>1, <1>13, <1>14

\* The invariant that says how what was read, what is kept and what the client
\* has belong together holds of every state of the hook (handler.py:197-297).
THEOREM HookInvariance == Spec => []IInv
<1>1. Init => IInv
  BY InitInv
<1>2. IInv /\ [Next]_vars => IInv'
  BY ReturnsInv, ProviderInv, KeepInv, PassOnInv, TimedOutInv, FinishInv, RaiseInv, GiveInv,
     DisconnectInv, StutterInv DEF Next, Hook
<1> QED
  BY <1>1, <1>2, PTL DEF Spec

\* What is complete at the end.
LEMMA EndedIs ==
    ASSUME IInv, pc = "ended"
    PROVE  /\ Complete(Given) /\ Given \in Seq(Event)
           /\ \/ /\ Given \in Seq(Item) /\ GivenFrames = SoundFrames
                 /\ Buffers(req) => LateAnswer(buffered, req) = NoMessage
              \/ /\ Buffers(req)
                 /\ \E body \in {EarlyAnswer(buffered, req), LateAnswer(buffered, req)} :
                        /\ body # NoMessage /\ Plain(body)
                        /\ Given = MadeMessage(body)
                        /\ GivenFrames = FramesOf(body)
<1> DEFINE g == Given
<1>1. g \in Seq(Event) /\ queue = << >>
  BY GivenIs DEF IInv, Control
<1>2. Complete(g \o << >>)
  BY <1>1 DEF IInv, Finished
<1>3. g \o << >> = g
  <2> HIDE DEF g
  <2> QED
    BY <1>1, ConcatEmptySeq
<1>4. Complete(g)
  BY <1>2, <1>3
<1>5. ASSUME NEW body \in {EarlyAnswer(buffered, req), LateAnswer(buffered, req)},
             body # NoMessage, g = MadeMessage(body)
      PROVE  Plain(body) /\ GivenFrames = FramesOf(body)
  <2>1. buffered \in Seq(Item) /\ req \in Requests
    BY DEF IInv, Typed, Transport
  <2>2. Plain(body)
    BY <1>5, <2>1, AnswersAre
  <2>3. FramesIn(MadeMessage(body)) = FramesOf(body)
    BY <2>2, MadeMessageIs
  <2> QED
    BY <1>5, <2>2, <2>3 DEF GivenFrames
<1>6. \/ /\ g \in Seq(Item) /\ FramesIn(g) = SoundFrames
         /\ Buffers(req) => LateAnswer(buffered, req) = NoMessage
      \/ /\ Buffers(req)
         /\ \E body \in {EarlyAnswer(buffered, req), LateAnswer(buffered, req)} :
                body # NoMessage /\ g = MadeMessage(body)
  BY <1>4 DEF Complete
<1> QED
  BY <1>1, <1>4, <1>5, <1>6 DEF GivenFrames

\* Such a state satisfies what StreamIntegrity says.
LEMMA IntegrityHolds == IInv => StreamIntegrity
<1> SUFFICES ASSUME IInv
             PROVE  StreamIntegrity
  OBVIOUS
<1>1. \A j \in DOMAIN out : out[j] = Ping =>
          Buffers(req) /\ \A k \in 1..(j - 1) : out[k] = Ping
  <2>1. DOMAIN out = 1..Len(out)
    BY SeqFacts DEF IInv, Typed
  <2> QED
    BY <2>1 DEF IInv, PingsFirst
<1>2. Delivered
  BY AlwaysDelivered
<1>3. ASSUME pc = "ended"
      PROVE  \/ /\ \A e \in Range(Given) : e.by = "provider"
                /\ IsPrefix(GivenFrames, SoundFrames)
                /\ GivenFrames = SoundFrames
             \/ /\ Buffers(req)
                /\ \A e \in Range(Given) : e.by = "hook"
                /\ OneMessage(GivenFrames)
                /\ Last(GivenFrames).ev = "end"
  <2> DEFINE g == Given
  <2>1. CASE Given \in Seq(Item) /\ GivenFrames = SoundFrames
    <3>1. g \in Seq(Item)
      BY <2>1
    <3> HIDE DEF g
    <3>2. \A e \in Range(g) : e.by = "provider"
      BY <3>1, SeqFacts, ItemIs
    <3>3. SoundFrames \in Seq(Frame)
      <4>1. Framed(message) /\ sent \in Nat /\ sent <= Len(message)
        BY LenProperties DEF IInv, Transport, Framed
      <4> QED
        BY <4>1, SoundNext DEF SoundFrames, SoundTo
    <3>4. IsPrefix(SoundFrames, SoundFrames)
      <4> DEFINE s == SoundFrames
      <4>1. s \in Seq(Frame)
        BY <3>3
      <4> HIDE DEF s
      <4>2. IsPrefix(s, s)
        BY <4>1, PrefixSame
      <4> QED
        BY <4>2 DEF s
    <3> QED
      BY <2>1, <3>2, <3>4 DEF g
  <2>2. CASE /\ Buffers(req)
             /\ \E body \in {EarlyAnswer(buffered, req), LateAnswer(buffered, req)} :
                    /\ body # NoMessage /\ Plain(body)
                    /\ Given = MadeMessage(body)
                    /\ GivenFrames = FramesOf(body)
    <3>1. PICK body : Plain(body) /\ Given = MadeMessage(body) /\ GivenFrames = FramesOf(body)
      BY <2>2
    <3> DEFINE e == << >>
               m == MadeMessage(body)
               fs == FramesOf(body)
    <3>2. m \in Seq(Event) /\ m # e /\ e \in Seq(Event)
      BY <3>1, MadeMessageIs
    <3>3. m \o e = m
      <4> HIDE DEF m
      <4> QED
        BY <3>2, ConcatEmptySeq
    <3>4. (\A x \in Range(m) : x.by = "hook") /\ OneMessage(FramesIn(m))
      <4>1. m \o e = MadeMessage(body)
        BY <3>3
      <4> HIDE DEF m
      <4> QED
        BY <3>1, <3>2, <4>1, MessageBegun
    <3>5. fs \in Seq(Frame) /\ fs # << >> /\ fs[Len(fs)].ev = "end"
      BY <3>1, MadeIsMessage
    <3>6. Last(fs).ev = "end"
      BY <3>5 DEF Last
    <3> QED
      BY <2>2, <3>1, <3>4, <3>6 DEF GivenFrames
  <2> QED
    BY <1>3, <2>1, <2>2, EndedIs
<1>4. \/ /\ \A e \in Range(Given) : e.by = "provider"
         /\ IsPrefix(GivenFrames, SoundFrames)
         /\ pc = "ended" => GivenFrames = SoundFrames
      \/ /\ Buffers(req)
         /\ \A e \in Range(Given) : e.by = "hook"
         /\ OneMessage(GivenFrames)
         /\ pc = "ended" => Last(GivenFrames).ev = "end"
  BY <1>2, <1>3 DEF Delivered
<1>5. pc = "raised" /\ Buffers(req) => Given = << >>
  BY DEF IInv, PingsFirst
<1>6. Ended => pending # "running"
  BY DEF IInv, Control, Ended
<1> QED
  BY <1>1, <1>4, <1>5, <1>6 DEF StreamIntegrity

\* The client gets the provider's own answer or one that was made up, never
\* parts of both, in order and whole at the end, with pings only before it,
\* however reads, timeouts and the client's leaving interleave
\* (handler.py:220-260).
THEOREM Integrity == Spec => []StreamIntegrity
<1>1. Spec => []IInv
  BY HookInvariance
<1> QED
  BY <1>1, IntegrityHolds, PTL

-----------------------------------------------------------------------------
(* The calls of a message. *)

CallFrames == {f \in Frame : f.ev = "open" /\ f.b.k = "use"}

\* They are told by the frames that start them.
LEMMA CallsInIs ==
    ASSUME NEW fs \in Seq(Frame)
    PROVE  LET opens == Only(fs, CallFrames)
           IN  /\ CallsIn(fs) = [j \in DOMAIN opens |-> opens[j].b]
               /\ Len(CallsIn(fs)) = Len(opens)
               /\ CallsIn(fs) = << >> <=> opens = << >>
               /\ \A j \in 1..Len(opens) : CallsIn(fs)[j] = opens[j].b
               /\ Range(opens) = {f \in Range(fs) : f \in CallFrames}
<1> DEFINE opens == Only(fs, CallFrames)
           is == {j \in DOMAIN fs : fs[j] \in CallFrames}
           js == {j \in DOMAIN fs : fs[j].ev = "open" /\ fs[j].b.k = "use"}
           c == CallsIn(fs)
           n == Len(opens)
<1>1. /\ DOMAIN fs = 1..Len(fs)
      /\ \A j \in 1..Len(fs) : fs[j] \in Frame
      /\ Range(fs) = {fs[j] : j \in 1..Len(fs)}
  BY SeqFacts
<1>2. is = js
  BY <1>1 DEF CallFrames
<1>3. opens = Picked(fs, is)
  BY DEF Only
<1>4. c = [j \in DOMAIN opens |-> opens[j].b]
  BY <1>2, <1>3 DEF CallsIn
<1>5. opens \in Seq(Frame) /\ Range(opens) = {fs[j] : j \in is \cap 1..Len(fs)}
  <2> HIDE DEF is, opens
  <2> QED
    BY <1>3, PickedFacts
<1>6. Range(opens) = {f \in Range(fs) : f \in CallFrames}
  BY <1>1, <1>5
<1> HIDE DEF opens, c
<1>7. n \in Nat /\ DOMAIN opens = 1..n
  BY <1>5, SeqFacts
<1> HIDE DEF n
<1>8. c = [j \in 1..n |-> c[j]] /\ \A j \in 1..n : c[j] = opens[j].b
  BY <1>4, <1>7
<1>9. Len(c) = n /\ c \in Seq(Range(c))
  BY <1>7, <1>8, FunctionIsSeq
<1>10. c = << >> <=> opens = << >>
  <2>1. c = << >> <=> n = 0
    BY <1>9, EmptySeq
  <2>2. opens = << >> <=> Len(opens) = 0
    BY <1>5, EmptySeq
  <2> QED
    BY <2>1, <2>2 DEF n
<1> QED
  BY <1>4, <1>6, <1>8, <1>9, <1>10 DEF opens, c, n

\* So they are there when a frame starts one, and all of such frames.
LEMMA CallsAre ==
    ASSUME NEW fs \in Seq(Frame)
    PROVE  /\ CallsIn(fs) # << >> <=> \E j \in 1..Len(fs) : fs[j] \in CallFrames
           /\ Len(CallsIn(fs)) = 1 =>
                  \E j \in 1..Len(fs) : /\ fs[j] \in CallFrames
                                        /\ CallsIn(fs)[1] = fs[j].b
                                        /\ \A k \in 1..Len(fs) : fs[k] \in CallFrames => k = j
<1> DEFINE opens == Only(fs, CallFrames)
           is == {j \in DOMAIN fs : fs[j] \in CallFrames}
<1>1. /\ DOMAIN fs = 1..Len(fs) /\ Range(fs) = {fs[j] : j \in 1..Len(fs)}
  BY SeqFacts
<1>2. /\ Len(CallsIn(fs)) = Len(opens)
      /\ CallsIn(fs) = << >> <=> opens = << >>
      /\ \A j \in 1..Len(opens) : CallsIn(fs)[j] = opens[j].b
      /\ Range(opens) = {f \in Range(fs) : f \in CallFrames}
  BY CallsInIs
<1>3. opens = Picked(fs, is) /\ opens \in Seq(Frame)
  <2>1. opens = Picked(fs, is)
    BY DEF Only
  <2> HIDE DEF is
  <2>2. Picked(fs, is) \in Seq(Frame)
    BY PickedFacts
  <2> QED
    BY <2>1, <2>2
<1>4. \A j, k \in 1..Len(fs) : fs[j] \in CallFrames /\ fs[k] \in CallFrames /\ j # k =>
          Len(opens) >= 2
  <2> TAKE j, k \in 1..Len(fs)
  <2> HAVE fs[j] \in CallFrames /\ fs[k] \in CallFrames /\ j # k
  <2>1. j \in is \cap 1..Len(fs) /\ k \in is \cap 1..Len(fs)
    BY <1>1
  <2> HIDE DEF is
  <2> QED
    BY <1>3, <2>1, PickedTwo
<1> HIDE DEF opens, is
<1>5. /\ Range(opens) = {opens[j] : j \in 1..Len(opens)} /\ Len(opens) \in Nat
      /\ opens = << >> <=> Len(opens) = 0
  BY <1>3, SeqFacts, EmptySeq
<1>6. CallsIn(fs) # << >> <=> \E j \in 1..Len(fs) : fs[j] \in CallFrames
  <2>1. Range(opens) = {} <=> Len(opens) = 0
    <3>1. Len(opens) # 0 => 1 \in 1..Len(opens)
      BY <1>5
    <3>2. Len(opens) = 0 => 1..Len(opens) = {}
      BY <1>5
    <3> QED
      BY <1>5, <3>1, <3>2
  <2>2. Range(opens) # {} <=> \E j \in 1..Len(fs) : fs[j] \in CallFrames
    BY <1>1, <1>2
  <2> QED
    BY <1>2, <1>5, <2>1, <2>2
<1>7. ASSUME Len(CallsIn(fs)) = 1
      PROVE  \E j \in 1..Len(fs) : /\ fs[j] \in CallFrames
                                   /\ CallsIn(fs)[1] = fs[j].b
                                   /\ \A k \in 1..Len(fs) : fs[k] \in CallFrames => k = j
  <2>1. Len(opens) = 1 /\ 1 \in 1..Len(opens)
    BY <1>2, <1>7
  <2>2. opens[1] \in Range(opens)
    BY <1>5, <2>1
  <2>3. PICK j \in 1..Len(fs) : opens[1] = fs[j] /\ fs[j] \in CallFrames
    BY <1>1, <1>2, <2>2
  <2>4. CallsIn(fs)[1] = fs[j].b
    BY <1>2, <2>1, <2>3
  <2>5. ASSUME NEW k \in 1..Len(fs), fs[k] \in CallFrames
        PROVE  k = j
    <3>1. ~(Len(opens) >= 2)
      BY <2>1
    <3> QED
      BY <1>4, <2>3, <2>5, <3>1
  <2> QED
    BY <2>3, <2>4, <2>5
<1> QED
  BY <1>6, <1>7

\* The sanitizer drops no frame that starts a call.
LEMMA SoundKeepsCalls ==
    ASSUME Framed(message), sent \in 0..Len(message)
    PROVE  CallsIn(SoundFrames) = CallsSent
<1> DEFINE u == SubSeq(message, 1, sent)
           is == {j \in 1..sent : req.shape = "raw" \/ Sound(j)}
           js == {j \in DOMAIN u : j \in is /\ u[j] \in CallFrames}
           ks == {j \in DOMAIN u : u[j] \in CallFrames}
<1>1. message \in Seq(Frame) /\ sent \in Nat
  BY LenProperties DEF Framed
<1>2. u \in Seq(Frame) /\ Len(u) = sent /\ \A j \in 1..sent : u[j] = message[j]
  BY <1>1, SubSeqFrom
<1>3. SoundFrames = Picked(u, is)
  BY DEF SoundFrames
<1> HIDE DEF u
<1>4. DOMAIN u = 1..sent
  BY <1>2, SeqFacts
<1>5. \A j \in 1..Len(u) : j \in js <=> j \in ks
  <2>1. \A j \in 1..sent : u[j] \in CallFrames => Sound(j)
    BY <1>2 DEF CallFrames, Sound
  <2> QED
    BY <1>2, <1>4, <2>1
<1>6. Only(Picked(u, is), CallFrames) = Picked(u, js)
  <2> HIDE DEF is
  <2> QED
    BY <1>2, OnlyPicked
<1>7. Picked(u, js) = Picked(u, ks)
  <2> HIDE DEF js, ks
  <2> QED
    BY <1>2, <1>5, PickedAgree
<1>8. Only(u, CallFrames) = Picked(u, ks)
  BY DEF Only
<1>9. SoundFrames \in Seq(Frame)
  <2> HIDE DEF is
  <2> QED
    BY <1>2, <1>3, PickedFacts
<1>10. Only(SoundFrames, CallFrames) = Only(u, CallFrames)
  BY <1>3, <1>6, <1>7, <1>8
<1>11. CallsIn(SoundFrames) = CallsIn(u)
  BY <1>2, <1>9, <1>10, CallsInIs
<1> QED
  BY <1>11 DEF CallsSent, u

\* What was read before the end are the frames that came in one piece.
LEMMA ReadAtEnd ==
    ASSUME IInv, pc = "ended", Buffers(req)
    PROVE  /\ Framed(message) /\ sent \in 0..Len(message) /\ sent \in Nat /\ Len(message) \in Nat
           /\ \A j \in 1..sent : j \in 1..Len(message) /\ message[j] \in Frame
           /\ \A f : f \in Range(Readable(buffered)) <=>
                         \E j \in 1..sent : j \notin cut /\ f = message[j]
           /\ buffered \in Seq(Item) /\ req \in Requests
<1>1. /\ Framed(message) /\ sent \in 0..Len(message) /\ message \in Seq(Frame) /\ Len(message) \in Nat
      /\ buffered \in Seq(Item) /\ req \in Requests
  BY LenProperties DEF IInv, Transport, Framed, Typed
<1>2. \A j \in 1..sent : j \in 1..Len(message) /\ message[j] \in Frame
  BY <1>1, SeqFacts
<1>3. ReadSent = sent
  BY DEF ReadSent, Unread, IInv, Control
<1>4. Range(Readable(buffered)) = {message[j] : j \in {i \in 1..sent : i \notin cut}}
  BY <1>3 DEF IInv, Kept
<1> QED
  BY <1>1, <1>2, <1>4

\* Every call that was seen was sent.
LEMMA SeenIsSent ==
    ASSUME IInv, pc = "ended", Buffers(req), NEW f \in Range(Readable(buffered)),
           f.ev \in {"open", "delta"}, f.b.k = "use"
    PROVE  \E k \in 1..sent : /\ message[k] \in CallFrames
                              /\ message[k].i = f.i /\ message[k].b = f.b
<1>1. PICK j \in 1..sent : f = message[j] /\ message[j] \in Frame /\ j \in 1..Len(message)
  BY ReadAtEnd
<1>2. CASE f.ev = "open"
  BY <1>1, <1>2 DEF CallFrames
<1>3. CASE f.ev = "delta"
  <2>1. PICK k \in 1..(j-1) : message[k] = Open(f.i, f.b)
    BY <1>1, <1>3, ReadAtEnd DEF Framed, Begun
  <2>2. k \in 1..sent
    BY <1>1, ReadAtEnd
  <2>3. message[k] \in Frame
    BY <2>2, ReadAtEnd
  <2>4. message[k].ev = "open" /\ message[k].i = f.i /\ message[k].b = f.b
    BY <2>1 DEF Open
  <2> QED
    BY <2>2, <2>3, <2>4 DEF CallFrames
<1> QED
  BY <1>2, <1>3

\* The calls sent are those of the frames sent.
LEMMA SentCalls ==
    ASSUME Framed(message), sent \in 0..Len(message)
    PROVE  /\ CallsSent # << >> <=> \E j \in 1..sent : message[j] \in CallFrames
           /\ Len(CallsSent) = 1 =>
                  \E j \in 1..sent : /\ message[j] \in CallFrames
                                     /\ CallsSent[1] = message[j].b
                                     /\ \A k \in 1..sent : message[k] \in CallFrames => k = j
<1> DEFINE u == SubSeq(message, 1, sent)
<1>1. u \in Seq(Frame) /\ Len(u) = sent /\ \A j \in 1..sent : u[j] = message[j]
  BY SubSeqFrom DEF Framed
<1>2. CallsSent = CallsIn(u)
  BY DEF CallsSent
<1> HIDE DEF u
<1> QED
  BY <1>1, <1>2, CallsAre

\* A single call that was sent is the one seen, and what is seen of it is true.
LEMMA TheCallSeen ==
    ASSUME IInv, pc = "ended", Buffers(req), Replaceable(req), Len(CallsSent) = 1,
           LateAnswer(buffered, req) = NoMessage
    PROVE  AsPlanned(CallsSent[1], req)
<1> DEFINE fs == Readable(buffered)
<1>1. Framed(message) /\ sent \in 0..Len(message)
  BY ReadAtEnd
<1>2. PICK j \in 1..sent : /\ message[j] \in CallFrames
                           /\ CallsSent[1] = message[j].b
                           /\ \A k \in 1..sent : message[k] \in CallFrames => k = j
  BY <1>1, SentCalls
<1> DEFINE i == message[j].i
           b == message[j].b
           of(ev) == {f \in Range(fs) : f.ev = ev /\ f.i = i /\ f.b.k = "use"}
           seen == SeenCall(buffered, i)
<1>3. \A f \in Range(fs) : f.ev \in {"open", "delta"} /\ f.b.k = "use" => f.i = i /\ f.b = b
  BY <1>2, SeenIsSent
<1>4. CallsSeen(buffered) # {} /\ \A n : CallsSeen(buffered) = {n} => AsPlanned(SeenCall(buffered, n), req)
  BY StreamStands
<1>5. CallsSeen(buffered) = {i}
  <2>1. \A n \in CallsSeen(buffered) : n = i
    BY <1>3 DEF CallsSeen
  <2> QED
    BY <1>4, <2>1
<1>6. AsPlanned(seen, req)
  BY <1>4, <1>5
<1>7. seen = [tool |-> IF of("open") = {} THEN "none" ELSE (CHOOSE f \in of("open") : TRUE).b.tool,
              step |-> IF of("delta") = {} THEN 0 ELSE (CHOOSE f \in of("delta") : TRUE).b.step,
              good |-> of("delta") # {} /\ (CHOOSE f \in of("delta") : TRUE).b.good]
  BY DEF SeenCall
<1>8. \A ev \in {"open", "delta"} : of(ev) # {} => (CHOOSE f \in of(ev) : TRUE).b = b
  <2> TAKE ev \in {"open", "delta"}
  <2> DEFINE fev == of(ev)
  <2>1. \A f \in fev : f.b = b
    BY <1>3
  <2> HIDE DEF of, fev, b
  <2>2. fev # {} => (CHOOSE f \in fev : TRUE) \in fev
    OBVIOUS
  <2>3. fev # {} => (CHOOSE f \in fev : TRUE).b = b
    BY <2>1, <2>2
  <2> QED
    BY <2>3 DEF fev
<1>9. req.next.tool \in {"Bash", "Read"}
  BY DEF Replaceable, IsPlanned
<1> DEFINE o == of("open")
           d == of("delta")
<1> HIDE DEF of, seen, b, i
<1>10. seen.tool = req.next.tool /\ seen.step = req.next.step /\ seen.good
  BY <1>6 DEF AsPlanned
<1>11. b.tool = req.next.tool
  <2>1. seen.tool = IF o = {} THEN "none" ELSE (CHOOSE f \in o : TRUE).b.tool
    BY <1>7
  <2>2. o # {}
    BY <1>9, <1>10, <2>1
  <2> QED
    BY <1>8, <1>10, <2>1, <2>2
<1>12. d # {} /\ (CHOOSE f \in d : TRUE).b.good
  BY <1>7, <1>10
<1>13. b.good
  BY <1>8, <1>12
<1>14. b.step = req.next.step
  <2>1. seen.step = IF d = {} THEN 0 ELSE (CHOOSE f \in d : TRUE).b.step
    BY <1>7
  <2> QED
    BY <1>8, <1>10, <1>12, <2>1
<1> QED
  BY <1>2, <1>11, <1>13, <1>14 DEF AsPlanned, b

\* A call that was sent, in one piece or with its arguments in one, was seen.
LEMMA SentIsSeen ==
    ASSUME IInv, pc = "ended", Buffers(req), EachSeen, CallsSent # << >>
    PROVE  CallsSeen(buffered) # {}
<1>1. Framed(message) /\ sent \in 0..Len(message) /\ sent \in Nat
  BY ReadAtEnd
<1>2. PICK j \in 1..sent : message[j] \in CallFrames
  BY <1>1, SentCalls
<1>3. message[j].ev = "open" /\ message[j].b.k = "use"
  BY <1>2 DEF CallFrames
<1>4. j \notin cut \/ (j < sent /\ j + 1 \notin cut)
  BY <1>3 DEF EachSeen
<1>5. CASE j \notin cut
  <2>1. message[j] \in Range(Readable(buffered))
    BY <1>5, ReadAtEnd
  <2> QED
    BY <1>3, <2>1 DEF CallsSeen
<1>6. CASE j < sent /\ j + 1 \notin cut
  <2> DEFINE k == j + 1
  <2>1. k \in 1..sent /\ k \notin cut
    BY <1>1, <1>6
  <2>2. j \in 1..Len(message)
    BY ReadAtEnd
  <2>3. message[k] = Delta(message[j].i, message[j].b)
    BY <1>1, <1>3, <2>2 DEF Framed, Filled
  <2> HIDE DEF k
  <2>4. message[k] \in Range(Readable(buffered))
    BY <2>1, ReadAtEnd
  <2>5. message[k].ev = "delta" /\ message[k].b.k = "use"
    BY <1>3, <2>3 DEF Delta
  <2> QED
    BY <2>4, <2>5 DEF CallsSeen
<1> QED
  BY <1>4, <1>5, <1>6

\* An answer in place of the stream calls what the prompt plans.
LEMMA MadeCalls ==
    ASSUME IInv, pc = "ended", Buffers(req), Replaceable(req),
           NEW body \in {EarlyAnswer(buffered, req), LateAnswer(buffered, req)},
           body # NoMessage, GivenFrames = FramesOf(body)
    PROVE  /\ CallsGiven # << >>
           /\ Len(CallsGiven) = 1 /\ ~CallsWritten /\ ~AgentDue => AsPlanned(CallsGiven[1], req)
<1> DEFINE fs == FramesOf(body)
<1>1. /\ Plain(body)
      /\ \A b \in Range(body) :
             /\ b.k = "use"
             /\ \/ AsPlanned(b, req)
                \/ AgentWanted(req)
                \/ \E x \in Told(buffered) : /\ x.k \in {"text", "think"}
                                             /\ Marks[x.t] # {} \/ x.t = "command"
  BY ReadAtEnd, AnswersAre
<1>2. /\ fs \in Seq(Frame) /\ Open(0, body[1]) \in Range(fs)
      /\ \A f \in Range(fs) : f.ev = "open" => f.b \in Range(body)
  BY <1>1, MadeIsMessage
<1>3. CallsGiven = CallsIn(fs)
  BY DEF CallsGiven
<1>4. body[1] \in Range(body)
  <2>1. Len(body) \in Nat \ {0} /\ DOMAIN body = 1..Len(body)
    BY <1>1, PlainIs
  <2>2. 1 \in DOMAIN body
    BY <2>1
  <2> QED
    BY <2>2 DEF Range
<1> HIDE DEF fs
<1>5. \A f \in Range(fs) : f \in Frame /\ \E j \in 1..Len(fs) : f = fs[j]
  BY <1>2, SeqFacts
<1>6. CallsGiven # << >>
  <2>1. Open(0, body[1]).ev = "open" /\ Open(0, body[1]).b = body[1]
    BY DEF Open
  <2>2. Open(0, body[1]) \in CallFrames
    BY <1>1, <1>2, <1>4, <1>5, <2>1 DEF CallFrames
  <2>3. \E j \in 1..Len(fs) : fs[j] \in CallFrames
    BY <1>2, <1>5, <2>2
  <2> QED
    BY <1>2, <1>3, <2>3, CallsAre
<1>7. ASSUME Len(CallsGiven) = 1, ~CallsWritten, ~AgentDue
      PROVE  AsPlanned(CallsGiven[1], req)
  <2>1. PICK j \in 1..Len(fs) : fs[j] \in CallFrames /\ CallsGiven[1] = fs[j].b
    BY <1>2, <1>3, <1>7, CallsAre
  <2>2. fs[j] \in Range(fs) /\ fs[j].ev = "open"
    BY <1>2, <2>1, SeqFacts DEF CallFrames
  <2> DEFINE b == CallsGiven[1]
  <2>3. b \in Range(body)
    BY <1>2, <2>1, <2>2
  <2>4. ~AgentWanted(req)
    BY <1>7 DEF AgentWanted, AgentDue
  <2>5. ASSUME NEW x \in Told(buffered), x.k \in {"text", "think"},
               Marks[x.t] # {} \/ x.t = "command"
        PROVE  FALSE
    <3>1. PICK f \in Range(Readable(buffered)) : f.ev = "delta" /\ x = f.b
      BY <2>5 DEF Told
    <3>2. PICK n \in 1..sent : f = message[n] /\ n \in 1..Len(message)
      BY ReadAtEnd
    <3>3. f \in Range(message)
      BY <3>2, ReadAtEnd, SeqFacts DEF Framed
    <3> QED
      BY <1>7, <2>5, <3>1, <3>3 DEF CallsWritten
  <2> HIDE DEF b
  <2>6. AsPlanned(b, req)
    BY <1>1, <2>3, <2>4, <2>5
  <2> QED
    BY <2>6 DEF b
<1> QED
  BY <1>6, <1>7

LEMMA CallsAnsweredHolds == IInv => CallsAnswered
<1> SUFFICES ASSUME IInv, pc = "ended", Buffers(req)
             PROVE  /\ Replaceable(req) =>
                          /\ CallsGiven # << >>
                          /\ Len(CallsGiven) = 1 /\ ~CallsWritten /\ ~AgentDue =>
                                 AsPlanned(CallsGiven[1], req)
                    /\ ~Replaceable(req) /\ ~AgentDue /\ EachSeen /\ CallsSent # << >> =>
                          CallsGiven = CallsSent
  BY DEF CallsAnswered
<1>1. Framed(message) /\ sent \in 0..Len(message) /\ buffered \in Seq(Item) /\ req \in Requests
  BY ReadAtEnd
<1>2. GivenFrames = SoundFrames => CallsGiven = CallsSent
  BY <1>1, SoundKeepsCalls DEF CallsGiven
<1>3. CASE GivenFrames = SoundFrames /\ LateAnswer(buffered, req) = NoMessage
  <2>1. ASSUME Replaceable(req)
        PROVE  CallsGiven # << >>
    <3>1. PICK i \in CallsSeen(buffered) : TRUE
      BY <1>3, <2>1, StreamStands
    <3>2. PICK f \in Range(Readable(buffered)) : f.ev \in {"open", "delta"} /\ f.b.k = "use"
      BY <3>1 DEF CallsSeen
    <3>3. \E k \in 1..sent : message[k] \in CallFrames
      BY <3>2, SeenIsSent
    <3> QED
      BY <1>1, <1>2, <1>3, <3>3, SentCalls
  <2>2. Replaceable(req) /\ Len(CallsGiven) = 1 => AsPlanned(CallsGiven[1], req)
    BY <1>2, <1>3, TheCallSeen
  <2> QED
    BY <1>2, <1>3, <2>1, <2>2
<1>4. ASSUME NEW body \in {EarlyAnswer(buffered, req), LateAnswer(buffered, req)},
             body # NoMessage, GivenFrames = FramesOf(body)
      PROVE  /\ Replaceable(req) =>
                   /\ CallsGiven # << >>
                   /\ Len(CallsGiven) = 1 /\ ~CallsWritten /\ ~AgentDue =>
                          AsPlanned(CallsGiven[1], req)
             /\ ~(~Replaceable(req) /\ ~AgentDue /\ EachSeen /\ CallsSent # << >>)
  <2>1. ~Replaceable(req) /\ ~AgentDue /\ EachSeen /\ CallsSent # << >> => FALSE
    <3> SUFFICES ASSUME ~Replaceable(req), ~AgentDue, EachSeen, CallsSent # << >>
                 PROVE  FALSE
      OBVIOUS
    <3>1. CallsSeen(buffered) # {} /\ ~AgentWanted(req)
      BY SentIsSeen DEF AgentDue, AgentWanted
    <3>2. LateAnswer(buffered, req) = NoMessage /\ EarlyAnswer(buffered, req) = NoMessage
      BY <1>1, <3>1, NoAnswers
    <3> QED
      BY <1>4, <3>2
  <2> QED
    BY <1>4, <2>1, MadeCalls
<1> QED
  BY <1>3, <1>4, EndedIs

\* While the prompt plans a call the client is not answered without one, and
\* calls the model made where nothing is planned reach it unchanged, however
\* the frames were cut and whenever reads timed out (repair.py:2748-2915).
THEOREM Answered == Spec => []CallsAnswered
<1>1. Spec => []IInv
  BY HookInvariance
<1> QED
  BY <1>1, CallsAnsweredHolds, PTL
=============================================================================
