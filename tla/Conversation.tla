------------------------------ MODULE Conversation ------------------------------
(***************************************************************************)
(* A coding session through the gateway.  The client keeps the whole       *)
(* conversation and sends all of it with each request; the gateway scrubs  *)
(* and compresses it, offers it to the deployments of a route one after    *)
(* the other, and repairs the reply, which the client appends and answers. *)
(* Nothing but the conversation goes from one request to the next, so what *)
(* the gateway knows of a plan it reads out of what is left of it.         *)
(***************************************************************************)
EXTENDS StreamRepair, Compression, RequestScrub

CONSTANTS
    Routes,     \* the providers a request is offered to, in order
    Replies,    \* what a model may write: sequences of blocks
    Openings,   \* what a user may write: sequences of texts and images
    Plan,       \* text kind -> the calls it plans, in order: [tool, step]
    Tools,      \* the tools on offer
    MaxTurns    \* bound: messages of the user

Image      == [k |-> "image"]
TextBlocks == [k : {"text"}, t : STRING, big : BOOLEAN]

ASSUME ConversationAssumption ==
    /\ Routes \subseteq Seq(DOMAIN Window) \ {<< >>}
    /\ Openings \subseteq Seq(TextBlocks \cup {Image})
    /\ Replies \subseteq Seq(TextBlocks
                            \cup [k : {"think"}, t : STRING, big : BOOLEAN]
                            \cup [k : {"use"}, tool : STRING, step : Nat, good : BOOLEAN]
                            \cup [k : {"redacted", "search", "reference"}])

\* What a user may write is known to plan or not, a planned call has a number
\* other than 0, and what the gateway writes plans nothing.
ASSUME PlanAssumption ==
    /\ \A c \in Openings : \A b \in Range(c) : b.k = "text" => b.t \in DOMAIN Plan
    /\ \A t \in DOMAIN Plan : Plan[t] \in Seq([tool : STRING, step : Nat \ {0}])
    /\ \A t \in {"omitted", "dropped"} : t \in DOMAIN Plan /\ Plan[t] = << >>

VARIABLES
    history,    \* the client's conversation
    route,      \* where the request goes
    attempt,    \* which deployment of the route has it, 0 while the client does
    request,    \* its messages, as the hook before routing left them
    marked,     \* that they were compressed once
    sent,       \* the messages the deployment was sent
    made,       \* calls the gateway put in while it knew all: [at, tool, step]
    seen        \* provider -> results of the last compressed request it was sent first

vars == <<history, route, attempt, request, marked, sent, made, seen>>

Providers == UNION {Range(r) : r \in Routes}
Message(role, c) == [role |-> role, c |-> c]

-----------------------------------------------------------------------------
(* The request on its way out.                                             *)

Nobody == << >>     \* the messages of no request

-----------------------------------------------------------------------------
(* What the gateway reads of the plan.                                     *)

TextsOf(m) == {b.t : b \in {c \in Range(m.c) : c.k = "text"}}
TextTurns(ms) == {i \in DOMAIN ms : ms[i].role = "user" /\ TextsOf(ms[i]) # {}}
PlansIn(m) == {t \in TextsOf(m) : Plan[t] # << >>}
PlanTurns(ms) == {i \in TextTurns(ms) : PlansIn(ms[i]) # {}}
StepsAt(ms, i) == Plan[CHOOSE t \in PlansIn(ms[i]) : TRUE]

UsesAfter(ms, i) == Joined([n \in 1..(Len(ms) - i) |-> Blocks(ms[i + n].c, "use")])

\* mutant: any call of the tool completes a step
CallsByName(use, step) == use.tool = step.tool

Calls(use, step) == use.tool = step.tool /\ use.step = step.step

\* A step is complete when it was called after those before it.
Advances(use, steps, n) == n < Len(steps) /\ Calls(use, steps[n + 1])
CompletedBy(uses, steps) ==
    LET done[j \in 0..Len(uses)] ==
            IF j = 0 THEN 0
            ELSE IF Advances(uses[j], steps, done[j-1]) THEN done[j-1] + 1 ELSE done[j-1]
    IN  done[Len(uses)]
Completed(ms, i) == CompletedBy(UsesAfter(ms, i), StepsAt(ms, i))

NextPlanned(ms) ==
    IF PlanTurns(ms) = {} THEN NoStep
    ELSE LET i == Max(PlanTurns(ms))
         IN  IF Completed(ms, i) < Len(StepsAt(ms, i))
             THEN StepsAt(ms, i)[Completed(ms, i) + 1] ELSE NoStep

AgentState(ms) ==
    IF TextTurns(ms) = {} \/ "agent" \notin TextsOf(ms[Max(TextTurns(ms))]) THEN "none"
    ELSE LET i == Max(TextTurns(ms))
         IN  IF \A n \in DOMAIN UsesAfter(ms, i) : UsesAfter(ms, i)[n].tool # "Agent" THEN "call"
             ELSE IF \E j \in (i + 1)..Len(ms) : ResultIds(ms[j]) # {} THEN "final" ELSE "none"

Req == [tools |-> Tools, zai |-> FALSE,
        next |-> NextPlanned(request), agent |-> AgentState(request)]

-----------------------------------------------------------------------------

Init ==
    /\ history \in {<<Message("user", c)>> : c \in Openings}
    /\ route \in Routes
    /\ attempt = 0
    /\ request = Nobody
    /\ marked = FALSE
    /\ sent = Nobody
    /\ made = {}
    /\ seen = [p \in Providers |-> {}]

Ask ==
    /\ attempt = 0 /\ request = Nobody /\ Last(history).role = "user"
    /\ \E ms \in {Scrubbed(history, route[1])} :
          request' = Compressed(ms, route[1]) /\ marked' = NeedsMark(ms, route[1])
    /\ UNCHANGED <<history, route, attempt, sent, made, seen>>

ResultsIn(ms) == {b \in UNION {Range(m.c) : m \in Range(ms)} : b.k = "result"}

\* The first deployment, or the next one when one failed.  All of them start
\* from the same messages, each with the scrub of its provider; the mark one of
\* them made is seen by those after it.
Attempt ==
    /\ request # Nobody /\ attempt < Len(route)
    /\ attempt' = attempt + 1
    /\ \E ms \in {Scrubbed(request, route[attempt + 1])} :
          /\ sent' = IF marked THEN ms ELSE Compressed(ms, route[attempt + 1])
          /\ marked' = (marked \/ NeedsMark(ms, route[attempt + 1]))
    /\ seen' = IF attempt = 0 /\ OverTrigger(Scrubbed(history, route[1]), route[1])
               THEN [seen EXCEPT ![route[1]] = ResultsIn(sent')] ELSE seen
    /\ UNCHANGED <<history, route, request, made>>

Done == attempt' = 0 /\ request' = Nobody /\ marked' = FALSE /\ sent' = Nobody

\* No deployment is left: the client will ask again.
GiveUp ==
    /\ attempt = Len(route)
    /\ Done
    /\ UNCHANGED <<history, route, made, seen>>

\* What the models of a provider write, and what the hooks make of it: of a reply
\* in one piece, of a stream that was held back, of one that did not begin.
Written(body, provider) ==
    [i \in DOMAIN body |-> IF body[i].k = "think"
                           THEN [k |-> "think", t |-> body[i].t, big |-> body[i].big,
                                 signed |-> provider = "anthropic"]
                           ELSE body[i]]
Whole(body) == LET fs == FramesOf(body) IN [i \in DOMAIN fs |-> Own(fs[i], "whole")]
AsIs(body, provider) ==
    [i \in DOMAIN body |-> IF body[i].k = "think" /\ provider # "anthropic"
                           THEN BlockText(body[i].t) ELSE body[i]]

RepairedWhole(raw) == RepairedReply(Written(raw, route[attempt]), Req)
RepairedStream(raw) ==
    FirstOf(<<LateAnswer(Whole(raw), Req), AsIs(Written(raw, route[attempt]), route[attempt])>>)
RepairedNothing == EarlyAnswer(<< >>, Req)

\* The client numbers the calls it is given.
Delivered(body) ==
    [i \in DOMAIN body |-> IF body[i].k = "use"
                           THEN [k |-> "use", tool |-> body[i].tool, step |-> body[i].step,
                                 good |-> body[i].good, id |-> <<Len(history) + 1, i>>]
                           ELSE body[i]]
MadeIn(body, own) ==
    IF Len(request) < Len(history) THEN {}
    ELSE {[at |-> Len(history) + 1, tool |-> u.tool, step |-> u.step] :
             u \in {b \in Range(body) \ own : b.k = "use"}}

\* own are the model's calls, those it wrote as text included.
Receive(own, body) ==
    /\ history' = Append(history, Message("assistant", Delivered(body)))
    /\ made' = made \cup MadeIn(body, own)
    /\ Done
    /\ UNCHANGED <<route, seen>>

ReplyWhole(raw) ==
    /\ attempt > 0
    /\ Receive(Range(NativeCalls(Written(raw, route[attempt]), Req)), RepairedWhole(raw))
ReplyStreamed(raw) ==
    /\ attempt > 0
    /\ Receive(Range(raw) \cup Range(WrittenCalls(Whole(raw), Req)), RepairedStream(raw))
ReplyEarly ==
    /\ attempt > 0 /\ RepairedNothing # NoMessage
    /\ Receive({}, RepairedNothing)

\* The client runs the calls it was given, or the user says something new.
UserTurns == Len(SelectSeq(history, LAMBDA m : m.role = "user"))
MayAnswer == Last(history).role = "assistant" /\ UserTurns < MaxTurns

ReturnResults(big, also) ==
    /\ MayAnswer
    /\ HasUse(Last(history).c)
    /\ LET uses    == Blocks(Last(history).c, "use")
           results == [i \in DOMAIN uses |-> [k |-> "result", id |-> uses[i].id, big |-> big]]
       IN  history' = Append(history, Message("user", results \o also))
    /\ UNCHANGED <<attempt, request, marked, sent, made, seen>>

Say(c) ==
    /\ MayAnswer
    /\ ~HasUse(Last(history).c)
    /\ history' = Append(history, Message("user", c))
    /\ UNCHANGED <<attempt, request, marked, sent, made, seen>>

Answer ==
    \/ ReturnResults(FALSE, << >>) \/ ReturnResults(TRUE, << >>) \/ ReturnResults(TRUE, <<Image>>)
    \/ \E c \in Openings : Say(c)

\* Each request may go to another model.
Turn == Answer /\ route' \in Routes
Reply == ReplyEarly \/ \E raw \in Replies : ReplyWhole(raw) \/ ReplyStreamed(raw)

Next == Ask \/ Attempt \/ GiveUp \/ Reply \/ Turn

Spec == Init /\ [][Next]_vars

-----------------------------------------------------------------------------
(* Properties.                                                             *)

Kinds(ms) == {b.k : b \in UNION {Range(m.c) : m \in Range(ms)}}
Thinking(ms) == {b \in UNION {Range(m.c) : m \in Range(ms)} : b.k = "think"}

\* A message left without content: a request that was not compressed for the
\* first deployment is compressed for another provider's after the last scrub,
\* which takes the images of a message that has nothing else.
StrippedLate(m) ==
    /\ route[attempt] # route[1]
    /\ ~NeedsMark(Scrubbed(history, route[1]), route[1])
    /\ \E old \in Range(Scrubbed(request, route[attempt])) :
          old.c # << >> /\ (\A b \in Range(old.c) : b.k = "image") /\ m = WithoutImages(old)

\* Whatever was dropped, cut, taken out or made up before, and whichever
\* deployment of the route is asked, its provider accepts the request: the roles
\* alternate from a user's message to a user's, each call has its result in the
\* message after it and each result its call in the one before, no call is
\* malformed, Claude gets no reasoning it did not sign and nobody else gets blocks
\* of Claude's; and no message is empty, but for the one StrippedLate describes,
\* which a provider refuses (repair.py:40-127, 1108-1167; compression 712-830, 846).
RequestWellFormed ==
    attempt > 0 =>
        /\ Len(sent) % 2 = 1
        /\ \A i \in DOMAIN sent :
              /\ sent[i].role = IF i % 2 = 1 THEN "user" ELSE "assistant"
              /\ sent[i].c # << >> \/ StrippedLate(sent[i])
              /\ UseIds(sent[i]) = IF i = Len(sent) THEN {} ELSE ResultIds(sent[i + 1])
              /\ i = 1 => ResultIds(sent[i]) = {}
        /\ MalformedIds(sent) = {}
        /\ IF route[attempt] = "anthropic" THEN \A b \in Thinking(sent) : b.signed
           ELSE Kinds(sent) \subseteq {"text", "use", "result", "image"}

\* However long a conversation is, its task and its last turn are sent, what is
\* left of a request that was too long is below the target unless it is only the
\* messages kept at any length, and of one that fits nothing is taken away
\* (claude_aware_compression.py:575-612, 729-772).
CompressionKeeps ==
    attempt > 0 =>
        LET all == Scrubbed(Scrubbed(history, route[1]), route[attempt])
            over == \/ OverTrigger(Scrubbed(history, route[1]), route[1])
                    \/ OverTrigger(all, route[attempt])
        IN  /\ Head(sent).c = Head(all).c
            /\ ResultIds(Last(sent)) = ResultIds(Last(all))
            /\ TextsOf(Last(sent)) = TextsOf(Last(all))
            /\ ~over => Len(sent) = Len(all)
            /\ OverTrigger(Scrubbed(history, route[1]), route[1]) /\ Len(request) > MinRecent + 2
                   => TokensOf(request) <= MessageTarget(route[1], FALSE)

\* Once a conversation is compressed for the provider that is asked for, a result
\* it was sent, in full or cut, is sent to it in the same form ever after, so that
\* the prefix the provider has cached stays what it was
\* (claude_aware_compression.py:594-602).  A fallback may get it otherwise: images
\* that were taken out before routing mark the request as compressed.
PrefixStable ==
    [][attempt' = 1 /\ sent' # sent =>
          \A old \in seen[route[1]], new \in ResultsIn(sent') :
              old.id = new.id => old = new]_vars

\* The calls of a content that are whole, and those of the messages after i up to j.
GoodUses(c) == Picked(c, {n \in DOMAIN c : c[n].k = "use" /\ c[n].good})
CallsTo(ms, i, j) == Joined([n \in 1..(j - i) |-> GoodUses(ms[i + n].c)])

\* The calls the gateway makes up follow the plan of the latest message that has
\* one: a planned call is put in only when those before it in the plan were made
\* since, in their order, and no more often than the plan has it; and the planned
\* agent is called once.  What the model calls on its own, in another order or
\* malformed, whether replies are streamed, come whole or late, does not change
\* that; but when compression takes old messages away the gateway cannot know
\* (repair.py:2145-2290, 2376-2400).
Since(turns, at) == Max({j \in turns : j < at})
IsStep(call, step) == call.tool = step.tool /\ call.step = step.step
InOrder(steps, calls) ==
    \E f \in [DOMAIN steps -> DOMAIN calls] :
        /\ \A n \in DOMAIN steps : IsStep(calls[f[n]], steps[n])
        /\ \A m, n \in DOMAIN steps : m < n => f[m] < f[n]
PlanInOrder ==
    /\ \A c \in made : c.step > 0 =>
          LET plan   == Since(PlanTurns(history), c.at)
              steps  == StepsAt(history, plan)
              before == {d \in made : plan < d.at /\ d.at < c.at}
          IN  \E n \in DOMAIN steps :
                 /\ IsStep(c, steps[n])
                 /\ InOrder(SubSeq(steps, 1, n - 1), CallsTo(history, plan, c.at - 1))
                 /\ Cardinality({d \in before : IsStep(d, steps[n])})
                       <= Cardinality({m \in 1..n-1 : steps[m] = steps[n]})
    /\ \A c, d \in made : c.tool = "Agent" /\ d.tool = "Agent" /\ c.at < d.at =>
          Since(TextTurns(history), d.at) > c.at
=============================================================================
