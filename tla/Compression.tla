------------------------------ MODULE Compression ------------------------------
(***************************************************************************)
(* ClaudeAwareCompression: how the gateway makes a conversation fit the    *)
(* context window of the model it goes to.  When the messages weigh more   *)
(* than a trigger, old images go, long texts of user messages are cut, and *)
(* then whole messages go, the oldest first, until the rest is below a     *)
(* target; when the request has too many bytes old images go.              *)
(*                                                                         *)
(* A message is its role and its blocks.  What matters about a block is    *)
(* whether it is long and which call it is or answers.                     *)
(***************************************************************************)
EXTENDS SequenceParts, SequencesExt, FiniteSetsExt

CONSTANTS
    Window,     \* model -> the tokens of its context window
    Overhead,   \* tokens of the system prompt and the tools
    MinRecent,  \* messages that are kept however long they are
    MaxImages   \* images a request has bytes for

ASSUME CompressionAssumption ==
    /\ \A model \in DOMAIN Window : Window[model] \in Nat
    /\ Overhead \in Nat /\ MaxImages \in Nat
    /\ MinRecent \in Nat \ {0}     \* a slice from -0 on would be the whole list

Short == 150    \* tokens of a block that is short or was cut
Long  == 900    \* and of a long one

-----------------------------------------------------------------------------
(* Thresholds: 90% and 75% of the window, the whole window for a first     *)
(* request; the estimate of a token is off by a factor of 1.35.            *)

Larger(a, b)  == Max({a, b})
Calibrated(n) == (n * 100) \div 135

Trigger(model, first) == IF first THEN Window[model] ELSE (Window[model] * 90) \div 100
Target(model, first) ==
    Larger((Window[model] * 75) \div 100, IF first THEN 0 ELSE Trigger(model, first) \div 2)

Floor(model, first) == Larger(Calibrated(Target(model, first)) \div 4, 1000)
MessageTrigger(model, first) ==
    Larger(Calibrated(Trigger(model, first)) - Overhead, Floor(model, first))
MessageTarget(model, first) ==
    LET target == Max({Calibrated(Target(model, first)) - Overhead, Floor(model, first) \div 2, 500})
    IN  IF target > MessageTrigger(model, first)
        THEN Larger(MessageTrigger(model, first) \div 2, 500) ELSE target

-----------------------------------------------------------------------------

BlockTokens(b) ==
    IF b.k = "image" THEN 0
    ELSE IF b.k \in {"text", "result"} /\ b.big THEN Long ELSE Short
Tokens(m) == Total([j \in DOMAIN m.c |-> BlockTokens(m.c[j])])
TokensOf(ms) == Total([i \in DOMAIN ms |-> Tokens(ms[i])])

Images(m) == Cardinality({j \in DOMAIN m.c : m.c[j].k = "image"})
ImagesOf(ms) == Total([i \in DOMAIN ms |-> Images(ms[i])])
WithoutImages(m) ==
    [m EXCEPT !.c = Picked(m.c, {j \in DOMAIN m.c : m.c[j].k # "image"})]

\* The first message has the task, the last ones are the turn.
Recent(ms) == (Len(ms) - MinRecent + 1)..Len(ms)
DropOldImages(ms) ==
    IF Len(ms) <= MinRecent THEN ms
    ELSE [i \in DOMAIN ms |-> IF i = 1 \/ i \in Recent(ms) THEN ms[i] ELSE WithoutImages(ms[i])]

CutBlock(b) == IF b.k \in {"text", "result"} THEN [b EXCEPT !.big = FALSE] ELSE b
\* mutant: the messages of the turn are left alone
TruncateAllButRecent(ms) ==
    [i \in DOMAIN ms |-> IF i = 1 \/ i \in Recent(ms) \/ ms[i].role # "user" THEN ms[i]
                         ELSE [ms[i] EXCEPT !.c = [j \in DOMAIN @ |-> CutBlock(@[j])]]]

TruncateToolResults(ms) ==
    [i \in DOMAIN ms |-> IF i = 1 \/ ms[i].role # "user" THEN ms[i]
                         ELSE [ms[i] EXCEPT !.c = [j \in DOMAIN @ |-> CutBlock(@[j])]]]

\* The messages with the results of a message's calls or the calls of its results.
UseIds(m)    == {b.id : b \in {c \in Range(m.c) : c.k = "use"}}
ResultIds(m) == {b.id : b \in {c \in Range(m.c) : c.k = "result"}}
Partners(ms, i) ==
    {j \in DOMAIN ms : UseIds(ms[i]) \cap ResultIds(ms[j]) # {}
                       \/ ResultIds(ms[i]) \cap UseIds(ms[j]) # {}}

TokensAt(ms, is) ==
    Total([i \in DOMAIN ms |-> IF i \in is THEN Tokens(ms[i]) ELSE 0])

\* One step of the loop: what is kept so far, and whether it goes on.
Visited(ms, target, kept, i) ==
    LET with == kept.is \cup {i} \cup Partners(ms, i)
    IN  IF ~kept.more \/ i \in kept.is THEN kept
        ELSE IF Cardinality(kept.is) - 1 < MinRecent \/ TokensAt(ms, with) <= target
        THEN [is |-> with, more |-> TRUE]
        ELSE [is |-> kept.is, more |-> FALSE]

\* From the newest back to the first that does not fit.
KeptIndices(ms, target) ==
    LET kept[n \in 0..Len(ms)] ==
            IF n = 0 THEN [is |-> {1} \cup Partners(ms, 1), more |-> TRUE]
            ELSE Visited(ms, target, kept[n-1], Len(ms) + 1 - n)
    IN  kept[Len(ms)].is

\* Messages whose successor has the same role.
Clashes(ms, kept) ==
    {i \in kept : \E j \in kept : /\ i < j /\ ms[i].role = ms[j].role
                                  /\ ~\E k \in kept : i < k /\ k < j}

\* mutant: the first message is no exception
AlwaysOlder(ms, kept) == Min(Clashes(ms, kept))

\* Of two neighbours with one role the older goes, unless it is the first.
Loser(ms, kept) ==
    IF Min(Clashes(ms, kept)) = 1 THEN Min(kept \ {1}) ELSE Min(Clashes(ms, kept))

Settled(ms, is) ==
    IF Clashes(ms, is) = {} THEN is
    ELSE is \ ({Loser(ms, is)} \cup Partners(ms, Loser(ms, is)))

\* Until none is left: each time one message goes at least.
EnforceAlternation(ms, kept) ==
    LET settled[n \in 0..Len(ms)] == IF n = 0 THEN kept ELSE Settled(ms, settled[n-1])
    IN  settled[Len(ms)]

DropOldMessages(ms, target) ==
    IF Len(ms) <= MinRecent THEN ms
    ELSE Picked(ms, EnforceAlternation(ms, KeptIndices(ms, target)))

\* The messages after the first up to n have lost their images.
StrippedTo(ms, n) == [i \in DOMAIN ms |-> IF i \in 2..n THEN WithoutImages(ms[i]) ELSE ms[i]]

\* From the oldest message that may lose its images, until the rest fits.
ShrinkToByteBudget(ms) ==
    IF Len(ms) <= MinRecent THEN ms
    ELSE [i \in DOMAIN ms |->
             IF /\ i > 1
                /\ i \notin Recent(ms)
                /\ i = 2 \/ ImagesOf(StrippedTo(ms, i - 1)) > MaxImages
             THEN WithoutImages(ms[i]) ELSE ms[i]]

-----------------------------------------------------------------------------

IsFirst(ms) == \A m \in Range(ms) : m.role # "assistant"
OverTrigger(ms, model) == TokensOf(ms) > MessageTrigger(model, IsFirst(ms))

Compressed(ms, model) ==
    LET smaller == IF OverTrigger(ms, model)
                   THEN DropOldMessages(TruncateToolResults(DropOldImages(ms)),
                                        MessageTarget(model, IsFirst(ms)))
                   ELSE ms
    IN  IF ImagesOf(ms) > MaxImages THEN ShrinkToByteBudget(smaller) ELSE smaller

\* A request is marked once compression had something to do.
NeedsMark(ms, model) == OverTrigger(ms, model) \/ Compressed(ms, model) # ms
=============================================================================
