----------------------------- MODULE RequestScrub -----------------------------
(***************************************************************************)
(* What the gateway takes out of a conversation before it goes to a        *)
(* provider: the blocks that only Claude writes or reads, and the calls of *)
(* the history that lack a required argument, with their results.          *)
(***************************************************************************)
EXTENDS SequenceParts, SequencesExt

BlockText(t) == [k |-> "text", t |-> t, big |-> FALSE]

\* Blocks of Claude's alone, which another provider may be told of as text.
SearchKinds == {"search", "reference"}

\* mutant: thinking is not looked at when a signature is missing
DroppedRedacted(b, provider) == b.k = "redacted" /\ provider # "anthropic"

\* Blocks that go: Claude takes its own reasoning back only when it is signed,
\* and nobody else can read what was redacted.
Dropped(b, provider) ==
    \/ b.k = "think" /\ provider = "anthropic" /\ ~b.signed
    \/ b.k = "redacted" /\ provider # "anthropic"

\* What becomes of a block that stays.
ScrubbedBlock(b, provider) ==
    CASE b.k = "think" /\ provider # "anthropic" -> BlockText(b.t)
      [] b.k = "image" /\ provider = "deepseek" -> BlockText("omitted")
      [] b.k \in SearchKinds /\ provider # "anthropic" -> BlockText("found")
      [] OTHER -> b

\* No message is left empty.
SanitizeContentBlocks(c, provider) ==
    LET kept == Picked(c, {i \in DOMAIN c : ~Dropped(c[i], provider)})
    IN  IF c # << >> /\ kept = << >> THEN <<BlockText("placeholder")>>
        ELSE [i \in DOMAIN kept |-> ScrubbedBlock(kept[i], provider)]

SanitizeMessages(ms, provider) ==
    [i \in DOMAIN ms |-> [ms[i] EXCEPT !.c = SanitizeContentBlocks(@, provider)]]

\* A malformed call becomes a note, and what answered it goes.
MalformedIds(ms) ==
    {b.id : b \in {c \in UNION {Range(m.c) : m \in Range(ms)} : c.k = "use" /\ ~c.good}}
Noted(c) == [i \in DOMAIN c |->
                IF c[i].k = "use" /\ ~c[i].good THEN BlockText("note") ELSE c[i]]
Unanswered(c, ids) == Picked(c, {i \in DOMAIN c : c[i].k # "result" \/ c[i].id \notin ids})
Filled(c) == IF c = << >> THEN <<BlockText("dropped")>> ELSE c
SanitizeHistoryToolCalls(ms) ==
    [i \in DOMAIN ms |->
        [ms[i] EXCEPT !.c = Filled(Unanswered(Noted(@), MalformedIds(ms)))]]

Scrubbed(ms, provider) == SanitizeHistoryToolCalls(SanitizeMessages(ms, provider))
=============================================================================
