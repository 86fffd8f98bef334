------------------------------ MODULE ReplyRepair ------------------------------
(***************************************************************************)
(* What the gateway's response hook makes of a reply that came in one      *)
(* piece: calls a model wrote as text become tool_use blocks, a call the   *)
(* prompt planned replaces what the model said instead, and a call that    *)
(* lacks a required argument becomes a note.  The passes are operators on  *)
(* the content of the reply, in the order handler.py applies them.         *)
(*                                                                         *)
(* Text is one of a few kinds; what matters about a text is what the       *)
(* parsers see in it (Marks), whether it is a bare command and whether it  *)
(* only announces that something will be done ("ack").                     *)
(***************************************************************************)
EXTENDS SequenceParts, SequencesExt

CONSTANTS
    Marks       \* text kind -> what parsers find: [fmt, tool, step, from, to]

\* The formats in the order they are tried, by what each asks of the request.
FreeFormats    == <<"kimi", "dsml">>
NamedFormats   == <<"xml", "read", "func">>
CommandFormats == <<"bash", "json">>
FormatOrder    == FreeFormats \o NamedFormats \o CommandFormats \o
                  <<"intent", "zai", "fence">>

Text(t)  == [k |-> "text", t |-> t, big |-> FALSE]
Use(tool, step, good) == [k |-> "use", tool |-> tool, step |-> step, good |-> good]
Note     == Text("note")
NoStep   == [tool |-> "none", step |-> 0]

\* What a request says of the tools and of the plan in its prompt: tools is
\* the set on offer, zai that the model is one of Z.ai's, next the step the
\* plan is at, agent whether an Agent call or a closing text is planned.
CommandTool(req) == "Bash" \in req.tools
PlannedCall(req) == Use(req.next.tool, req.next.step, TRUE)
IsPlanned(req, tool) == tool \in req.tools /\ req.next.tool = tool

Blocks(body, kind) == Picked(body, {i \in DOMAIN body : body[i].k = kind})
HasUse(body) == Blocks(body, "use") # << >>

\* What a reply says, the kinds of its text and of its reasoning; a reply has
\* at most one of each.
KindsOf(body, kind) == [i \in DOMAIN Blocks(body, kind) |-> Blocks(body, kind)[i].t]
Said(body) ==
    LET saying == SelectSeq(body, LAMBDA b : b.k \in {"text", "think"})
    IN  [i \in DOMAIN saying |-> saying[i].t]

\* One announcement makes the whole an announcement; a command stands alone.
IsAck(said)     == said = << >> \/ "ack" \in Range(said)
IsCommand(said) == said = <<"command">>

-----------------------------------------------------------------------------
(* Calls written as text.                                                  *)

Recognised(mark, req) ==
    \/ mark.fmt \in Range(FreeFormats)
    \/ mark.fmt \in Range(NamedFormats) \cup {"intent"} /\ mark.tool \in req.tools
    \/ mark.fmt \in Range(CommandFormats) \cup {"fence"} /\ CommandTool(req)
    \/ mark.fmt = "zai" /\ req.zai /\ mark.tool \in req.tools

AllMarks == UNION Range(Marks)
ASSUME MarksAssumption == IsFiniteSet(AllMarks)

\* What has i - 1 of a set before it.
Nth(found, i, Precedes(_, _)) ==
    CHOOSE m \in found : Cardinality({x \in found : Precedes(x, m)}) = i - 1

\* Found in the order of the formats, the order in which they are tried.
Order(mark) == CHOOSE i \in DOMAIN FormatOrder : FormatOrder[i] = mark.fmt
Sooner(a, b) ==
    \/ Order(a) < Order(b)
    \/ Order(a) = Order(b) /\ a.from < b.from
Extracted(t, req) ==
    LET found == {m \in AllMarks : m \in Marks[t] /\ Recognised(m, req)}
    IN  [i \in 1..Cardinality(found) |-> Nth(found, i, Sooner)]

\* By place, the longer of two that begin together first.
Before(a, b) ==
    \/ a.from < b.from
    \/ a.from = b.from /\ a.to > b.to
    \/ a.from = b.from /\ a.to = b.to /\ Order(a) < Order(b)

\* Parsers find the same call more than once: what begins inside a call that
\* was taken is left out.
NonOverlapping(found) ==
    LET marks == Range(found)
        take(taken, m) == IF taken = << >> \/ m.from >= Last(taken).to
                          THEN Append(taken, m) ELSE taken
        taken[n \in 0..Cardinality(marks)] ==
            IF n = 0 THEN << >> ELSE take(taken[n-1], Nth(marks, n, Before))
    IN  taken[Cardinality(marks)]

CallsOf(found) == [i \in DOMAIN found |-> Use(found[i].tool, found[i].step, TRUE)]

NativeCalls(body, req) ==
    LET texts == KindsOf(body, "text")
        found == IF texts = << >> THEN << >> ELSE Extracted(texts[1], req)
    IN  IF found = << >> THEN body
        ELSE Picked(body, {i \in DOMAIN body : body[i].k # "text"}) \o CallsOf(NonOverlapping(found))

-----------------------------------------------------------------------------
(* Calls and texts that the prompt planned.                                *)

PlannedRead(body, req) ==
    IF IsPlanned(req, "Read") /\ ~HasUse(body) THEN <<PlannedCall(req)>> ELSE body

PlannedAgent(body, req) ==
    IF "Agent" \in req.tools /\ req.agent = "call" /\ ~HasUse(body) /\ IsAck(Said(body))
    THEN <<Use("Agent", 0, TRUE)>> ELSE body

PlannedFinal(body, req) ==
    IF req.agent = "final" /\ ~HasUse(body) /\ IsAck(Said(body))
    THEN <<Text("final")>> ELSE body

TextCommand(body, req) ==
    IF CommandTool(req) /\ ~HasUse(body) /\ (IsCommand(Said(body)) \/ IsPlanned(req, "Bash"))
    THEN IF IsCommand(Said(body)) THEN <<Use("Bash", 0, TRUE)>> ELSE <<PlannedCall(req)>>
    ELSE body

\* Bash before Read, as the command replacement is asked first.
Replaceable(req) == IsPlanned(req, "Bash") \/ IsPlanned(req, "Read")
AsPlanned(use, req) ==
    use.tool = req.next.tool /\ use.step = req.next.step /\ use.good

RewrittenCall(body, req) ==
    IF Replaceable(req) /\ Len(Blocks(body, "use")) = 1
    THEN [i \in DOMAIN body |->
             IF body[i].k = "use" /\ ~AsPlanned(body[i], req)
             THEN PlannedCall(req) ELSE body[i]]
    ELSE body

-----------------------------------------------------------------------------
(* What may not be shown or run.                                           *)

WithoutThinkTags(body) ==
    [i \in DOMAIN body |-> IF body[i].k = "text" /\ body[i].t = "tagged"
                           THEN [body[i] EXCEPT !.t = "prose"] ELSE body[i]]

WithoutMalformed(body) ==
    [i \in DOMAIN body |->
        IF body[i].k = "use" /\ ~body[i].good THEN Note ELSE body[i]]

RepairedReply(body, req) ==
    LET native == NativeCalls(body, req)
        agent  == PlannedAgent(PlannedRead(native, req), req)
        texts  == TextCommand(PlannedFinal(agent, req), req)
    IN  WithoutMalformed(WithoutThinkTags(RewrittenCall(texts, req)))
=============================================================================
