---------------------------- MODULE StreamAdapter --------------------------
(***************************************************************************)
(* How the gateway turns the chunks of a chat completion into the events   *)
(* of an Anthropic message stream.  The library's stream wrapper is        *)
(* patched twice: the inner layer opens and closes content blocks and      *)
(* holds the stop reason back for the usage; the outer layer turns         *)
(* thinking into text, drops deltas of stopped blocks, turns tool calls    *)
(* written as text into tool blocks and signs thinking blocks.  Around     *)
(* both, the handler of the request pulls events until the first one that  *)
(* comes from the provider, and gives up if that takes too long, so that   *)
(* the router can fall back while the client has seen nothing.             *)
(*                                                                         *)
(* A chunk's text is its number; numbers are carried by the events so that *)
(* the properties can say where each of them went.  The asynchronous path  *)
(* is modelled, which is the one the proxy uses.                           *)
(***************************************************************************)
EXTENDS SequenceParts, SequencesExt

CONSTANTS
  Mark,      \* text that matters: a tool call, one of its ends, a bare think tag
  MaxChunks  \* bound of the model: chunks before the finish chunk

ASSUME ChunkAssumption ==
  /\ Mark \subseteq {"plain", "opens", "closes", "whole", "think tag"}
  /\ MaxChunks \in Nat

VARIABLES
  got,       \* the chunks the provider sent before the finish chunk
  upstream,  \* how far the provider is
  wrapper,   \* the inner layer's attributes; holding: the stop reason held back
  queue,     \* its chunk_queue
  outer,     \* the outer layer's: whether thinking becomes text for this model,
             \* the open thinking blocks, the signed and stopped blocks, text
             \* held back while it may be a tool call, and (history) the pieces
             \* that were taken out of such a text for good
  pending,   \* its pending events
  phase,     \* of the handler: prefetching, streaming, and how it ended
  emitted,   \* history: all events the outer layer gave out
  client     \* the events the client received
vars == <<got, upstream, wrapper, queue, outer, pending, phase, emitted, client>>

----------------------------------------------------------------------------
(* Chunks of the provider *)

\* Text, reasoning, thinking blocks and their signatures, the beginning of a
\* tool call, more of its arguments, and a delta with nothing in it.
Kind == {"text", "reasoning", "thinking", "signature", "tool", "arguments", "blank"}

Finish == [kind |-> "finish", mark |-> "plain", n |-> 0]
Usage == [kind |-> "usage", mark |-> "plain", n |-> 0]

HasActualContent(c) == c.kind \notin {"blank", "finish", "usage"}

\* The library: which block a chunk belongs to.
BlockType(c) ==
  CASE c.kind \in {"tool", "arguments"} -> "tool_use"
    [] c.kind \in {"thinking", "signature"} -> "thinking"
    [] OTHER -> "text"

----------------------------------------------------------------------------
(* Events of the message stream *)

Event(type, index, of, pieces) ==
  [type |-> type, index |-> index, of |-> of, pieces |-> pieces]

MessageStart == Event("message_start", 0, "", <<>>)
MessageDelta(reason) == Event("message_delta", 0, reason, <<>>)
MessageStop == Event("message_stop", 0, "", <<>>)
Ping == Event("ping", 0, "", <<>>)
BlockStart(i, type, text) == Event("content_block_start", i, type, text)
Delta(i, type, pieces) == Event("content_block_delta", i, type, pieces)
BlockStop(i) == Event("content_block_stop", i, "", <<>>)

\* Reasoning opens a text block that already holds it; so does thinking.
StartOf(c, i) ==
  BlockStart(i, BlockType(c), IF c.kind \in {"reasoning", "thinking"} THEN <<c.n>> ELSE <<>>)

\* The stop reason the library derives from the finish reason.
StopReason ==
  IF \E i \in DOMAIN got : got[i].kind = "tool" THEN "tool_use" ELSE "end_turn"

Translated(c, i) ==
  CASE c.kind = "usage" -> MessageDelta("")
    [] c.kind = "finish" -> MessageDelta(StopReason)
    [] c.kind = "signature" -> Ping
    [] c.kind = "blank" -> Delta(i, "text", <<>>)
    [] c.kind \in {"tool", "arguments"} -> Delta(i, "input_json", <<c.n>>)
    [] OTHER -> Delta(i, "text", <<c.n>>)

----------------------------------------------------------------------------
(* State *)

Init ==
  /\ got = <<>> /\ upstream = "content"
  /\ wrapper = [firstSent |-> FALSE, blockStarted |-> FALSE, blockFinished |-> FALSE,
                blockType |-> "text", index |-> 0, holding |-> "none", usageQueued |-> FALSE]
  /\ outer \in [convert : BOOLEAN, thinking : {{}}, signed : {{}}, stopped : {{}},
                buffering : {FALSE}, buffer : {<<>>}, lost : {{}}]
  /\ queue = <<>> /\ pending = <<>> /\ emitted = <<>> /\ client = <<>>
  /\ phase = "prefetching"

----------------------------------------------------------------------------
(* The inner layer *)

Open == phase \in {"prefetching", "streaming"}

\* The layers have nothing left to give and wait for the provider.
Waiting == Open /\ wrapper.firstSent /\ queue = <<>> /\ pending = <<>>

StartMessage ==
  /\ Open /\ ~wrapper.firstSent
  /\ wrapper' = [wrapper EXCEPT !.firstSent = TRUE]
  /\ queue' = <<MessageStart>>
  /\ UNCHANGED <<got, upstream, outer, pending, phase, emitted, client>>

\* A block of another type begins, or another tool call.
ShouldStartNewBlock(c) ==
  HasActualContent(c) /\ (BlockType(c) # wrapper.blockType \/ c.kind = "tool")

\* mutant: the chunk that makes the switch is not passed on
SwitchedWithoutDelta(c, i) == <<BlockStop(i - 1), StartOf(c, i)>>

Switched(c, i) ==
  <<BlockStop(i - 1), StartOf(c, i)>>
    \o (IF Translated(c, i).type = "content_block_delta" THEN <<Translated(c, i)>> ELSE <<>>)

\* mutant: the block that is closed is the next one
ClosedNext(i) == <<BlockStop(i + 1)>>

Closed(i) == <<BlockStop(i)>>

\* What the inner layer does with a chunk once a block has begun.
Translate(c) ==
  LET new == ShouldStartNewBlock(c)
      i == IF new THEN wrapper.index + 1 ELSE wrapper.index
      w == [wrapper EXCEPT !.index = i, !.blockType = IF new THEN BlockType(c) ELSE @]
      e == Translated(c, i)
  IN
  IF w.holding # "none" /\ c.kind = "usage"
    THEN /\ queue' = <<MessageDelta(w.holding)>>
         /\ wrapper' = [w EXCEPT !.usageQueued = TRUE, !.holding = "none"]
  ELSE IF w.usageQueued
    THEN wrapper' = w /\ UNCHANGED queue
  ELSE IF new /\ ~w.blockFinished
    THEN queue' = Switched(c, i) /\ wrapper' = w
  ELSE IF e.type = "message_delta" /\ ~w.blockFinished
    THEN IF e.of = ""
           THEN queue' = Closed(i) \o <<e>> /\ wrapper' = [w EXCEPT !.blockFinished = TRUE]
           ELSE /\ queue' = Closed(i)
                /\ wrapper' = [w EXCEPT !.blockFinished = TRUE, !.holding = e.of]
  ELSE queue' = <<e>> /\ wrapper' = w

\* The first chunk with content opens the first block; what comes before it,
\* be it the finish chunk, vanishes.
Process(c) ==
  IF wrapper.blockStarted THEN Translate(c)
  ELSE IF HasActualContent(c)
    THEN /\ wrapper' = [wrapper EXCEPT !.blockStarted = TRUE, !.blockType = BlockType(c)]
         /\ queue' = <<StartOf(c, wrapper.index), Translated(c, wrapper.index)>>
    ELSE UNCHANGED <<wrapper, queue>>

\* Arguments follow the tool call they belong to.
Continues(kind) ==
  kind = "arguments" =>
    \E i \in DOMAIN got :
      /\ got[i].kind \in {"tool", "arguments"}
      /\ \A j \in i + 1..Len(got) : got[j].kind = "blank"

ReceiveContent(kind, mark) ==
  /\ Waiting /\ upstream = "content"
  /\ Len(got) < MaxChunks /\ Continues(kind)
  /\ mark = "plain" \/ kind \in {"text", "reasoning", "thinking"}
  /\ LET c == [kind |-> kind, mark |-> mark, n |-> Len(got) + 1]
     IN  got' = Append(got, c) /\ Process(c)
  /\ UNCHANGED <<upstream, outer, pending, phase, emitted, client>>

ReceiveFinish ==
  /\ Waiting /\ upstream = "content"
  /\ upstream' = "finished"
  /\ Process(Finish)
  /\ UNCHANGED <<got, outer, pending, phase, emitted, client>>

ReceiveUsage ==
  /\ Waiting /\ upstream = "finished"
  /\ upstream' = "used"
  /\ Process(Usage)
  /\ UNCHANGED <<got, outer, pending, phase, emitted, client>>

Leftover ==
  (IF ~wrapper.usageQueued /\ wrapper.holding # "none"
     THEN <<MessageDelta(wrapper.holding)>> ELSE <<>>)
    \o <<MessageStop>>

\* The stream is over: what was held back goes out, and the last event.
ReceiveEnd ==
  /\ Waiting /\ upstream \in {"finished", "used"}
  /\ upstream' = "ended"
  /\ queue' = Leftover
  /\ wrapper' = [wrapper EXCEPT !.holding = "none"]
  /\ UNCHANGED <<got, outer, pending, phase, emitted, client>>

----------------------------------------------------------------------------
(* The handler *)

\* Events that do not prove that the provider answers.
Synthetic(e) ==
  \/ e.type = "message_start"
  \/ e.type = "content_block_start" /\ e.index = 0 /\ e.of = "text" /\ e.pieces = <<>>

\* mutant: the first provider event goes out without those before it
ReplayedWithout(e) == <<e>>

Replayed(e) == Append(emitted, e)

\* An event leaves the outer layer, for the handler or, later, for the client.
Emit(e) ==
  /\ emitted' = Append(emitted, e)
  /\ IF phase = "streaming" THEN client' = Append(client, e) /\ UNCHANGED phase
     ELSE IF Synthetic(e) THEN UNCHANGED <<phase, client>>
     ELSE phase' = "streaming" /\ client' = Replayed(e)

\* mutant: only the call that makes the stream object is timed
TimeoutOfCall ==
  /\ phase = "prefetching" /\ ~wrapper.firstSent
  /\ phase' = "failed"
  /\ UNCHANGED <<got, upstream, wrapper, queue, outer, pending, emitted, client>>

\* No stream object, or no event, within the time for the first chunk.
Timeout ==
  /\ phase = "prefetching" /\ (Waiting \/ ~wrapper.firstSent)
  /\ phase' = "failed"
  /\ UNCHANGED <<got, upstream, wrapper, queue, outer, pending, emitted, client>>

\* The provider's stream raises; the layers pass it on.
ReceiveError ==
  /\ Waiting /\ upstream # "ended"
  /\ phase' = IF phase = "prefetching" THEN "failed" ELSE "broken"
  /\ UNCHANGED <<got, upstream, wrapper, queue, outer, pending, emitted, client>>

Stop ==
  /\ Waiting /\ upstream = "ended"
  /\ phase' = IF phase = "prefetching" THEN "failed" ELSE "done"
  /\ UNCHANGED <<got, upstream, wrapper, queue, outer, pending, emitted, client>>

----------------------------------------------------------------------------
(* The outer layer *)

MarkOf(pieces) == {got[pieces[i]].mark : i \in DOMAIN pieces}
Opens(pieces) == MarkOf(pieces) \cap {"opens", "whole"} # {}
Closes(pieces) == MarkOf(pieces) \cap {"closes", "whole"} # {}

IsText(e) == e.type = "content_block_delta" /\ e.of = "text"

Converted(e) ==
  IF e.type = "content_block_start" /\ e.of = "thinking" /\ outer.convert
    THEN [e EXCEPT !.of = "text"] ELSE e

\* A delta that held only a think tag, or whose block was stopped.
Dropped(e) ==
  \/ IsText(e) /\ MarkOf(e.pieces) = {"think tag"}
  \/ e.type = "content_block_delta" /\ e.index \in outer.stopped

Buffered(e) == IsText(e) /\ (outer.buffering \/ Opens(e.pieces))
Flushing(e) == e.type \in {"message_delta", "message_stop"} /\ outer.buffering

\* What the recogniser makes of a text: the pieces that stay text, whether it
\* builds a call (of several the first stands for all) and the pieces in the
\* call's input.  What it matched goes from the text even when it builds none,
\* or one that has no use for it.
Findings(pieces) ==
  LET parts == {Picked(pieces, is) : is \in SUBSET DOMAIN pieces}
  IN  [text : parts, call : {FALSE}, input : {<<>>}]
        \cup [text : parts, call : {TRUE}, input : parts]

TakenOut(pieces, found) == Range(pieces) \ (Range(found.text) \cup Range(found.input))

\* A call becomes block 1; the text stays in block 0.
ToolEvents(found) ==
  (IF found.text = <<>> THEN <<>> ELSE <<Delta(0, "text", found.text)>>)
    \o <<BlockStop(0)>>
    \o (IF found.call
        THEN <<BlockStart(1, "tool_use", <<>>), Delta(1, "input_json", found.input), BlockStop(1)>>
        ELSE <<>>)
    \o <<MessageDelta("tool_use")>>

\* mutant: a thinking block is closed as it is
NeverUnsigned(o, e) == FALSE

Unsigned(o, e) ==
  e.type = "content_block_stop" /\ e.index \in o.thinking \ o.signed

\* The first event goes out, or the signature it lacks; the others wait.
Give(events, o) ==
  LET e == Head(events) IN
  IF Unsigned(o, e)
    THEN /\ Emit(Delta(e.index, "signature", <<>>))
         /\ pending' = events
         /\ outer' = [o EXCEPT !.signed = @ \cup {e.index}]
    ELSE /\ Emit(e)
         /\ pending' = Tail(events)
         /\ outer' = [o EXCEPT !.thinking =
              IF e.type # "content_block_start" THEN @
              ELSE IF e.of = "thinking" THEN @ \cup {e.index} ELSE @ \ {e.index}]

\* Which blocks are stopped, as far as the inner layer's events tell.
Filtered(e) ==
  CASE e.type = "content_block_start" -> [outer EXCEPT !.stopped = @ \ {e.index}]
    [] e.type = "content_block_stop" -> [outer EXCEPT !.stopped = @ \cup {e.index}]
    [] OTHER -> outer

Drop(e) ==
  /\ Dropped(e)
  /\ UNCHANGED <<outer, pending, phase, emitted, client>>

HoldBack(e) ==
  /\ ~Dropped(e) /\ Buffered(e) /\ ~Closes(outer.buffer \o e.pieces)
  /\ outer' = [outer EXCEPT !.buffering = TRUE, !.buffer = @ \o e.pieces]
  /\ UNCHANGED <<pending, phase, emitted, client>>

Parsed(pieces, found) ==
  [outer EXCEPT !.buffering = FALSE, !.buffer = <<>>, !.lost = @ \cup TakenOut(pieces, found)]

Parse(e) ==
  /\ ~Dropped(e) /\ Buffered(e) /\ Closes(outer.buffer \o e.pieces)
  /\ \E found \in Findings(outer.buffer \o e.pieces) :
       Give(ToolEvents(found), Parsed(outer.buffer \o e.pieces, found))

Flush(e) ==
  /\ Flushing(e)
  /\ \E found \in Findings(outer.buffer) :
       Give(ToolEvents(found) \o <<e>>, Parsed(outer.buffer, found))

Pass(e) ==
  /\ ~Dropped(e) /\ ~Buffered(e) /\ ~Flushing(e)
  /\ Give(<<e>>, Filtered(e))

\* An event of the inner layer, when none of the outer layer waits.
Take ==
  /\ Open /\ pending = <<>> /\ queue # <<>>
  /\ queue' = Tail(queue)
  /\ LET e == Converted(Head(queue)) IN
       Drop(e) \/ HoldBack(e) \/ Parse(e) \/ Flush(e) \/ Pass(e)
  /\ UNCHANGED <<got, upstream, wrapper>>

GivePending ==
  /\ Open /\ pending # <<>>
  /\ Emit(Head(pending))
  /\ pending' = Tail(pending)
  /\ UNCHANGED <<got, upstream, wrapper, queue, outer>>

Next ==
  \/ StartMessage
  \/ \E kind \in Kind, mark \in Mark \cup {"plain"} : ReceiveContent(kind, mark)
  \/ ReceiveFinish \/ ReceiveUsage \/ ReceiveEnd \/ ReceiveError
  \/ Take \/ GivePending \/ Timeout \/ Stop

Spec == Init /\ [][Next]_vars

\* The handler pulls and its timer runs; nothing is assumed of the provider.
Fairness == WF_vars(StartMessage) /\ WF_vars(Take \/ GivePending) /\ WF_vars(Timeout)

FairSpec == Spec /\ Fairness

----------------------------------------------------------------------------
(* Properties *)

\* No text of the stream opens a tool call written as text.
NoMarkup == \A i \in DOMAIN got : got[i].mark \notin {"opens", "whole"}

IsDelta(e) == e.type = "content_block_delta"
Edge(e) == e.type \in {"content_block_start", "content_block_stop"}

\* The type of the block that is open at an event and has its index, if any.
OpenTypes(i) ==
  {emitted[j].of : j \in {k \in 1..i - 1 :
     /\ emitted[k].type = "content_block_start" /\ emitted[k].index = emitted[i].index
     /\ \A m \in k + 1..i - 1 : ~Edge(emitted[m])}}

\* A delta may go into a block of these types.  Thinking that is not converted
\* stays text in a block of type thinking.
Fitting(e) ==
  IF e.of = "input_json" THEN {"tool_use"}
  ELSE IF e.of = "signature" THEN {"thinking"}
  ELSE {"text", "thinking"} \cup (IF e.pieces = <<>> THEN {"tool_use"} ELSE {})

\* Content blocks are numbered from 0 without a gap, one is open at a time, and
\* every delta is in the open block and of its type: the arguments of a tool
\* call in its tool block, whatever came before it.
BlocksNest ==
  \A i \in DOMAIN emitted :
    LET e == emitted[i] IN
    /\ IsDelta(e) => OpenTypes(i) \cap Fitting(e) # {}
    /\ e.type = "content_block_stop" => OpenTypes(i) # {}
    /\ e.type = "content_block_start" =>
         /\ \A n \in 0..e.index - 1 : \E j \in 1..i - 1 : emitted[j] = BlockStop(n)
         /\ \A j \in 1..i - 1 :
              emitted[j].type = "content_block_start" => emitted[j].index < e.index

\* The message starts once and first, its delta comes when every block is
\* closed and once, and its stop ends the stream.
Envelope ==
  \A i \in DOMAIN emitted :
    LET e == emitted[i] IN
    /\ e.type = "message_start" <=> i = 1
    /\ e.type = "message_stop" => i = Len(emitted)
    /\ e.type = "message_delta" =>
         \A j \in i + 1..Len(emitted) : emitted[j].type = "message_stop"

\* Anthropic's streaming contract, over switches of blocks, a stop reason that
\* is held back, and a stream cut short anywhere (sitecustomize.py:1684-1687).
StreamingContract == NoMarkup => BlocksNest /\ Envelope

\* A chunk whose text or arguments a reader must get, and a delta with a piece.
Carries(i) ==
  /\ got[i].kind \notin {"blank", "signature"}
  /\ got[i].mark # "think tag"
Bears(e, i) == IsDelta(e) /\ i \in Range(e.pieces)

\* A delta has at most one piece, no piece comes twice or before an earlier
\* one, and there is none but those of the chunks.
OneByOne ==
  /\ \A e \in Range(emitted) :
       IsDelta(e) => e.pieces = <<>> \/ \E n \in DOMAIN got : e.pieces = <<n>> /\ Carries(n)
  /\ \A k, l \in DOMAIN emitted : \A m, n \in DOMAIN got :
       k < l /\ Bears(emitted[k], m) /\ Bears(emitted[l], n) => m < n

\* Everything the provider sent arrives in a complete stream, also what was
\* held back as it might have been a tool call, except for what the recogniser
\* took out of a text without a use for it; that happens to no stream in which no
\* text opens a call.  A message with content says why it stopped, whether or not
\* usage follows the reason that is held back for it.  Without tool calls written
\* as text, each piece is in one delta, in order, over switches of blocks and
\* conversions of thinking.  (A block of reasoning also holds its first piece
\* from its start; that is not counted.)
AllArrives ==
  phase = "done" =>
    /\ \A i \in DOMAIN got : Carries(i) =>
         i \in outer.lost \/ \E e \in Range(emitted) : Bears(e, i)
    /\ (\E i \in DOMAIN got : got[i].kind # "blank")
         => MessageDelta(StopReason) \in Range(emitted)
    /\ NoMarkup => OneByOne /\ outer.lost = {}

\* A call was written in the thinking that the stream begins with.
CallInFirstThinking ==
  \E n \in DOMAIN got :
    /\ \A m \in 1..n : got[m].kind \in {"thinking", "signature", "blank"}
    /\ \E m \in 1..n : Opens(<<m>>)
    /\ Closes(<<n>>)

\* Claude Code rejects a thinking block without a signature
\* (sitecustomize.py:2090): each one has exactly one before it is closed, also
\* when calls written as text are parsed around it, and whatever later thinking
\* says.  Only a call that is written in the thinking of block 0 may close the
\* block, from among the events that wait, without one.
SignedThinking ==
  \A i \in DOMAIN emitted :
    emitted[i].type = "content_block_stop" /\ OpenTypes(i) = {"thinking"} =>
      \/ Cardinality({j \in 1..i - 1 :
           emitted[j] = Delta(emitted[i].index, "signature", <<>>)}) = 1
      \/ emitted[i].index = 0 /\ CallInFirstThinking

\* The client has seen nothing when the handler gives up, so that the router
\* may fall back; otherwise it sees every event of the outer layer, those that
\* were pulled before the provider answered included.
FallbackUnseen == client = IF phase \in {"prefetching", "failed"} THEN <<>> ELSE emitted

\* The handler ends, with a stream that the provider has begun or with an
\* exception, whatever the provider does.
HandlerSettles == <>(phase # "prefetching")
============================================================================
