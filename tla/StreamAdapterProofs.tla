------------------------ MODULE StreamAdapterProofs ------------------------
(***************************************************************************)
(* Proofs about StreamAdapter, for any length of the provider's stream and *)
(* any kinds of text.                                                      *)
(*                                                                         *)
(* FallbackUnseen is inductive as it stands: an event reaches the client   *)
(* through Emit only, and the handler ends the wait in a state where       *)
(* nothing has been replayed.                                              *)
(*                                                                         *)
(* The streaming contract needs to know what is on its way: the events the *)
(* outer layer holds back and the inner layer's queue, one after the other *)
(* (Line).  The invariant says which events can be on the line, by the     *)
(* state of the inner layer, and in which state a reader of what was       *)
(* emitted is (Inside a block, Between blocks), so that whatever leaves    *)
(* the line is what the reader may see next.  A signature is put in front  *)
(* of the line only where an open thinking block is about to be stopped    *)
(* (ThinkingSound).                                                        *)
(*                                                                         *)
(* The signatures need another invariant, as calls written as text bring   *)
(* events of their own, with numbers of their own, between those of the    *)
(* inner layer.  It says what may come to a reader inside a block of       *)
(* thinking: only what the provider last thought.  Thinking may be text    *)
(* that spells a call, but such a call ends block 0 and no other, and the  *)
(* stop is behind the text (SafeStop, Draining).                           *)
(*                                                                         *)
(* That all arrives needs both, and one more that follows each piece from  *)
(* the chunk that brings it (Kept): it is in an event that was given out   *)
(* or is on its way, was taken out of a text for good, or is in text held  *)
(* back, which something that releases it still follows (HeldSound).       *)
(***************************************************************************)
EXTENDS StreamAdapter, SequenceProofs

----------------------------------------------------------------------------
(* The handler                                                             *)

\* An event that leaves the outer layer is hidden with those before it, or is
\* replayed after them, or follows them at once.
LEMMA EmitUnseen ==
  ASSUME FallbackUnseen, Open, NEW e, Emit(e)
  PROVE  FallbackUnseen'
  BY DEF FallbackUnseen, Open, Emit, Replayed

\* The two events Give may put first go the same way.
LEMMA GiveUnseen ==
  ASSUME FallbackUnseen, Open, NEW events, NEW o, Give(events, o)
  PROVE  FallbackUnseen'
<1> DEFINE e == Head(events)
<1>1. Emit(Delta(e.index, "signature", <<>>)) \/ Emit(e)
  BY DEF Give
<1> HIDE DEF e
<1> QED
  BY <1>1, EmitUnseen

\* What the outer layer does with one event of the inner layer.
LEMMA TakeUnseen ==
  ASSUME FallbackUnseen, Take
  PROVE  FallbackUnseen'
<1> DEFINE e == Converted(Head(queue))
<1>1. Open /\ (Drop(e) \/ HoldBack(e) \/ Parse(e) \/ Flush(e) \/ Pass(e))
  BY DEF Take
<1> HIDE DEF e
<1>2. CASE Drop(e) \/ HoldBack(e)
  BY <1>2 DEF Drop, HoldBack, FallbackUnseen
<1>3. CASE Pass(e)
  BY <1>1, <1>3, GiveUnseen DEF Pass
<1>4. CASE Parse(e) \/ Flush(e)
  <2>1. \E events, o : Give(events, o)
    BY <1>4 DEF Parse, Flush
  <2> QED
    BY <1>1, <2>1, GiveUnseen
<1> QED
  BY <1>1, <1>2, <1>3, <1>4

\* No step of the handler shows the client a part of a stream that it may
\* still give up, or hides one that it has accepted.
LEMMA NextUnseen ==
  ASSUME FallbackUnseen, [Next]_vars
  PROVE  FallbackUnseen'
<1>1. CASE StartMessage
  BY <1>1 DEF StartMessage, FallbackUnseen
<1>2. ASSUME NEW kind, NEW mark, ReceiveContent(kind, mark)
      PROVE  FallbackUnseen'
  BY <1>2 DEF ReceiveContent, FallbackUnseen
<1>3. CASE ReceiveFinish \/ ReceiveUsage \/ ReceiveEnd
  BY <1>3 DEF ReceiveFinish, ReceiveUsage, ReceiveEnd, FallbackUnseen
<1>4. CASE ReceiveError
  BY <1>4 DEF ReceiveError, Waiting, Open, FallbackUnseen
<1>5. CASE Take
  BY <1>5, TakeUnseen
<1>6. CASE GivePending
  BY <1>6, EmitUnseen DEF GivePending
<1>7. CASE Timeout
  BY <1>7 DEF Timeout, FallbackUnseen
<1>8. CASE Stop
  BY <1>8 DEF Stop, Waiting, Open, FallbackUnseen
<1>9. CASE UNCHANGED vars
  BY <1>9 DEF vars, FallbackUnseen
<1> QED
  BY <1>1, <1>2, <1>3, <1>4, <1>5, <1>6, <1>7, <1>8, <1>9 DEF Next

\* While the handler may still give up (a time-out or an exception before the
\* first event of the provider) the client has seen nothing; afterwards it
\* has seen all that the adapter gave out.
THEOREM FallbackIsUnseen == Spec => []FallbackUnseen
<1>1. Init => FallbackUnseen
  BY DEF Init, FallbackUnseen
<1>2. FallbackUnseen /\ [Next]_vars => FallbackUnseen'
  BY NextUnseen
<1> QED
  BY <1>1, <1>2, PTL DEF Spec

----------------------------------------------------------------------------
(* Types                                                                   *)

EventType == {"message_start", "message_delta", "message_stop", "ping",
              "content_block_start", "content_block_delta", "content_block_stop"}
BlockTypes == {"text", "thinking", "tool_use"}
Reasons == {"tool_use", "end_turn"}
EventOf == BlockTypes \cup Reasons \cup {"", "input_json", "signature"}
AnEvent == [type : EventType, index : Nat, of : EventOf, pieces : Seq(Nat)]

Chunk == [kind : Kind, mark : Mark \cup {"plain"}, n : Nat]
AnyChunk == [kind : Kind \cup {"finish", "usage"}, mark : Mark \cup {"plain"}, n : Nat]

WrapperType ==
  [firstSent : BOOLEAN, blockStarted : BOOLEAN, blockFinished : BOOLEAN,
   blockType : BlockTypes, index : Nat, holding : Reasons \cup {"none"}, usageQueued : BOOLEAN]

OuterType ==
  [convert : BOOLEAN, thinking : SUBSET Nat, signed : SUBSET Nat,
   stopped : SUBSET Nat, buffering : BOOLEAN, buffer : Seq(Nat), lost : SUBSET Nat]

EventsTyped ==
  queue \in Seq(AnEvent) /\ pending \in Seq(AnEvent) /\ emitted \in Seq(AnEvent)

TypeOK ==
  /\ got \in Seq(Chunk)
  /\ upstream \in {"content", "finished", "used", "ended"}
  /\ wrapper \in WrapperType /\ outer \in OuterType /\ EventsTyped

\* Every event the layers make is one.
LEMMA EventTypes ==
  /\ MessageStart \in AnEvent /\ MessageStop \in AnEvent /\ Ping \in AnEvent
  /\ \A r \in Reasons \cup {""} : MessageDelta(r) \in AnEvent
  /\ \A i \in Nat : BlockStop(i) \in AnEvent
  /\ \A i \in Nat, t \in BlockTypes, p \in Seq(Nat) : BlockStart(i, t, p) \in AnEvent
  /\ \A i \in Nat, o \in {"text", "input_json", "signature"}, p \in Seq(Nat) :
       Delta(i, o, p) \in AnEvent
<1>1. <<>> \in Seq(Nat)
  BY EmptySeq
<1> QED BY <1>1 DEF AnEvent, EventType, EventOf, BlockTypes, Reasons, Event, MessageStart,
       MessageStop, Ping, MessageDelta, BlockStop, BlockStart, Delta

LEMMA ChunkEvents ==
  ASSUME NEW c \in AnyChunk, NEW i \in Nat
  PROVE  /\ StartOf(c, i) \in AnEvent /\ Translated(c, i) \in AnEvent
         /\ BlockType(c) \in BlockTypes
         /\ StopReason \in Reasons
<1>1. c.n \in Nat /\ c.kind \in Kind \cup {"finish", "usage"}
  BY DEF AnyChunk
<1>2. <<>> \in Seq(Nat) /\ <<c.n>> \in Seq(Nat)
  BY <1>1
<1>3. BlockType(c) \in BlockTypes
  BY DEF BlockType, BlockTypes
<1>4. StopReason \in Reasons
  BY DEF StopReason, Reasons
<1>5. StartOf(c, i) \in AnEvent
  BY <1>2, <1>3, EventTypes DEF StartOf
<1>6. Translated(c, i) \in AnEvent
  BY <1>1, <1>2, <1>4, EventTypes DEF Translated, Kind
<1> QED BY <1>3, <1>4, <1>5, <1>6

LEMMA ConvertedType ==
  ASSUME NEW e \in AnEvent
  PROVE  Converted(e) \in AnEvent
BY DEF Converted, AnEvent, EventOf, BlockTypes

\* The block and the wrapper as the inner layer goes on with a chunk.
NewIndex(c) == IF ShouldStartNewBlock(c) THEN wrapper.index + 1 ELSE wrapper.index
NewWrapper(c) ==
  [wrapper EXCEPT !.index = NewIndex(c),
                  !.blockType = IF ShouldStartNewBlock(c) THEN BlockType(c) ELSE @]

\* What the inner layer does with a chunk, case by case.
LEMMA TranslateCases ==
  ASSUME NEW c, Translate(c)
  PROVE  LET w == NewWrapper(c)
             i == NewIndex(c)
             e == Translated(c, i)
             new == ShouldStartNewBlock(c)
         IN \/ /\ w.holding # "none" /\ c.kind = "usage"
               /\ queue' = <<MessageDelta(w.holding)>>
               /\ wrapper' = [w EXCEPT !.usageQueued = TRUE, !.holding = "none"]
            \/ w.usageQueued /\ wrapper' = w /\ queue' = queue
            \/ new /\ ~w.blockFinished /\ queue' = Switched(c, i) /\ wrapper' = w
            \/ /\ e.type = "message_delta" /\ ~w.blockFinished /\ e.of = ""
               /\ queue' = Closed(i) \o <<e>>
               /\ wrapper' = [w EXCEPT !.blockFinished = TRUE]
            \/ /\ e.type = "message_delta" /\ ~w.blockFinished /\ e.of # ""
               /\ queue' = Closed(i)
               /\ wrapper' = [w EXCEPT !.blockFinished = TRUE, !.holding = e.of]
            \/ /\ ~(new /\ ~w.blockFinished)
               /\ queue' = <<e>> /\ wrapper' = w
BY DEF Translate, NewWrapper, NewIndex

\* What the inner layer makes of a chunk.
LEMMA ProcessTypes ==
  ASSUME TypeOK, NEW c \in AnyChunk, Process(c)
  PROVE  wrapper' \in WrapperType /\ queue' \in Seq(AnEvent)
<1> DEFINE w == NewWrapper(c)
           i == NewIndex(c)
           e == Translated(c, i)
<1>1. wrapper \in WrapperType /\ wrapper.index \in Nat
  BY DEF TypeOK, WrapperType
<1>2. i \in Nat /\ (ShouldStartNewBlock(c) => i - 1 \in Nat)
  BY <1>1 DEF NewIndex
<1> HIDE DEF i
<1>3. e \in AnEvent /\ StartOf(c, i) \in AnEvent /\ BlockType(c) \in BlockTypes
  BY <1>2, ChunkEvents
<1>4. w \in WrapperType
  BY <1>1, <1>2, <1>3 DEF NewWrapper, WrapperType, i
<1>5. e.type = "message_delta" /\ e.of # "" => e.of \in Reasons
  BY <1>2, ChunkEvents DEF Translated, Event, MessageDelta, Ping, Delta
<1>6. Closed(i) \in Seq(AnEvent) /\ Closed(i) \o <<e>> \in Seq(AnEvent)
  <2>1. BlockStop(i) \in AnEvent
    BY <1>2, EventTypes
  <2>2. Closed(i) \in Seq(AnEvent) /\ <<e>> \in Seq(AnEvent)
    BY <1>3, <2>1 DEF Closed
  <2> HIDE DEF e
  <2> QED BY <2>2, ConcatProperties
<1>7. ShouldStartNewBlock(c) => Switched(c, i) \in Seq(AnEvent)
  <2>1. ShouldStartNewBlock(c) => BlockStop(i - 1) \in AnEvent
    BY <1>2, EventTypes
  <2>2. ShouldStartNewBlock(c) => <<BlockStop(i - 1), StartOf(c, i)>> \in Seq(AnEvent)
    BY <1>3, <2>1
  <2>3. (IF e.type = "content_block_delta" THEN <<e>> ELSE <<>>) \in Seq(AnEvent)
    BY <1>3
  <2> QED BY <2>2, <2>3, ConcatProperties DEF Switched
<1>8. CASE wrapper.blockStarted
  <2>1. Translate(c)
    BY <1>8 DEF Process
  <2>2. w.holding # "none" => MessageDelta(w.holding) \in AnEvent
    BY <1>4, EventTypes DEF WrapperType
  <2>3. \/ /\ w.holding # "none"
           /\ queue' = <<MessageDelta(w.holding)>>
           /\ wrapper' = [w EXCEPT !.usageQueued = TRUE, !.holding = "none"]
        \/ wrapper' = w /\ queue' = queue
        \/ ShouldStartNewBlock(c) /\ queue' = Switched(c, i) /\ wrapper' = w
        \/ queue' = Closed(i) \o <<e>> /\ wrapper' = [w EXCEPT !.blockFinished = TRUE]
        \/ /\ e.type = "message_delta" /\ e.of # "" /\ queue' = Closed(i)
           /\ wrapper' = [w EXCEPT !.blockFinished = TRUE, !.holding = e.of]
        \/ queue' = <<e>> /\ wrapper' = w
    BY <2>1, TranslateCases DEF i
  <2>4. queue \in Seq(AnEvent) /\ <<e>> \in Seq(AnEvent)
    BY <1>3 DEF TypeOK, EventsTyped
  <2>5. w.holding # "none" => <<MessageDelta(w.holding)>> \in Seq(AnEvent)
    BY <2>2
  <2> HIDE DEF w, e
  <2>6. queue' \in Seq(AnEvent)
    <3> DEFINE m == <<MessageDelta(w.holding)>>
               one == <<e>>
               shut == Closed(i)
               both == Closed(i) \o <<e>>
               turn == Switched(c, i)
    <3>1. \/ w.holding # "none" /\ queue' = m
          \/ queue' = queue
          \/ ShouldStartNewBlock(c) /\ queue' = turn
          \/ queue' = both \/ queue' = shut \/ queue' = one
      BY <2>3
    <3>2. /\ w.holding # "none" => m \in Seq(AnEvent)
          /\ queue \in Seq(AnEvent) /\ one \in Seq(AnEvent)
          /\ ShouldStartNewBlock(c) => turn \in Seq(AnEvent)
          /\ both \in Seq(AnEvent) /\ shut \in Seq(AnEvent)
      BY <2>4, <2>5, <1>6, <1>7
    <3> HIDE DEF m, one, shut, both, turn
    <3> QED BY <3>1, <3>2
  <2>7. wrapper' \in WrapperType
    BY <2>3, <1>4, <1>5 DEF WrapperType
  <2> QED BY <2>6, <2>7
<1>9. CASE ~wrapper.blockStarted /\ HasActualContent(c)
  <2>1. StartOf(c, wrapper.index) \in AnEvent /\ Translated(c, wrapper.index) \in AnEvent
    BY <1>1, ChunkEvents
  <2>2. /\ wrapper' = [wrapper EXCEPT !.blockStarted = TRUE, !.blockType = BlockType(c)]
        /\ queue' = <<StartOf(c, wrapper.index), Translated(c, wrapper.index)>>
    BY <1>9 DEF Process
  <2>3. wrapper' \in WrapperType
    BY <1>1, <1>3, <2>2 DEF WrapperType
  <2>4. queue' \in Seq(AnEvent)
    BY <2>1, <2>2
  <2> QED BY <2>3, <2>4
<1>10. CASE ~wrapper.blockStarted /\ ~HasActualContent(c)
  BY <1>1, <1>10 DEF Process, TypeOK, EventsTyped
<1> QED BY <1>8, <1>9, <1>10

\* What the recogniser makes of a text, and the state after it.
AFinding(S) == [text : Seq(S), call : BOOLEAN, input : Seq(S)]

LEMMA FindingType ==
  ASSUME NEW S, NEW p \in Seq(S), NEW found \in Findings(p)
  PROVE  found \in AFinding(S) /\ (~found.call => found.input = <<>>)
<1>1. \A is : Picked(p, is) \in Seq(S)
  BY PickedFacts
<1>2. <<>> \in Seq(S)
  BY EmptySeq
<1> QED BY <1>1, <1>2 DEF Findings, AFinding

LEMMA ParsedType ==
  ASSUME outer \in OuterType, NEW p \in Seq(Nat), NEW found
  PROVE  /\ Parsed(p, found) \in OuterType /\ Parsed(p, found).convert = outer.convert
         /\ Parsed(p, found).thinking = outer.thinking
         /\ Parsed(p, found).signed = outer.signed /\ Parsed(p, found).stopped = outer.stopped
         /\ Parsed(p, found).buffering = FALSE /\ Parsed(p, found).buffer = <<>>
         /\ Parsed(p, found).lost = outer.lost \cup TakenOut(p, found)
<1>1. TakenOut(p, found) \subseteq Nat
  BY SeqFacts DEF TakenOut
<1>2. <<>> \in Seq(Nat)
  BY EmptySeq
<1> HIDE DEF TakenOut
<1> QED BY <1>1, <1>2 DEF OuterType, Parsed

\* The events it becomes.
LEMMA ToolEventsType ==
  ASSUME NEW found \in AFinding(Nat)
  PROVE  ToolEvents(found) \in Seq(AnEvent) /\ ToolEvents(found) # <<>>
<1> DEFINE a == IF found.text = <<>> THEN <<>> ELSE <<Delta(0, "text", found.text)>>
           b == <<BlockStop(0)>>
           c == IF found.call
                THEN <<BlockStart(1, "tool_use", <<>>), Delta(1, "input_json", found.input),
                       BlockStop(1)>>
                ELSE <<>>
           d == <<MessageDelta("tool_use")>>
<1>0. /\ <<>> \in Seq(Nat) /\ "tool_use" \in BlockTypes
      /\ found.text \in Seq(Nat) /\ found.input \in Seq(Nat)
  BY EmptySeq DEF BlockTypes, AFinding
<1>1. a \in Seq(AnEvent)
  <2>1. Delta(0, "text", found.text) \in AnEvent
    BY <1>0, EventTypes
  <2> QED BY <2>1
<1>2. b \in Seq(AnEvent)
  <2>1. BlockStop(0) \in AnEvent
    BY EventTypes
  <2> QED BY <2>1
<1>3. c \in Seq(AnEvent)
  <2>1. /\ BlockStart(1, "tool_use", <<>>) \in AnEvent
        /\ Delta(1, "input_json", found.input) \in AnEvent /\ BlockStop(1) \in AnEvent
    BY <1>0, EventTypes
  <2> QED BY <2>1
<1>4. d \in Seq(AnEvent) /\ Len(d) = 1
  <2>1. MessageDelta("tool_use") \in AnEvent
    BY EventTypes DEF Reasons
  <2> QED BY <2>1
<1>5. ToolEvents(found) = ((a \o b) \o c) \o d
  BY DEF ToolEvents
<1> HIDE DEF a, b, c, d
<1>6. a \o b \in Seq(AnEvent)
  BY <1>1, <1>2, ConcatProperties
<1>7. (a \o b) \o c \in Seq(AnEvent)
  BY <1>3, <1>6, ConcatProperties
<1> DEFINE abc == (a \o b) \o c
<1>8. abc \in Seq(AnEvent) /\ Len(abc) \in Nat
  BY <1>7, LenProperties
<1> HIDE DEF abc
<1>9. abc \o d \in Seq(AnEvent) /\ Len(abc \o d) = Len(abc) + 1
  <2>1. abc \o d \in Seq(AnEvent) /\ Len(abc \o d) = Len(abc) + Len(d)
    BY <1>4, <1>8, ConcatProperties
  <2> QED BY <1>4, <1>8, <2>1
<1>10. abc \o d # <<>>
  BY <1>8, <1>9, EmptySeq
<1> QED BY <1>5, <1>9, <1>10 DEF abc

\* What leaves and what waits, when the outer layer gives out events.
LEMMA GiveTypes ==
  ASSUME TypeOK, NEW events \in Seq(AnEvent), events # <<>>, NEW o \in OuterType,
         Give(events, o)
  PROVE  /\ emitted' \in Seq(AnEvent) /\ pending' \in Seq(AnEvent)
         /\ outer' \in OuterType /\ outer'.convert = o.convert
<1> DEFINE e == Head(events)
<1>1. e \in AnEvent /\ Tail(events) \in Seq(AnEvent)
  BY HeadTailProperties
<1>2. e.index \in Nat /\ Delta(e.index, "signature", <<>>) \in AnEvent
  <2>1. e.index \in Nat
    BY <1>1 DEF AnEvent
  <2> QED BY <2>1, EmptySeq, EventTypes
<1>3. emitted \in Seq(AnEvent)
  BY DEF TypeOK, EventsTyped
<1>4. CASE Unsigned(o, e)
  <2>1. /\ emitted' = Append(emitted, Delta(e.index, "signature", <<>>))
        /\ pending' = events
        /\ outer' = [o EXCEPT !.signed = @ \cup {e.index}]
    BY <1>4 DEF Give, Emit
  <2> HIDE DEF e
  <2>2. outer' \in OuterType /\ outer'.convert = o.convert
    BY <1>2, <2>1 DEF OuterType
  <2> QED BY <1>2, <1>3, <2>1, <2>2, AppendProperties
<1>5. CASE ~Unsigned(o, e)
  <2>1. emitted' = Append(emitted, e) /\ pending' = Tail(events)
    BY <1>5 DEF Give, Emit
  <2>2. outer' = [o EXCEPT !.thinking =
              IF e.type # "content_block_start" THEN @
              ELSE IF e.of = "thinking" THEN @ \cup {e.index} ELSE @ \ {e.index}]
    BY <1>5 DEF Give
  <2> HIDE DEF e
  <2>3. outer' \in OuterType /\ outer'.convert = o.convert
    BY <1>2, <2>2 DEF OuterType
  <2> QED BY <1>1, <1>3, <2>1, <2>3, AppendProperties
<1> QED BY <1>4, <1>5

\* Text that was held back, with more of it.
LEMMA BufferType ==
  ASSUME TypeOK, NEW e \in AnEvent
  PROVE  outer.buffer \o e.pieces \in Seq(Nat)
<1>1. outer.buffer \in Seq(Nat) /\ e.pieces \in Seq(Nat)
  BY DEF TypeOK, OuterType, AnEvent
<1> QED BY <1>1, ConcatProperties

\* What the outer layer does with an event of the inner layer.
LEMMA TakeTypes ==
  ASSUME TypeOK, Take
  PROVE  TypeOK' /\ outer'.convert = outer.convert
<1> DEFINE e == Converted(Head(queue))
<1>1. queue \in Seq(AnEvent) /\ queue # <<>>
  BY DEF TypeOK, EventsTyped, Take
<1>2. Head(queue) \in AnEvent /\ Tail(queue) \in Seq(AnEvent)
  BY <1>1, HeadTailProperties
<1>3. e \in AnEvent
  BY <1>2, ConvertedType
<1>4. /\ queue' = Tail(queue) /\ UNCHANGED <<got, upstream, wrapper>>
      /\ Drop(e) \/ HoldBack(e) \/ Parse(e) \/ Flush(e) \/ Pass(e)
  BY DEF Take
<1> HIDE DEF e
<1>5. outer \in OuterType
  BY DEF TypeOK
<1>6. Filtered(e) \in OuterType /\ Filtered(e).convert = outer.convert
  BY <1>3, <1>5 DEF Filtered, OuterType, AnEvent
<1>7. emitted' \in Seq(AnEvent) /\ pending' \in Seq(AnEvent)
        /\ outer' \in OuterType /\ outer'.convert = outer.convert
  <2>1. CASE Drop(e)
    BY <2>1 DEF Drop, TypeOK, EventsTyped
  <2>2. CASE HoldBack(e)
    <3>1. outer.buffer \o e.pieces \in Seq(Nat)
      BY <1>3, BufferType
    <3>2. outer' = [outer EXCEPT !.buffering = TRUE, !.buffer = @ \o e.pieces]
            /\ UNCHANGED <<pending, emitted>>
      BY <2>2 DEF HoldBack
    <3>3. outer' \in OuterType /\ outer'.convert = outer.convert
      BY <1>5, <3>1, <3>2 DEF OuterType
    <3> QED BY <3>2, <3>3 DEF TypeOK, EventsTyped
  <2>3. CASE Pass(e)
    <3>1. <<e>> \in Seq(AnEvent) /\ <<e>> # <<>>
      BY <1>3
    <3> QED BY <1>6, <2>3, <3>1, GiveTypes DEF Pass
  <2>4. CASE Parse(e)
    <3> DEFINE text == outer.buffer \o e.pieces
    <3>1. text \in Seq(Nat)
      BY <1>3, BufferType
    <3>2. PICK found \in Findings(text) : Give(ToolEvents(found), Parsed(text, found))
      BY <2>4 DEF Parse
    <3> HIDE DEF text
    <3>3. found \in AFinding(Nat)
      BY <3>1, FindingType
    <3>4. ToolEvents(found) \in Seq(AnEvent) /\ ToolEvents(found) # <<>>
      BY <3>3, ToolEventsType
    <3>5. Parsed(text, found) \in OuterType /\ Parsed(text, found).convert = outer.convert
      BY <1>5, <3>1, ParsedType
    <3> QED BY <3>2, <3>4, <3>5, GiveTypes
  <2>5. CASE Flush(e)
    <3>1. outer.buffer \in Seq(Nat)
      BY DEF TypeOK, OuterType
    <3>2. PICK found \in Findings(outer.buffer) :
            Give(ToolEvents(found) \o <<e>>, Parsed(outer.buffer, found))
      BY <2>5 DEF Flush
    <3>3. found \in AFinding(Nat)
      BY <3>1, FindingType
    <3> DEFINE made == ToolEvents(found)
    <3>4. made \in Seq(AnEvent) /\ made # <<>>
      BY <3>3, ToolEventsType
    <3>5. <<e>> \in Seq(AnEvent)
      BY <1>3
    <3>6. Parsed(outer.buffer, found) \in OuterType
            /\ Parsed(outer.buffer, found).convert = outer.convert
      BY <1>5, <3>1, ParsedType
    <3> HIDE DEF made
    <3>7. made \o <<e>> \in Seq(AnEvent) /\ made \o <<e>> # <<>>
      BY <3>4, <3>5, ConcatProperties
    <3> QED BY <3>2, <3>6, <3>7, GiveTypes DEF made
  <2> QED BY <1>4, <2>1, <2>2, <2>3, <2>4, <2>5
<1>8. queue' \in Seq(AnEvent)
  BY <1>2, <1>4
<1> QED BY <1>4, <1>7, <1>8 DEF TypeOK, EventsTyped

LEMMA GivePendingTypes ==
  ASSUME TypeOK, GivePending
  PROVE  TypeOK'
<1>1. pending \in Seq(AnEvent) /\ pending # <<>> /\ emitted \in Seq(AnEvent)
  BY DEF GivePending, TypeOK, EventsTyped
<1>2. Head(pending) \in AnEvent /\ Tail(pending) \in Seq(AnEvent)
  BY <1>1, HeadTailProperties
<1>3. /\ emitted' = Append(emitted, Head(pending)) /\ pending' = Tail(pending)
      /\ UNCHANGED <<got, upstream, wrapper, queue, outer>>
  BY DEF GivePending, Emit
<1>4. emitted' \in Seq(AnEvent) /\ pending' \in Seq(AnEvent)
  BY <1>1, <1>2, <1>3, AppendProperties
<1> QED BY <1>3, <1>4 DEF TypeOK, EventsTyped

\* The chunk a provider sends next.
NextChunk(kind, mark) == [kind |-> kind, mark |-> mark, n |-> Len(got) + 1]

LEMMA NextTypes ==
  ASSUME TypeOK, [Next]_vars
  PROVE  TypeOK'
<1>0. \A c \in AnyChunk : Process(c) => wrapper' \in WrapperType /\ queue' \in Seq(AnEvent)
  BY ProcessTypes
<1>1. CASE StartMessage
  <2>1. MessageStart \in AnEvent
    BY EventTypes
  <2>2. queue' = <<MessageStart>> /\ wrapper' = [wrapper EXCEPT !.firstSent = TRUE]
          /\ UNCHANGED <<got, upstream, outer, pending, emitted>>
    BY <1>1 DEF StartMessage
  <2>3. queue' \in Seq(AnEvent)
    BY <2>1, <2>2
  <2>4. wrapper' \in WrapperType
    BY <2>2 DEF TypeOK, WrapperType
  <2> QED BY <2>2, <2>3, <2>4 DEF TypeOK, EventsTyped
<1>2. ASSUME NEW kind \in Kind, NEW mark \in Mark \cup {"plain"}, ReceiveContent(kind, mark)
      PROVE  TypeOK'
  <2> DEFINE c == NextChunk(kind, mark)
  <2>1. got \in Seq(Chunk) /\ Len(got) \in Nat
    BY LenProperties DEF TypeOK
  <2>2. c \in Chunk /\ c \in AnyChunk
    BY <2>1 DEF NextChunk, Chunk, AnyChunk
  <2>3. got' = Append(got, c) /\ Process(c) /\ UNCHANGED <<upstream, outer, pending, emitted>>
    BY <1>2 DEF ReceiveContent, NextChunk
  <2> HIDE DEF c
  <2>4. got' \in Seq(Chunk)
    BY <2>1, <2>2, <2>3, AppendProperties
  <2>5. wrapper' \in WrapperType /\ queue' \in Seq(AnEvent)
    BY <1>0, <2>2, <2>3
  <2> QED BY <2>3, <2>4, <2>5 DEF TypeOK, EventsTyped
<1>3. CASE ReceiveFinish \/ ReceiveUsage
  <2>1. Finish \in AnyChunk /\ Usage \in AnyChunk
    BY DEF Finish, Usage, AnyChunk
  <2>2. (Process(Finish) \/ Process(Usage)) /\ upstream' \in {"finished", "used"}
          /\ UNCHANGED <<got, outer, pending, emitted>>
    BY <1>3 DEF ReceiveFinish, ReceiveUsage
  <2>3. wrapper' \in WrapperType /\ queue' \in Seq(AnEvent)
    BY <1>0, <2>1, <2>2
  <2> QED BY <2>2, <2>3 DEF TypeOK, EventsTyped
<1>4. CASE ReceiveEnd
  <2>1. wrapper' = [wrapper EXCEPT !.holding = "none"] /\ upstream' = "ended"
          /\ queue' = Leftover /\ UNCHANGED <<got, outer, pending, emitted>>
    BY <1>4 DEF ReceiveEnd
  <2>2. wrapper' \in WrapperType
    BY <2>1 DEF TypeOK, WrapperType
  <2>3. <<MessageStop>> \in Seq(AnEvent)
    <3>1. MessageStop \in AnEvent
      BY EventTypes
    <3> QED BY <3>1
  <2>4. (IF ~wrapper.usageQueued /\ wrapper.holding # "none"
           THEN <<MessageDelta(wrapper.holding)>> ELSE <<>>) \in Seq(AnEvent)
    <3>1. wrapper.holding # "none" => MessageDelta(wrapper.holding) \in AnEvent
      BY EventTypes DEF TypeOK, WrapperType
    <3> QED BY <3>1
  <2>5. queue' \in Seq(AnEvent)
    BY <2>1, <2>3, <2>4, ConcatProperties DEF Leftover
  <2> QED BY <2>1, <2>2, <2>5 DEF TypeOK, EventsTyped
<1>5. CASE ReceiveError \/ Timeout \/ Stop \/ UNCHANGED vars
  BY <1>5 DEF ReceiveError, Timeout, Stop, vars, TypeOK, EventsTyped
<1> QED BY <1>1, <1>2, <1>3, <1>4, <1>5, TakeTypes, GivePendingTypes DEF Next

----------------------------------------------------------------------------
(* The reader of what was emitted                                          *)

\* Block i, of type t, is open.
OpenBlock(i, t) ==
  \E k \in DOMAIN emitted :
    /\ emitted[k].type = "content_block_start"
    /\ emitted[k].index = i /\ emitted[k].of = t
    /\ \A m \in k + 1..Len(emitted) : ~Edge(emitted[m])

StoppedBelow(i) ==
  \A n \in 0..i - 1 : \E j \in DOMAIN emitted : emitted[j] = BlockStop(n)

StartsBelow(i) ==
  \A j \in DOMAIN emitted :
    emitted[j].type = "content_block_start" => emitted[j].index < i

\* Between the blocks, block i comes next; or inside block i.
Between(i) == StoppedBelow(i) /\ StartsBelow(i)
Inside(i, t) == OpenBlock(i, t) /\ StoppedBelow(i) /\ StartsBelow(i + 1)

Unsaid(type) == \A j \in DOMAIN emitted : emitted[j].type # type

\* What was emitted stays, the new event is the last.
LEMMA Emitted ==
  ASSUME emitted \in Seq(AnEvent), NEW e \in AnEvent, emitted' = Append(emitted, e)
  PROVE  /\ Len(emitted) \in Nat /\ Len(emitted') = Len(emitted) + 1
         /\ DOMAIN emitted = 1..Len(emitted) /\ DOMAIN emitted' = 1..Len(emitted) + 1
         /\ \A j \in 1..Len(emitted) : emitted'[j] = emitted[j]
         /\ emitted'[Len(emitted) + 1] = e
         /\ \A j \in 1..Len(emitted) : emitted[j] \in AnEvent
<1>1. Len(emitted) \in Nat /\ DOMAIN emitted = 1..Len(emitted)
  BY LenProperties
<1>2. emitted' \in Seq(AnEvent) /\ Len(emitted') = Len(emitted) + 1
  BY AppendProperties
<1>3. DOMAIN emitted' = 1..Len(emitted) + 1
  BY <1>1, <1>2, LenProperties
<1>4. \A j \in 1..Len(emitted) : emitted'[j] = emitted[j]
  BY <1>1, AppendProperties
<1>5. emitted'[Len(emitted) + 1] = e
  BY AppendProperties
<1>6. \A j \in 1..Len(emitted) : emitted[j] \in AnEvent
  BY ElementOfSeq
<1> QED BY <1>1, <1>2, <1>3, <1>4, <1>5, <1>6

\* An event inside a block leaves the reader where it is.
LEMMA ReadsOn ==
  ASSUME emitted \in Seq(AnEvent), NEW e \in AnEvent, emitted' = Append(emitted, e),
         ~Edge(e)
  PROVE  /\ \A i, t : OpenBlock(i, t)' = OpenBlock(i, t)
         /\ \A i \in Nat : StoppedBelow(i) => StoppedBelow(i)'
         /\ \A i \in Nat : StartsBelow(i) => StartsBelow(i)'
<1>1. /\ Len(emitted) \in Nat /\ Len(emitted') = Len(emitted) + 1
      /\ DOMAIN emitted = 1..Len(emitted) /\ DOMAIN emitted' = 1..Len(emitted) + 1
      /\ \A j \in 1..Len(emitted) : emitted'[j] = emitted[j]
      /\ emitted'[Len(emitted) + 1] = e
  BY Emitted
<1>2. e.type # "content_block_start"
  BY DEF Edge
<1>3. ASSUME NEW i, NEW t, OpenBlock(i, t)
      PROVE  OpenBlock(i, t)'
  <2>1. PICK k \in 1..Len(emitted) :
          /\ emitted[k].type = "content_block_start"
          /\ emitted[k].index = i /\ emitted[k].of = t
          /\ \A m \in k + 1..Len(emitted) : ~Edge(emitted[m])
    BY <1>1, <1>3 DEF OpenBlock
  <2>2. \A m \in k + 1..Len(emitted') : ~Edge(emitted'[m])
    <3> TAKE m \in k + 1..Len(emitted')
    <3>1. m \in k + 1..Len(emitted) \/ m = Len(emitted) + 1
      BY <1>1
    <3> QED BY <1>1, <2>1, <3>1 DEF Edge
  <2> QED BY <1>1, <2>1, <2>2 DEF OpenBlock
<1>4. ASSUME NEW i, NEW t, OpenBlock(i, t)'
      PROVE  OpenBlock(i, t)
  <2>1. PICK k \in 1..Len(emitted) + 1 :
          /\ emitted'[k].type = "content_block_start"
          /\ emitted'[k].index = i /\ emitted'[k].of = t
          /\ \A m \in k + 1..Len(emitted') : ~Edge(emitted'[m])
    BY <1>1, <1>4 DEF OpenBlock
  <2>2. k \in 1..Len(emitted)
    BY <1>1, <1>2, <2>1
  <2>3. \A m \in k + 1..Len(emitted) : ~Edge(emitted[m])
    BY <1>1, <2>1, <2>2 DEF Edge
  <2> QED BY <1>1, <2>1, <2>2, <2>3 DEF OpenBlock
<1>5. \A i, t : OpenBlock(i, t)' = OpenBlock(i, t)
  <2>1. \A i, t : OpenBlock(i, t) \in BOOLEAN /\ OpenBlock(i, t)' \in BOOLEAN
    BY DEF OpenBlock
  <2> QED BY <1>3, <1>4, <2>1
<1>6. \A i \in Nat : StoppedBelow(i) => StoppedBelow(i)'
  <2> SUFFICES ASSUME NEW i \in Nat, StoppedBelow(i), NEW n \in 0..i - 1
               PROVE  \E j \in DOMAIN emitted' : emitted'[j] = BlockStop(n)'
    BY DEF StoppedBelow
  <2>1. BlockStop(n)' = BlockStop(n)
    BY DEF BlockStop, Event
  <2> QED BY <1>1, <2>1 DEF StoppedBelow
<1>7. \A i \in Nat : StartsBelow(i) => StartsBelow(i)'
  BY <1>1, <1>2 DEF StartsBelow
<1> QED BY <1>5, <1>6, <1>7

\* The stop of block i puts the reader behind it.
LEMMA ReadsStop ==
  ASSUME emitted \in Seq(AnEvent), NEW i \in Nat, emitted' = Append(emitted, BlockStop(i))
  PROVE  /\ StoppedBelow(i) => StoppedBelow(i + 1)'
         /\ \A n \in Nat : StartsBelow(n) => StartsBelow(n)'
         /\ \A n, t : ~OpenBlock(n, t)'
<1>0. BlockStop(i) \in AnEvent
  BY EventTypes
<1>1. /\ Len(emitted) \in Nat /\ Len(emitted') = Len(emitted) + 1
      /\ DOMAIN emitted = 1..Len(emitted) /\ DOMAIN emitted' = 1..Len(emitted) + 1
      /\ \A j \in 1..Len(emitted) : emitted'[j] = emitted[j]
      /\ emitted'[Len(emitted) + 1] = BlockStop(i)
  BY <1>0, Emitted
<1>2. BlockStop(i).type = "content_block_stop" /\ Edge(BlockStop(i))
  BY DEF BlockStop, Event, Edge
<1>3. StoppedBelow(i) => StoppedBelow(i + 1)'
  <2> SUFFICES ASSUME StoppedBelow(i), NEW n \in 0..i
               PROVE  \E j \in DOMAIN emitted' : emitted'[j] = BlockStop(n)'
    BY DEF StoppedBelow
  <2>1. BlockStop(n)' = BlockStop(n)
    BY DEF BlockStop, Event
  <2>2. CASE n = i
    BY <1>1, <2>1, <2>2
  <2>3. CASE n \in 0..i - 1
    BY <1>1, <2>1, <2>3 DEF StoppedBelow
  <2> QED BY <2>2, <2>3
<1>4. \A n \in Nat : StartsBelow(n) => StartsBelow(n)'
  BY <1>1, <1>2 DEF StartsBelow
<1>5. ASSUME NEW n, NEW t, OpenBlock(n, t)'
      PROVE  FALSE
  <2>1. PICK k \in 1..Len(emitted) + 1 :
          /\ emitted'[k].type = "content_block_start"
          /\ \A m \in k + 1..Len(emitted') : ~Edge(emitted'[m])
    BY <1>1, <1>5 DEF OpenBlock
  <2>2. k \in 1..Len(emitted)
    BY <1>1, <1>2, <2>1
  <2> QED BY <1>1, <1>2, <2>1, <2>2 DEF Edge
<1> QED BY <1>3, <1>4, <1>5

\* The start of block i puts the reader inside it.
LEMMA ReadsStart ==
  ASSUME emitted \in Seq(AnEvent), NEW e \in AnEvent, emitted' = Append(emitted, e),
         e.type = "content_block_start"
  PROVE  /\ OpenBlock(e.index, e.of)'
         /\ \A n, t : OpenBlock(n, t)' => n = e.index /\ t = e.of
         /\ \A i \in Nat : StoppedBelow(i) => StoppedBelow(i)'
         /\ StartsBelow(e.index) => StartsBelow(e.index + 1)'
<1>1. /\ Len(emitted) \in Nat /\ Len(emitted') = Len(emitted) + 1
      /\ DOMAIN emitted = 1..Len(emitted) /\ DOMAIN emitted' = 1..Len(emitted) + 1
      /\ \A j \in 1..Len(emitted) : emitted'[j] = emitted[j] /\ emitted[j] \in AnEvent
      /\ emitted'[Len(emitted) + 1] = e
  BY Emitted
<1>2. Edge(e) /\ e.index \in Nat
  BY DEF Edge, AnEvent
<1>3. OpenBlock(e.index, e.of)'
  <2>1. \A m \in (Len(emitted) + 1) + 1..Len(emitted') : ~Edge(emitted'[m])
    BY <1>1
  <2> QED BY <1>1, <2>1 DEF OpenBlock
<1>4. ASSUME NEW n, NEW t, OpenBlock(n, t)'
      PROVE  n = e.index /\ t = e.of
  <2>1. PICK k \in 1..Len(emitted) + 1 :
          /\ emitted'[k].index = n /\ emitted'[k].of = t
          /\ \A m \in k + 1..Len(emitted') : ~Edge(emitted'[m])
    BY <1>1, <1>4 DEF OpenBlock
  <2>2. k = Len(emitted) + 1
    BY <1>1, <1>2, <2>1 DEF Edge
  <2> QED BY <1>1, <2>1, <2>2
<1>5. \A i \in Nat : StoppedBelow(i) => StoppedBelow(i)'
  <2> SUFFICES ASSUME NEW i \in Nat, StoppedBelow(i), NEW n \in 0..i - 1
               PROVE  \E j \in DOMAIN emitted' : emitted'[j] = BlockStop(n)'
    BY DEF StoppedBelow
  <2>1. BlockStop(n)' = BlockStop(n)
    BY DEF BlockStop, Event
  <2> QED BY <1>1, <2>1 DEF StoppedBelow
<1>6. ASSUME StartsBelow(e.index)
      PROVE  StartsBelow(e.index + 1)'
  <2> SUFFICES ASSUME NEW j \in 1..Len(emitted) + 1,
                      emitted'[j].type = "content_block_start"
               PROVE  emitted'[j].index < e.index + 1
    BY <1>1 DEF StartsBelow
  <2>1. CASE j = Len(emitted) + 1
    BY <1>1, <1>2, <2>1
  <2>2. CASE j \in 1..Len(emitted)
    BY <1>1, <1>2, <1>6, <2>2 DEF StartsBelow, AnEvent
  <2> QED BY <2>1, <2>2
<1> QED BY <1>3, <1>4, <1>5, <1>6

\* After a stop no block is open.
LEMMA NoneOpen ==
  ASSUME emitted \in Seq(AnEvent), NEW e \in AnEvent, emitted' = Append(emitted, e),
         e.type = "content_block_stop"
  PROVE  \A n, t : ~OpenBlock(n, t)'
<1>1. /\ Len(emitted) \in Nat /\ Len(emitted') = Len(emitted) + 1
      /\ DOMAIN emitted' = 1..Len(emitted) + 1
      /\ emitted'[Len(emitted) + 1] = e
  BY Emitted
<1>2. Edge(e) /\ e.type # "content_block_start"
  BY DEF Edge
<1> SUFFICES ASSUME NEW n, NEW t, OpenBlock(n, t)'
             PROVE  FALSE
  OBVIOUS
<1>3. PICK k \in 1..Len(emitted) + 1 :
        /\ emitted'[k].type = "content_block_start"
        /\ \A m \in k + 1..Len(emitted') : ~Edge(emitted'[m])
  BY <1>1 DEF OpenBlock
<1>4. k = Len(emitted) + 1 \/ Len(emitted) + 1 \in k + 1..Len(emitted')
  BY <1>1
<1> QED BY <1>1, <1>2, <1>3, <1>4 DEF Edge

LEMMA Speaks ==
  ASSUME emitted \in Seq(AnEvent), NEW e \in AnEvent, emitted' = Append(emitted, e)
  PROVE  \A type : Unsaid(type) /\ e.type # type => Unsaid(type)'
<1>1. /\ DOMAIN emitted = 1..Len(emitted) /\ DOMAIN emitted' = 1..Len(emitted) + 1
      /\ Len(emitted) \in Nat
      /\ \A j \in 1..Len(emitted) : emitted'[j] = emitted[j]
      /\ emitted'[Len(emitted) + 1] = e
  BY Emitted
<1> QED BY <1>1 DEF Unsaid

\* Which blocks are open at an event is known when it is emitted.
LEMMA OpenTypesStay ==
  ASSUME emitted \in Seq(AnEvent), NEW e \in AnEvent, emitted' = Append(emitted, e),
         NEW last, last = Len(emitted) + 1
  PROVE  /\ \A i \in 1..Len(emitted) : OpenTypes(i)' = OpenTypes(i)
         /\ \A t : OpenBlock(e.index, t) => t \in OpenTypes(last)'
<1>1. /\ Len(emitted) \in Nat /\ Len(emitted') = Len(emitted) + 1
      /\ DOMAIN emitted = 1..Len(emitted) /\ DOMAIN emitted' = 1..Len(emitted) + 1
      /\ \A j \in 1..Len(emitted) : emitted'[j] = emitted[j]
      /\ emitted'[Len(emitted) + 1] = e
  BY Emitted
<1>2. ASSUME NEW i \in 1..Len(emitted)
      PROVE  OpenTypes(i)' = OpenTypes(i)
  <2> DEFINE K == {k \in 1..i - 1 :
               /\ emitted[k].type = "content_block_start" /\ emitted[k].index = emitted[i].index
               /\ \A m \in k + 1..i - 1 : ~Edge(emitted[m])}
             L == {k \in 1..i - 1 :
               /\ emitted'[k].type = "content_block_start" /\ emitted'[k].index = emitted'[i].index
               /\ \A m \in k + 1..i - 1 : ~Edge(emitted'[m])}
  <2>1. \A k \in 1..i - 1 : k \in 1..Len(emitted) /\ \A m \in k + 1..i - 1 : m \in 1..Len(emitted)
    BY <1>1
  <2>2. K = L
    BY <1>1, <2>1
  <2>3. OpenTypes(i) = {emitted[j].of : j \in K} /\ OpenTypes(i)' = {emitted'[j].of : j \in L}
    BY DEF OpenTypes, Edge
  <2>4. \A j \in K : emitted'[j] = emitted[j]
    BY <1>1, <2>1
  <2> HIDE DEF K, L
  <2> QED BY <2>2, <2>3, <2>4
<1>3. ASSUME NEW t, OpenBlock(e.index, t)
      PROVE  t \in OpenTypes(last)'
  <2>1. PICK k \in 1..Len(emitted) :
          /\ emitted[k].type = "content_block_start"
          /\ emitted[k].index = e.index /\ emitted[k].of = t
          /\ \A m \in k + 1..Len(emitted) : ~Edge(emitted[m])
    BY <1>1, <1>3 DEF OpenBlock
  <2>2. k \in 1..last - 1
    BY <1>1
  <2>3. \A m \in k + 1..last - 1 : ~Edge(emitted'[m])
    BY <1>1, <2>1 DEF Edge
  <2>4. emitted'[k].type = "content_block_start" /\ emitted'[k].of = t
          /\ emitted'[k].index = emitted'[last].index
    BY <1>1, <2>1
  <2> QED BY <2>2, <2>3, <2>4 DEF OpenTypes, Edge
<1> QED BY <1>2, <1>3

\* One event more, in its place, and the blocks still nest.
LEMMA NestsOn ==
  ASSUME emitted \in Seq(AnEvent), NEW e \in AnEvent, emitted' = Append(emitted, e),
         BlocksNest,
         IsDelta(e) => \E t \in Fitting(e) : OpenBlock(e.index, t),
         e.type = "content_block_stop" => \E t : OpenBlock(e.index, t),
         e.type = "content_block_start" => Between(e.index)
  PROVE  BlocksNest'
<1>1. /\ Len(emitted) \in Nat /\ Len(emitted') = Len(emitted) + 1
      /\ DOMAIN emitted = 1..Len(emitted) /\ DOMAIN emitted' = 1..Len(emitted) + 1
      /\ \A j \in 1..Len(emitted) : emitted'[j] = emitted[j]
      /\ emitted'[Len(emitted) + 1] = e
  BY Emitted
<1>2. PICK last \in Nat : last = Len(emitted) + 1
  BY <1>1
<1>3. /\ \A i \in 1..Len(emitted) : OpenTypes(i)' = OpenTypes(i)
      /\ \A t : OpenBlock(e.index, t) => t \in OpenTypes(last)'
  BY <1>2, OpenTypesStay
<1>4. \A n : BlockStop(n)' = BlockStop(n)
  BY DEF BlockStop, Event
<1>5. ASSUME NEW i \in 1..Len(emitted)
      PROVE  LET f == emitted'[i] IN
             /\ IsDelta(f) => OpenTypes(i)' \cap Fitting(f) # {}
             /\ f.type = "content_block_stop" => OpenTypes(i)' # {}
             /\ f.type = "content_block_start" =>
                  /\ \A n \in 0..f.index - 1 : \E j \in 1..i - 1 : emitted'[j] = BlockStop(n)
                  /\ \A j \in 1..i - 1 :
                       emitted'[j].type = "content_block_start" => emitted'[j].index < f.index
  <2>1. emitted'[i] = emitted[i] /\ OpenTypes(i)' = OpenTypes(i)
          /\ \A j \in 1..i - 1 : emitted'[j] = emitted[j]
    BY <1>1, <1>3
  <2> QED BY <1>1, <2>1 DEF BlocksNest
<1>6. /\ IsDelta(e) => OpenTypes(last)' \cap Fitting(e) # {}
      /\ e.type = "content_block_stop" => OpenTypes(last)' # {}
  BY <1>3
<1>7. e.type = "content_block_start" =>
        /\ \A n \in 0..e.index - 1 : \E j \in 1..last - 1 : emitted'[j] = BlockStop(n)
        /\ \A j \in 1..last - 1 :
             emitted'[j].type = "content_block_start" => emitted'[j].index < e.index
  BY <1>1, <1>2 DEF Between, StoppedBelow, StartsBelow
<1>8. \A i \in 1..last :
        LET f == emitted'[i] IN
        /\ IsDelta(f) => OpenTypes(i)' \cap Fitting(f) # {}
        /\ f.type = "content_block_stop" => OpenTypes(i)' # {}
        /\ f.type = "content_block_start" =>
             /\ \A n \in 0..f.index - 1 : \E j \in 1..i - 1 : emitted'[j] = BlockStop(n)
             /\ \A j \in 1..i - 1 :
                  emitted'[j].type = "content_block_start" => emitted'[j].index < f.index
  <2> TAKE i \in 1..last
  <2>1. i \in 1..Len(emitted) \/ i = last
    BY <1>1, <1>2
  <2>2. emitted'[last] = e
    BY <1>1, <1>2
  <2>3. CASE i = last
    BY <1>6, <1>7, <2>2, <2>3
  <2> QED BY <1>5, <2>1, <2>3
<1> QED BY <1>1, <1>2, <1>4, <1>8 DEF BlocksNest, IsDelta, Fitting

\* One event more, and the message still has its first and its last one.
LEMMA EnvelopesOn ==
  ASSUME emitted \in Seq(AnEvent), NEW e \in AnEvent, emitted' = Append(emitted, e),
         Envelope,
         e.type = "message_start" <=> emitted = <<>>,
         Unsaid("message_stop"),
         Unsaid("message_delta") \/ e.type = "message_stop"
  PROVE  Envelope'
<1>1. /\ Len(emitted) \in Nat /\ Len(emitted') = Len(emitted) + 1
      /\ DOMAIN emitted = 1..Len(emitted) /\ DOMAIN emitted' = 1..Len(emitted) + 1
      /\ \A j \in 1..Len(emitted) : emitted'[j] = emitted[j]
      /\ emitted'[Len(emitted) + 1] = e
  BY Emitted
<1>2. emitted = <<>> <=> Len(emitted) = 0
  BY EmptySeq
<1>3. ASSUME NEW i \in 1..Len(emitted)
      PROVE  /\ emitted'[i].type = "message_start" <=> i = 1
             /\ emitted'[i].type # "message_stop"
             /\ emitted'[i].type = "message_delta" =>
                  \A j \in i + 1..Len(emitted') : emitted'[j].type = "message_stop"
  <2>1. emitted[i].type = "message_start" <=> i = 1
    BY <1>1 DEF Envelope
  <2>2. emitted[i].type # "message_stop"
    BY <1>1 DEF Unsaid
  <2>3. ASSUME emitted[i].type = "message_delta", NEW j \in i + 1..Len(emitted')
        PROVE  emitted'[j].type = "message_stop"
    <3>1. e.type = "message_stop"
      BY <1>1, <2>3 DEF Unsaid
    <3>2. CASE j = Len(emitted) + 1
      BY <1>1, <3>1, <3>2
    <3>3. CASE j \in i + 1..Len(emitted)
      BY <1>1, <2>3, <3>3 DEF Envelope
    <3> QED BY <1>1, <3>2, <3>3
  <2> QED BY <1>1, <2>1, <2>2, <2>3
<1>4. e.type = "message_start" <=> Len(emitted) + 1 = 1
  BY <1>1, <1>2
<1> SUFFICES ASSUME NEW i \in 1..Len(emitted) + 1
             PROVE  /\ emitted'[i].type = "message_start" <=> i = 1
                    /\ emitted'[i].type = "message_stop" => i = Len(emitted')
                    /\ emitted'[i].type = "message_delta" =>
                         \A j \in i + 1..Len(emitted') : emitted'[j].type = "message_stop"
  BY <1>1 DEF Envelope
<1>5. CASE i \in 1..Len(emitted)
  BY <1>3, <1>5
<1>6. CASE i = Len(emitted) + 1
  BY <1>1, <1>4, <1>6
<1> QED BY <1>5, <1>6

----------------------------------------------------------------------------
(* What is on its way                                                      *)

\* The events that were made and not yet given out.
Line == pending \o queue

\* The type a block has for the reader.
Outside(type) == IF type = "thinking" /\ outer.convert THEN "text" ELSE type

\* A delta of block i, which has type t for the reader; a ping goes anywhere.
Fits(d, i, t) ==
  \/ d = Ping
  \/ IsDelta(d) /\ d.index = i /\ d.of # "signature" /\ t \in Fitting(d)

Deltas(s, i, t) == s = <<>> \/ (Tail(s) = <<>> /\ Fits(Head(s), i, t))

Starts(e, i, b) == e = BlockStart(i, b, e.pieces)

\* The inner layer has not finished a block or held a reason back.
Unfinished == ~wrapper.blockFinished /\ wrapper.holding = "none" /\ ~wrapper.usageQueued

Unopened ==
  /\ Unfinished /\ ~wrapper.blockStarted /\ wrapper.index = 0 /\ upstream = "content"
  /\ emitted = <<>> /\ pending = <<>>
  /\ queue = IF wrapper.firstSent THEN <<MessageStart>> ELSE <<>>

Opened ==
  /\ wrapper.firstSent /\ emitted # <<>>
  /\ Unsaid("message_stop") \/ (upstream = "ended" /\ Line = <<>>)

\* No chunk with content came.
NoBlock ==
  /\ Opened
  /\ Unfinished /\ ~wrapper.blockStarted /\ wrapper.index = 0
  /\ Between(0) /\ Unsaid("message_delta")
  /\ Line = <<>> \/ (upstream = "ended" /\ Line = <<MessageStop>>)

\* The reader is in block i and what is on the line belongs there; or block i
\* starts next; or the block before it is stopped next.
WritesIn(i, t) == Inside(i, t) /\ Deltas(Line, i, t)

WritesBefore(i, b, t) ==
  /\ Between(i)
  /\ Line # <<>> /\ Starts(Head(Line), i, b) /\ Deltas(Tail(Line), i, t)

WritesAfter(i, b, t) ==
  /\ i > 0 /\ \E u \in BlockTypes : Inside(i - 1, u)
  /\ Line # <<>> /\ Head(Line) = BlockStop(i - 1)
  /\ Tail(Line) # <<>> /\ Starts(Head(Tail(Line)), i, b) /\ Deltas(Tail(Tail(Line)), i, t)

Writing ==
  /\ Opened
  /\ Unfinished /\ wrapper.blockStarted /\ upstream = "content"
  /\ Unsaid("message_delta")
  /\ \E i \in Nat, b \in BlockTypes, t \in BlockTypes :
       /\ i = wrapper.index /\ b = wrapper.blockType /\ t = Outside(b)
       /\ WritesIn(i, t) \/ WritesBefore(i, b, t) \/ WritesAfter(i, b, t)

\* The last block is stopped, or is next; the reason is held back.
Holding(i) ==
  /\ upstream = "finished" /\ wrapper.holding # "none" /\ ~wrapper.usageQueued
  /\ Unsaid("message_delta")
  /\ \/ /\ \E t \in BlockTypes : Inside(i, t)
        /\ Line # <<>> /\ Head(Line) = BlockStop(i) /\ Tail(Line) = <<>>
     \/ Line = <<>> /\ Between(i + 1)

\* The reason and the end of the message are on the line, or were given out.
TheEnd == IF upstream = "used" THEN <<>> ELSE <<MessageStop>>

Released(i) ==
  /\ upstream \in {"used", "ended"} /\ wrapper.holding = "none"
  /\ Between(i + 1)
  /\ \/ /\ Unsaid("message_delta")
        /\ Line # <<>> /\ (\E r \in Reasons : Head(Line) = MessageDelta(r)) /\ Tail(Line) = TheEnd
     \/ Line = TheEnd
     \/ Line = <<>>

Ending ==
  /\ Opened
  /\ wrapper.blockStarted /\ wrapper.blockFinished
  /\ \E i \in Nat : i = wrapper.index /\ (Holding(i) \/ Released(i))

Pipeline == Unopened \/ NoBlock \/ Writing \/ Ending

\* A block that waits for its signature is a block of thinking.
ThinkingSound ==
  \A k \in outer.thinking, t \in EventOf : OpenBlock(k, t) => t = "thinking"

\* An event that carries chunks that came.
OfChunks == {e \in AnEvent : e.pieces \in Seq(DOMAIN got)}

\* No text is held back or lost, and the outer layer lets at most a stop wait.
Quiet ==
  /\ ~outer.buffering /\ outer.lost = {}
  /\ queue \in Seq(OfChunks)
  /\ pending = <<>> \/ (pending # <<>> /\ Tail(pending) = <<>>
                         /\ Head(pending) \in OfChunks
                         /\ Head(pending).type = "content_block_stop")

Flow == Quiet /\ ThinkingSound /\ Pipeline /\ BlocksNest /\ Envelope

IInv == TypeOK /\ (NoMarkup => Flow)

LEMMA LineType ==
  ASSUME TypeOK
  PROVE  Line \in Seq(AnEvent)
BY ConcatProperties DEF TypeOK, EventsTyped, Line

\* No text of the stream opens a call: nothing is held back.
LEMMA NothingOpens ==
  ASSUME TypeOK, NoMarkup, NEW p \in Seq(DOMAIN got)
  PROVE  ~Opens(p)
<1>1. \A i \in DOMAIN p : p[i] \in DOMAIN got
  BY ElementOfSeq, LenProperties
<1>2. \A m \in MarkOf(p) : m \notin {"opens", "whole"}
  BY <1>1 DEF MarkOf, NoMarkup
<1> QED BY <1>2 DEF Opens

\* The thinking blocks after an event was given out.
ThinkingAfter(e) ==
  IF e.type # "content_block_start" THEN outer.thinking
  ELSE IF e.of = "thinking" THEN outer.thinking \cup {e.index} ELSE outer.thinking \ {e.index}

\* The first event of the line is dropped, or given out as the reader sees it,
\* or it is a stop and a signature goes out before it.
Dropping ==
  IsDelta(Head(Line)) /\ Line' = Tail(Line) /\ UNCHANGED emitted
    /\ outer'.thinking = outer.thinking

Passing ==
  LET e == Converted(Head(Line)) IN
  emitted' = Append(emitted, e) /\ Line' = Tail(Line) /\ outer'.thinking = ThinkingAfter(e)

Signing ==
  LET e == Head(Line) IN
  /\ e.type = "content_block_stop" /\ e.index \in outer.thinking
  /\ emitted' = Append(emitted, Delta(e.index, "signature", <<>>))
  /\ Line' = Line /\ outer'.thinking = outer.thinking

OuterStep ==
  /\ Line # <<>> /\ Head(Line) \in AnEvent
  /\ UNCHANGED <<got, upstream, wrapper>> /\ outer'.convert = outer.convert
  /\ Dropping \/ Passing \/ Signing

\* A stop that waited behind its signature.
LEMMA PendingStep ==
  ASSUME TypeOK, Quiet, GivePending
  PROVE  OuterStep /\ Quiet'
<1> DEFINE e == Head(pending)
<1>1. /\ pending \in Seq(AnEvent) /\ pending # <<>> /\ Tail(pending) = <<>>
      /\ e \in OfChunks /\ e.type = "content_block_stop" /\ queue \in Seq(AnEvent)
  BY DEF GivePending, Quiet, TypeOK, EventsTyped
<1>2. /\ emitted' = Append(emitted, e) /\ pending' = <<>>
      /\ UNCHANGED <<got, upstream, wrapper, queue, outer>>
  BY <1>1 DEF GivePending, Emit
<1>3. pending = <<e>>
  <2>1. <<Head(pending)>> \o Tail(pending) = pending
    BY <1>1
  <2>2. <<e>> \in Seq(AnEvent)
    BY <1>1, HeadTailProperties
  <2>3. <<e>> \o <<>> = <<e>>
    BY <2>2, ConcatEmptySeq
  <2> QED BY <1>1, <2>1, <2>3
<1> HIDE DEF e
<1>4. Line = <<e>> \o queue /\ Line' = queue
  BY <1>1, <1>2, <1>3 DEF Line
<1>5. e \in AnEvent
  BY <1>1 DEF OfChunks
<1>6. Line # <<>> /\ Head(Line) = e /\ Tail(Line) = queue
  BY <1>1, <1>4, <1>5, ConcatProperties
<1>7. Converted(e) = e /\ ThinkingAfter(e) = outer.thinking
  BY <1>1 DEF Converted, ThinkingAfter
<1>8. Quiet'
  <2>1. OfChunks' = OfChunks
    BY <1>2 DEF OfChunks
  <2> QED BY <1>2, <2>1 DEF Quiet
<1> QED BY <1>2, <1>4, <1>5, <1>6, <1>7, <1>8 DEF OuterStep, Passing

LEMMA TakeStep ==
  ASSUME TypeOK, Quiet, NoMarkup, Take
  PROVE  OuterStep /\ Quiet'
<1> DEFINE h == Head(queue)
           e == Converted(h)
<1>1. /\ Line = queue /\ Line # <<>> /\ pending = <<>> /\ queue \in Seq(AnEvent)
      /\ queue' = Tail(queue) /\ queue # <<>>
  BY DEF Take, Line, TypeOK, EventsTyped
<1>2. h \in OfChunks /\ Tail(queue) \in Seq(OfChunks)
  BY <1>1, HeadTailProperties DEF Quiet
<1>3. h \in AnEvent /\ h.pieces \in Seq(DOMAIN got)
  BY <1>2 DEF OfChunks
<1>4. e \in AnEvent
  BY <1>3, ConvertedType
<1>5. e.type = h.type /\ e.pieces = h.pieces /\ e.index = h.index
        /\ (h.type = "content_block_stop" => e = h)
  BY <1>3 DEF Converted, AnEvent
<1>6. UNCHANGED <<got, upstream, wrapper>> /\ outer'.convert = outer.convert
  BY TakeTypes DEF Take
<1>7. OfChunks' = OfChunks
  BY <1>6 DEF OfChunks
<1>8. ~Buffered(e) /\ ~Flushing(e)
  BY <1>3, <1>5, NothingOpens DEF Buffered, Flushing, Quiet
<1>9. Drop(e) \/ HoldBack(e) \/ Parse(e) \/ Flush(e) \/ Pass(e)
  BY DEF Take
<1>10. Line = queue /\ Head(Line) = h /\ Tail(Line) = Tail(queue)
  BY <1>1
<1> HIDE DEF e, h
<1>11. Drop(e) \/ Pass(e)
  BY <1>8, <1>9 DEF HoldBack, Parse, Flush
<1>12. CASE Drop(e)
  <2>1. UNCHANGED <<outer, pending, emitted>> /\ IsDelta(h)
    BY <1>5, <1>12 DEF Drop, Dropped, IsText, IsDelta
  <2>2. Line' = Tail(queue)
    BY <1>1, <2>1 DEF Line
  <2>3. Quiet'
    BY <1>1, <1>2, <1>7, <2>1 DEF Quiet
  <2> QED BY <1>1, <1>3, <1>6, <1>10, <2>1, <2>2, <2>3 DEF OuterStep, Dropping
<1>13. CASE Pass(e)
  <2> DEFINE o == Filtered(e)
  <2>1. Give(<<e>>, o)
    BY <1>13 DEF Pass
  <2>2. /\ o \in OuterType /\ o.thinking = outer.thinking
        /\ ~o.buffering /\ o.lost = {}
    <3>1. outer \in OuterType /\ ~outer.buffering /\ outer.lost = {} /\ e.index \in Nat
      BY <1>4 DEF TypeOK, Quiet, AnEvent
    <3> QED BY <3>1 DEF Filtered, OuterType
  <2> HIDE DEF o
  <2>3. Head(<<e>>) = e /\ Tail(<<e>>) = <<>>
    OBVIOUS
  <2>4. CASE Unsigned(o, e)
    <3>1. /\ e.type = "content_block_stop" /\ e.index \in outer.thinking
          /\ emitted' = Append(emitted, Delta(e.index, "signature", <<>>))
          /\ pending' = <<e>> /\ outer' = [o EXCEPT !.signed = @ \cup {e.index}]
      BY <2>1, <2>2, <2>3, <2>4 DEF Give, Unsigned, Emit
    <3>2. e = h
      BY <1>5, <3>1
    <3>3. Line' = <<h>> \o Tail(queue)
      BY <1>1, <3>1, <3>2 DEF Line
    <3>4. <<h>> \o Tail(queue) = queue
      BY <1>1 DEF h
    <3>5. outer'.thinking = outer.thinking /\ ~outer'.buffering /\ outer'.lost = {}
      BY <2>2, <3>1 DEF OuterType
    <3>6. Quiet'
      BY <1>1, <1>2, <1>7, <3>1, <3>2, <3>5 DEF Quiet
    <3> QED BY <1>1, <1>3, <1>6, <1>10, <3>1, <3>2, <3>3, <3>4, <3>5, <3>6
            DEF OuterStep, Signing
  <2>5. CASE ~Unsigned(o, e)
    <3>1. emitted' = Append(emitted, e) /\ pending' = <<>>
      BY <2>1, <2>3, <2>5 DEF Give, Emit
    <3>2. outer' = [o EXCEPT !.thinking =
              IF e.type # "content_block_start" THEN @
              ELSE IF e.of = "thinking" THEN @ \cup {e.index} ELSE @ \ {e.index}]
      BY <2>1, <2>3, <2>5 DEF Give
    <3>3. outer'.thinking = ThinkingAfter(e) /\ ~outer'.buffering /\ outer'.lost = {}
      BY <2>2, <3>2 DEF OuterType, ThinkingAfter
    <3>4. Line' = Tail(queue)
      BY <1>1, <1>2, <3>1 DEF Line
    <3>5. Quiet'
      BY <1>1, <1>2, <1>7, <3>1, <3>3 DEF Quiet
    <3> QED BY <1>1, <1>3, <1>6, <1>10, <3>1, <3>3, <3>4, <3>5 DEF OuterStep, Passing, e
  <2> QED BY <2>4, <2>5
<1> QED BY <1>11, <1>12, <1>13

\* The signature of block k is a delta of it.
LEMMA SignatureEvent ==
  ASSUME NEW k \in Nat
  PROVE  LET e == Delta(k, "signature", <<>>) IN
         /\ e \in AnEvent /\ e.type = "content_block_delta" /\ e.index = k /\ ~Edge(e)
         /\ IsDelta(e) /\ Fitting(e) = {"thinking"}
<1>1. <<>> \in Seq(Nat)
  BY EmptySeq
<1>2. Delta(k, "signature", <<>>) \in AnEvent
  BY <1>1, EventTypes
<1> QED BY <1>2 DEF Delta, Event, Edge, IsDelta, Fitting

\* What is given out is an event, as the reader sees it.
LEMMA ThinkingStays ==
  ASSUME TypeOK, ThinkingSound, OuterStep
  PROVE  ThinkingSound'
<1> DEFINE h == Head(Line)
           e == Converted(h)
<1>1. h \in AnEvent /\ e \in AnEvent /\ emitted \in Seq(AnEvent) /\ h.index \in Nat
  BY ConvertedType DEF OuterStep, TypeOK, EventsTyped, AnEvent
<1>2. Dropping \/ Passing \/ Signing
  BY DEF OuterStep
<1>3. CASE Dropping
  BY <1>3 DEF Dropping, ThinkingSound, OpenBlock, Edge
<1>4. CASE Passing
  <2>1. emitted' = Append(emitted, e) /\ outer'.thinking = ThinkingAfter(e)
    BY <1>4 DEF Passing
  <2> HIDE DEF e
  <2>2. CASE e.type = "content_block_start"
    <3>1. \A n, t : OpenBlock(n, t)' => n = e.index /\ t = e.of
      BY <1>1, <2>1, <2>2, ReadsStart
    <3>2. e.index \in outer'.thinking => e.of = "thinking"
      BY <2>1, <2>2 DEF ThinkingAfter
    <3> QED BY <3>1, <3>2 DEF ThinkingSound
  <2>3. CASE e.type = "content_block_stop"
    <3>1. \A n, t : ~OpenBlock(n, t)'
      BY <1>1, <2>1, <2>3, NoneOpen
    <3> QED BY <3>1 DEF ThinkingSound
  <2>4. CASE ~Edge(e)
    <3>1. \A n, t : OpenBlock(n, t)' = OpenBlock(n, t)
      BY <1>1, <2>1, <2>4, ReadsOn
    <3>2. outer'.thinking = outer.thinking
      BY <2>1, <2>4 DEF ThinkingAfter, Edge
    <3> QED BY <3>1, <3>2 DEF ThinkingSound
  <2> QED BY <2>2, <2>3, <2>4 DEF Edge
<1>5. CASE Signing
  <2> DEFINE d == Delta(h.index, "signature", <<>>)
  <2>1. emitted' = Append(emitted, d) /\ outer'.thinking = outer.thinking
    BY <1>5 DEF Signing
  <2>2. d \in AnEvent /\ ~Edge(d)
    BY <1>1, SignatureEvent
  <2> HIDE DEF d
  <2>3. \A n, t : OpenBlock(n, t)' = OpenBlock(n, t)
    BY <1>1, <2>1, <2>2, ReadsOn
  <2> QED BY <2>1, <2>3 DEF ThinkingSound
<1> QED BY <1>2, <1>3, <1>4, <1>5

\* An event that goes out in its place keeps the contract and the reader in
\* the message.
LEMMA Goes ==
  ASSUME TypeOK, Opened, Line # <<>>, BlocksNest, Envelope,
         NEW e \in AnEvent, emitted' = Append(emitted, e), UNCHANGED <<wrapper, upstream>>,
         e.type # "message_start",
         IsDelta(e) => \E t \in Fitting(e) : OpenBlock(e.index, t),
         e.type = "content_block_stop" => \E t : OpenBlock(e.index, t),
         e.type = "content_block_start" => Between(e.index),
         Unsaid("message_delta") \/ e.type = "message_stop",
         e.type = "message_stop" => upstream = "ended" /\ Line' = <<>>
  PROVE  BlocksNest' /\ Envelope' /\ Opened'
<1>1. emitted \in Seq(AnEvent)
  BY DEF TypeOK, EventsTyped
<1>2. Unsaid("message_stop") /\ emitted # <<>> /\ wrapper.firstSent
  BY DEF Opened
<1>3. BlocksNest'
  BY <1>1, NestsOn
<1>4. Envelope'
  BY <1>1, <1>2, EnvelopesOn
<1>5. emitted' # <<>>
  <2>1. emitted' \in Seq(AnEvent) /\ Len(emitted') = Len(emitted) + 1 /\ Len(emitted) \in Nat
    BY <1>1, AppendProperties, LenProperties
  <2> QED BY <2>1, EmptySeq
<1>6. e.type # "message_stop" => Unsaid("message_stop")'
  BY <1>1, <1>2, Speaks
<1> HIDE DEF Line
<1> QED BY <1>2, <1>3, <1>4, <1>5, <1>6 DEF Opened

\* A stop that goes out, after the signature it may need.
LEMMA StopGoes ==
  ASSUME TypeOK, Opened, BlocksNest, Envelope, ThinkingSound, Unsaid("message_delta"),
         OuterStep, NEW k \in Nat, NEW u \in BlockTypes, Inside(k, u),
         Head(Line) = BlockStop(k)
  PROVE  /\ BlocksNest' /\ Envelope' /\ Opened' /\ Unsaid("message_delta")'
         /\ \/ Line' = Tail(Line) /\ Between(k + 1)'
            \/ Line' = Line /\ Inside(k, u)'
<1>1. Line # <<>> /\ UNCHANGED <<wrapper, upstream>> /\ (Dropping \/ Passing \/ Signing)
  BY DEF OuterStep
<1>2. emitted \in Seq(AnEvent)
  BY DEF TypeOK, EventsTyped
<1>3. /\ BlockStop(k).type = "content_block_stop" /\ BlockStop(k).index = k
      /\ BlockStop(k) \in AnEvent
  BY EventTypes DEF BlockStop, Event
<1>4. ~Dropping
  BY <1>3 DEF Dropping, IsDelta
<1>5. OpenBlock(k, u) /\ StoppedBelow(k) /\ StartsBelow(k + 1)
  BY DEF Inside
<1>6. CASE Passing
  <2>1. emitted' = Append(emitted, BlockStop(k)) /\ Line' = Tail(Line)
    BY <1>3, <1>6 DEF Passing, Converted
  <2>2. BlocksNest' /\ Envelope' /\ Opened'
    BY <1>1, <1>3, <1>5, <2>1, Goes DEF IsDelta
  <2>3. Unsaid("message_delta")'
    BY <1>2, <1>3, <2>1, Speaks
  <2>4. StoppedBelow(k + 1)' /\ StartsBelow(k + 1)'
    BY <1>2, <1>5, <2>1, ReadsStop
  <2> QED BY <2>1, <2>2, <2>3, <2>4 DEF Between
<1>7. CASE Signing
  <2> DEFINE e == Delta(k, "signature", <<>>)
  <2>1. emitted' = Append(emitted, e) /\ Line' = Line /\ k \in outer.thinking
    BY <1>3, <1>7 DEF Signing
  <2>2. /\ e \in AnEvent /\ e.type = "content_block_delta" /\ e.index = k /\ ~Edge(e)
        /\ Fitting(e) = {"thinking"}
    BY SignatureEvent
  <2>3. u = "thinking"
    BY <1>5, <2>1 DEF ThinkingSound, EventOf
  <2> HIDE DEF e
  <2>4. BlocksNest' /\ Envelope' /\ Opened'
    BY <1>1, <1>5, <2>1, <2>2, <2>3, Goes
  <2>5. Unsaid("message_delta")'
    BY <1>2, <2>1, <2>2, Speaks
  <2>6. OpenBlock(k, u)' /\ StoppedBelow(k)' /\ StartsBelow(k + 1)'
    BY <1>2, <1>5, <2>1, <2>2, ReadsOn
  <2> QED BY <2>1, <2>4, <2>5, <2>6 DEF Inside
<1> QED BY <1>1, <1>4, <1>6, <1>7

LEMMA UnopenedStep ==
  ASSUME TypeOK, Unopened, BlocksNest, Envelope, OuterStep
  PROVE  NoBlock' /\ BlocksNest' /\ Envelope'
<1>1. Line # <<>> /\ UNCHANGED <<wrapper, upstream>> /\ (Dropping \/ Passing \/ Signing)
  BY DEF OuterStep
<1>2. /\ Line = <<MessageStart>> /\ wrapper.firstSent /\ Unfinished /\ ~wrapper.blockStarted
      /\ wrapper.index = 0 /\ emitted = <<>>
  BY <1>1 DEF Unopened, Line
<1>3. MessageStart.type = "message_start" /\ MessageStart \in AnEvent /\ ~Edge(MessageStart)
  BY EventTypes DEF MessageStart, Event, Edge
<1>4. Head(Line) = MessageStart /\ Tail(Line) = <<>>
  BY <1>2
<1>5. emitted' = Append(emitted, MessageStart) /\ Line' = <<>>
  BY <1>1, <1>3, <1>4 DEF Dropping, Passing, Signing, IsDelta, Converted
<1>6. emitted \in Seq(AnEvent) /\ Len(emitted) = 0
  BY <1>2, EmptySeq
<1>7. DOMAIN emitted = {}
  BY <1>6, LenProperties
<1>8. Between(0)'
  <2>1. StoppedBelow(0) /\ StartsBelow(0)
    BY <1>7 DEF StoppedBelow, StartsBelow
  <2>2. StoppedBelow(0)' /\ StartsBelow(0)'
    BY <1>3, <1>5, <1>6, <2>1, ReadsOn
  <2> QED BY <2>2 DEF Between
<1>9. BlocksNest'
  BY <1>3, <1>5, <1>6, NestsOn DEF IsDelta
<1>10. \A type : Unsaid(type)
  BY <1>7 DEF Unsaid
<1>11. Envelope'
  BY <1>2, <1>3, <1>5, <1>6, <1>10, EnvelopesOn
<1>12. Unsaid("message_delta")' /\ Unsaid("message_stop")'
  BY <1>3, <1>5, <1>6, <1>10, Speaks
<1>13. emitted' # <<>>
  <2>1. emitted' \in Seq(AnEvent) /\ Len(emitted') = 1
    BY <1>3, <1>5, <1>6, AppendProperties
  <2> QED BY <2>1, EmptySeq
<1>14. wrapper' = wrapper
  BY <1>1
<1> HIDE DEF Line
<1> QED BY <1>2, <1>5, <1>8, <1>9, <1>11, <1>12, <1>13, <1>14 DEF NoBlock, Opened, Unfinished

LEMMA NoBlockStep ==
  ASSUME TypeOK, NoBlock, BlocksNest, Envelope, OuterStep
  PROVE  NoBlock' /\ BlocksNest' /\ Envelope'
<1>1. Line # <<>> /\ wrapper' = wrapper /\ upstream' = upstream
        /\ (Dropping \/ Passing \/ Signing)
  BY DEF OuterStep
<1>2. /\ Line = <<MessageStop>> /\ upstream = "ended" /\ Opened /\ Unfinished
      /\ ~wrapper.blockStarted /\ wrapper.index = 0 /\ Between(0) /\ Unsaid("message_delta")
  BY <1>1 DEF NoBlock
<1>3. MessageStop.type = "message_stop" /\ MessageStop \in AnEvent /\ ~Edge(MessageStop)
  BY EventTypes DEF MessageStop, Event, Edge
<1>4. Head(Line) = MessageStop /\ Tail(Line) = <<>>
  BY <1>2
<1>5. emitted' = Append(emitted, MessageStop) /\ Line' = <<>>
  BY <1>1, <1>3, <1>4 DEF Dropping, Passing, Signing, IsDelta, Converted
<1>6. emitted \in Seq(AnEvent)
  BY DEF TypeOK, EventsTyped
<1>7. BlocksNest' /\ Envelope' /\ Opened'
  BY <1>1, <1>2, <1>3, <1>5, Goes DEF IsDelta
<1>8. Between(0)'
  <2>1. StoppedBelow(0)' /\ StartsBelow(0)'
    BY <1>2, <1>3, <1>5, <1>6, ReadsOn DEF Between
  <2> QED BY <2>1 DEF Between
<1>9. Unsaid("message_delta")'
  BY <1>2, <1>3, <1>5, <1>6, Speaks
<1> HIDE DEF Line
<1> QED BY <1>1, <1>2, <1>5, <1>7, <1>8, <1>9 DEF NoBlock, Unfinished

\* An event of a block is as the reader sees it.
LEMMA FitsEvent ==
  ASSUME NEW d, NEW i, NEW t, Fits(d, i, t)
  PROVE  /\ d.type \in {"ping", "content_block_delta"} /\ ~Edge(d) /\ Converted(d) = d
         /\ IsDelta(d) => d.index = i /\ t \in Fitting(d)
<1>1. Ping.type = "ping"
  BY DEF Ping, Event
<1> QED BY <1>1 DEF Fits, IsDelta, Edge, Converted

\* Nothing is given out: the reader stays where it is.
LEMMA SameReader ==
  ASSUME UNCHANGED emitted
  PROVE  /\ BlocksNest' = BlocksNest /\ Envelope' = Envelope
         /\ \A type : Unsaid(type)' = Unsaid(type)
         /\ \A i, t : OpenBlock(i, t)' = OpenBlock(i, t)
         /\ \A i : StoppedBelow(i)' = StoppedBelow(i) /\ StartsBelow(i)' = StartsBelow(i)
         /\ \A i, t : Inside(i, t)' = Inside(i, t)
         /\ \A i : Between(i)' = Between(i)
<1>1. \A i : OpenTypes(i)' = OpenTypes(i)
  BY DEF OpenTypes, Edge
<1>2. BlocksNest' = BlocksNest
  BY <1>1 DEF BlocksNest, IsDelta, Fitting, BlockStop, Event
<1>3. Envelope' = Envelope
  BY DEF Envelope
<1>4. \A type : Unsaid(type)' = Unsaid(type)
  BY DEF Unsaid
<1>5. \A i, t : OpenBlock(i, t)' = OpenBlock(i, t)
  BY DEF OpenBlock, Edge
<1>6. \A i : StoppedBelow(i)' = StoppedBelow(i) /\ StartsBelow(i)' = StartsBelow(i)
  BY DEF StoppedBelow, StartsBelow, BlockStop, Event
<1>7. \A i, t : Inside(i, t)' = Inside(i, t)
  BY <1>5, <1>6 DEF Inside
<1>8. \A i : Between(i)' = Between(i)
  BY <1>6 DEF Between
<1> QED BY <1>2, <1>3, <1>4, <1>5, <1>6, <1>7, <1>8

\* The line after a step says what the rest of it said.
LEMMA DeltasStay ==
  ASSUME NEW s, Line' = s, NEW i, NEW t, Deltas(s, i, t)
  PROVE  Deltas(Line, i, t)'
<1> HIDE DEF Line
<1>1. \A d : Fits(d, i, t)' = Fits(d, i, t)
  BY DEF Fits, IsDelta, Fitting, Ping, Event
<1> QED BY <1>1 DEF Deltas, Fits, IsDelta, Fitting, Ping, Event

LEMMA InsideStep ==
  ASSUME TypeOK, Opened, BlocksNest, Envelope, Unsaid("message_delta"), OuterStep,
         NEW i \in Nat, NEW t \in BlockTypes, WritesIn(i, t)
  PROVE  BlocksNest' /\ Envelope' /\ Opened' /\ Unsaid("message_delta")' /\ WritesIn(i, t)'
<1> DEFINE h == Head(Line)
<1>1. /\ Line # <<>> /\ wrapper' = wrapper /\ upstream' = upstream
      /\ (Dropping \/ Passing \/ Signing) /\ h \in AnEvent
  BY DEF OuterStep
<1>2. Inside(i, t) /\ Tail(Line) = <<>> /\ Fits(h, i, t)
  BY <1>1 DEF WritesIn, Deltas
<1> HIDE DEF h
<1>3. /\ h.type \in {"ping", "content_block_delta"} /\ ~Edge(h) /\ Converted(h) = h
      /\ IsDelta(h) => h.index = i /\ t \in Fitting(h)
  BY <1>2, FitsEvent
<1>4. emitted \in Seq(AnEvent)
  BY DEF TypeOK, EventsTyped
<1>5. ~Signing
  BY <1>3 DEF Signing, h
<1>6. Line' = <<>>
  BY <1>1, <1>2, <1>5 DEF Dropping, Passing
<1>7. Deltas(Line, i, t)'
  BY <1>6 DEF Deltas
<1>8. CASE Dropping
  <2>1. emitted' = emitted
    BY <1>8 DEF Dropping
  <2>2. BlocksNest' /\ Envelope' /\ Unsaid("message_delta")' /\ Inside(i, t)'
    BY <1>2, <2>1, SameReader
  <2>3. Opened'
    BY <1>1, <2>1 DEF Opened, Unsaid
  <2> QED BY <1>7, <2>2, <2>3 DEF WritesIn
<1>9. CASE Passing
  <2>1. emitted' = Append(emitted, h)
    BY <1>3, <1>9 DEF Passing, h
  <2>2. OpenBlock(i, t) /\ StoppedBelow(i) /\ StartsBelow(i + 1)
    BY <1>2 DEF Inside
  <2>3. BlocksNest' /\ Envelope' /\ Opened'
    BY <1>1, <1>3, <2>1, <2>2, Goes
  <2>4. Unsaid("message_delta")'
    BY <1>1, <1>3, <1>4, <2>1, Speaks
  <2>5. OpenBlock(i, t)' /\ StoppedBelow(i)' /\ StartsBelow(i + 1)'
    BY <1>1, <1>3, <1>4, <2>1, <2>2, ReadsOn
  <2> QED BY <1>7, <2>3, <2>4, <2>5 DEF WritesIn, Inside
<1> QED BY <1>1, <1>5, <1>8, <1>9

LEMMA BeforeStep ==
  ASSUME TypeOK, Opened, BlocksNest, Envelope, Unsaid("message_delta"), OuterStep,
         NEW i \in Nat, NEW b \in BlockTypes, NEW t \in BlockTypes, t = Outside(b),
         WritesBefore(i, b, t)
  PROVE  BlocksNest' /\ Envelope' /\ Opened' /\ Unsaid("message_delta")' /\ WritesIn(i, t)'
<1> DEFINE h == Head(Line)
           e == Converted(h)
<1>1. /\ Line # <<>> /\ wrapper' = wrapper /\ upstream' = upstream
      /\ (Dropping \/ Passing \/ Signing) /\ h \in AnEvent
  BY DEF OuterStep
<1>2. Between(i) /\ Starts(h, i, b) /\ Deltas(Tail(Line), i, t)
  BY DEF WritesBefore
<1>3. h.type = "content_block_start" /\ h.index = i /\ h.of = b
  BY <1>2 DEF Starts, BlockStart, Event
<1>4. /\ e \in AnEvent /\ e.type = "content_block_start" /\ e.index = i /\ e.of = t
  <2>1. e \in AnEvent
    BY <1>1, ConvertedType
  <2>2. e.type = "content_block_start" /\ e.index = i /\ e.of = t
    BY <1>1, <1>3 DEF Converted, Outside, AnEvent
  <2> QED BY <2>1, <2>2
<1>5. Passing
  BY <1>1, <1>3 DEF Dropping, Signing, IsDelta
<1>6. emitted' = Append(emitted, e) /\ Line' = Tail(Line)
  BY <1>5 DEF Passing
<1>7. emitted \in Seq(AnEvent)
  BY DEF TypeOK, EventsTyped
<1> HIDE DEF h, e
<1>8. BlocksNest' /\ Envelope' /\ Opened'
  BY <1>1, <1>2, <1>4, <1>6, Goes DEF IsDelta
<1>9. Unsaid("message_delta")'
  BY <1>4, <1>6, <1>7, Speaks
<1>10. OpenBlock(i, t)' /\ StoppedBelow(i)' /\ StartsBelow(i + 1)'
  BY <1>2, <1>4, <1>6, <1>7, ReadsStart DEF Between
<1>11. Deltas(Line, i, t)'
  BY <1>2, <1>6, DeltasStay
<1> QED BY <1>8, <1>9, <1>10, <1>11 DEF WritesIn, Inside

LEMMA AfterStep ==
  ASSUME TypeOK, Opened, BlocksNest, Envelope, ThinkingSound, Unsaid("message_delta"), OuterStep,
         NEW i \in Nat, NEW b \in BlockTypes, NEW t \in BlockTypes, WritesAfter(i, b, t)
  PROVE  /\ BlocksNest' /\ Envelope' /\ Opened' /\ Unsaid("message_delta")'
         /\ WritesBefore(i, b, t)' \/ WritesAfter(i, b, t)'
<1>1. PICK u \in BlockTypes : Inside(i - 1, u)
  BY DEF WritesAfter
<1>2. /\ i > 0 /\ i - 1 \in Nat /\ (i - 1) + 1 = i /\ Line # <<>>
      /\ Head(Line) = BlockStop(i - 1)
  BY DEF WritesAfter
<1>3. PICK rest : rest = Tail(Line)
  OBVIOUS
<1>4. rest # <<>> /\ Starts(Head(rest), i, b) /\ Deltas(Tail(rest), i, t)
  BY <1>3 DEF WritesAfter
<1>5. /\ BlocksNest' /\ Envelope' /\ Opened' /\ Unsaid("message_delta")'
      /\ \/ Line' = Tail(Line) /\ Between((i - 1) + 1)'
         \/ Line' = Line /\ Inside(i - 1, u)'
  BY <1>1, <1>2, StopGoes
<1>6. \A d : Fits(d, i, t)' = Fits(d, i, t)
  BY DEF Fits, IsDelta, Fitting, Ping, Event
<1>7. CASE Line' = Tail(Line) /\ Between((i - 1) + 1)'
  <2>1. Between(i)'
    BY <1>2, <1>7 DEF Between, StoppedBelow, StartsBelow
  <2> HIDE DEF Line
  <2>2. WritesBefore(i, b, t)'
    BY <1>3, <1>4, <1>7, <2>1 DEF WritesBefore, Starts, BlockStart, Event, Deltas, Fits, IsDelta,
         Fitting, Ping
  <2> QED BY <1>5, <2>2
<1>8. CASE Line' = Line /\ Inside(i - 1, u)'
  <2> HIDE DEF Line
  <2>1. WritesAfter(i, b, t)'
    BY <1>2, <1>3, <1>4, <1>8 DEF WritesAfter, Starts, BlockStart, BlockStop, Event, Deltas, Fits,
         IsDelta, Fitting, Ping
  <2> QED BY <1>5, <2>1
<1> QED BY <1>5, <1>7, <1>8

LEMMA WritingStep ==
  ASSUME TypeOK, Writing, BlocksNest, Envelope, ThinkingSound, OuterStep
  PROVE  Writing' /\ BlocksNest' /\ Envelope'
<1>1. PICK i \in Nat, b \in BlockTypes, t \in BlockTypes :
        /\ i = wrapper.index /\ b = wrapper.blockType /\ t = Outside(b)
        /\ WritesIn(i, t) \/ WritesBefore(i, b, t) \/ WritesAfter(i, b, t)
  BY DEF Writing
<1>2. /\ Opened /\ Unfinished /\ wrapper.blockStarted /\ upstream = "content"
      /\ Unsaid("message_delta")
  BY DEF Writing
<1>3. /\ BlocksNest' /\ Envelope' /\ Opened' /\ Unsaid("message_delta")'
      /\ WritesIn(i, t)' \/ WritesBefore(i, b, t)' \/ WritesAfter(i, b, t)'
  <2>1. CASE WritesIn(i, t)
    BY <1>2, <2>1, InsideStep
  <2>2. CASE WritesBefore(i, b, t)
    BY <1>1, <1>2, <2>2, BeforeStep
  <2>3. CASE WritesAfter(i, b, t)
    BY <1>2, <2>3, AfterStep
  <2> QED BY <1>1, <2>1, <2>2, <2>3
<1>4. wrapper' = wrapper /\ upstream' = upstream /\ outer'.convert = outer.convert
  BY DEF OuterStep
<1>5. i = wrapper'.index /\ b = wrapper'.blockType /\ t = Outside(b)'
  BY <1>1, <1>4 DEF Outside
<1>6. Unfinished' /\ wrapper'.blockStarted /\ upstream' = "content"
  BY <1>2, <1>4 DEF Unfinished
<1> QED BY <1>3, <1>5, <1>6 DEF Writing

LEMMA HoldingStep ==
  ASSUME TypeOK, Opened, BlocksNest, Envelope, ThinkingSound, OuterStep,
         NEW i \in Nat, Holding(i)
  PROVE  Holding(i)' /\ BlocksNest' /\ Envelope' /\ Opened'
<1>1. Line # <<>> /\ wrapper' = wrapper /\ upstream' = upstream
  BY DEF OuterStep
<1>2. PICK u \in BlockTypes : Inside(i, u)
  BY <1>1 DEF Holding
<1>3. /\ upstream = "finished" /\ wrapper.holding # "none" /\ ~wrapper.usageQueued
      /\ Unsaid("message_delta") /\ Head(Line) = BlockStop(i) /\ Tail(Line) = <<>>
  BY <1>1 DEF Holding
<1>4. /\ BlocksNest' /\ Envelope' /\ Opened' /\ Unsaid("message_delta")'
      /\ \/ Line' = Tail(Line) /\ Between(i + 1)'
         \/ Line' = Line /\ Inside(i, u)'
  BY <1>2, <1>3, StopGoes
<1>5. BlockStop(i)' = BlockStop(i)
  BY DEF BlockStop, Event
<1> HIDE DEF Line
<1> QED BY <1>1, <1>3, <1>4, <1>5 DEF Holding

LEMMA ReleasedStep ==
  ASSUME TypeOK, Opened, BlocksNest, Envelope, OuterStep, NEW i \in Nat, Released(i)
  PROVE  Released(i)' /\ BlocksNest' /\ Envelope' /\ Opened'
<1> DEFINE h == Head(Line)
<1>1. Line # <<>> /\ wrapper' = wrapper /\ upstream' = upstream
        /\ (Dropping \/ Passing \/ Signing) /\ h \in AnEvent
  BY DEF OuterStep
<1>2. upstream \in {"used", "ended"} /\ wrapper.holding = "none" /\ Between(i + 1)
  BY DEF Released
<1>3. \/ /\ Unsaid("message_delta") /\ h.type = "message_delta" /\ Tail(Line) = TheEnd
      \/ h.type = "message_stop" /\ upstream = "ended" /\ Tail(Line) = <<>>
  <2> HIDE DEF Line
  <2>1. CASE Line = TheEnd
    <3>1. upstream = "ended" /\ Line = <<MessageStop>>
      BY <1>1, <1>2, <2>1 DEF TheEnd
    <3>2. h = MessageStop /\ Tail(Line) = <<>>
      BY <3>1
    <3>3. MessageStop.type = "message_stop"
      BY DEF MessageStop, Event
    <3> HIDE DEF h
    <3> QED BY <3>1, <3>2, <3>3
  <2>2. CASE Line # TheEnd
    <3>1. PICK r \in Reasons : h = MessageDelta(r)
      BY <1>1, <2>2 DEF Released
    <3>2. Unsaid("message_delta") /\ Tail(Line) = TheEnd
      BY <1>1, <2>2 DEF Released
    <3> QED BY <3>1, <3>2 DEF MessageDelta, Event
  <2> QED BY <2>1, <2>2
<1>4. h.type \in {"message_delta", "message_stop"} /\ ~Edge(h) /\ ~IsDelta(h) /\ Converted(h) = h
  BY <1>3 DEF Edge, IsDelta, Converted
<1>5. emitted' = Append(emitted, h) /\ Line' = Tail(Line)
  BY <1>1, <1>4 DEF Dropping, Passing, Signing
<1>6. emitted \in Seq(AnEvent)
  BY DEF TypeOK, EventsTyped
<1>7. h.type # "content_block_stop" /\ h.type # "content_block_start" /\ h.type # "message_start"
  BY <1>4
<1> HIDE DEF h, Line
<1>8. BlocksNest' /\ Envelope' /\ Opened'
  BY <1>1, <1>3, <1>4, <1>5, <1>7, Goes
<1>9. Between(i + 1)'
  <2>1. i + 1 \in Nat /\ StoppedBelow(i + 1) /\ StartsBelow(i + 1)
    BY <1>2 DEF Between
  <2>2. StoppedBelow(i + 1)' /\ StartsBelow(i + 1)'
    BY <1>1, <1>4, <1>5, <1>6, <2>1, ReadsOn
  <2> QED BY <2>2 DEF Between
<1>10. TheEnd' = TheEnd
  BY <1>1 DEF TheEnd, MessageStop, Event
<1>11. Line' = TheEnd' \/ Line' = <<>>
  BY <1>3, <1>5, <1>10
<1> QED BY <1>1, <1>2, <1>8, <1>9, <1>11 DEF Released

LEMMA EndingStep ==
  ASSUME TypeOK, Ending, BlocksNest, Envelope, ThinkingSound, OuterStep
  PROVE  Ending' /\ BlocksNest' /\ Envelope'
<1>1. PICK i \in Nat : i = wrapper.index /\ (Holding(i) \/ Released(i))
  BY DEF Ending
<1>2. Opened /\ wrapper.blockStarted /\ wrapper.blockFinished /\ wrapper' = wrapper
  BY DEF Ending, OuterStep
<1>3. BlocksNest' /\ Envelope' /\ Opened' /\ (Holding(i)' \/ Released(i)')
  BY <1>1, <1>2, HoldingStep, ReleasedStep
<1>4. i = wrapper'.index
  BY <1>1, <1>2
<1> QED BY <1>2, <1>3, <1>4 DEF Ending

\* Whatever leaves the line is what the reader may see next.
LEMMA FlowsOn ==
  ASSUME TypeOK, Flow, OuterStep
  PROVE  ThinkingSound' /\ Pipeline' /\ BlocksNest' /\ Envelope'
<1>1. ThinkingSound /\ BlocksNest /\ Envelope /\ Pipeline
  BY DEF Flow
<1>2. ThinkingSound'
  BY <1>1, ThinkingStays
<1>3. CASE Unopened
  BY <1>1, <1>2, <1>3, UnopenedStep DEF Pipeline
<1>4. CASE NoBlock
  BY <1>1, <1>2, <1>4, NoBlockStep DEF Pipeline
<1>5. CASE Writing
  BY <1>1, <1>2, <1>5, WritingStep DEF Pipeline
<1>6. CASE Ending
  BY <1>1, <1>2, <1>6, EndingStep DEF Pipeline
<1> QED BY <1>1, <1>3, <1>4, <1>5, <1>6 DEF Pipeline

----------------------------------------------------------------------------
(* What comes in                                                           *)

LEMMA TwoOf ==
  ASSUME NEW a, NEW b
  PROVE  <<a>> \o <<b>> = <<a, b>>
<1> DEFINE S == {a, b}
<1>1. <<a>> \in Seq(S) /\ <<b>> \in Seq(S) /\ <<a, b>> \in Seq(S)
  OBVIOUS
<1>2. <<a>> \o <<b>> \in Seq(S) /\ Len(<<a>> \o <<b>>) = 2
  BY <1>1, ConcatProperties
<1>3. \A i \in 1..2 : (<<a>> \o <<b>>)[i] = <<a, b>>[i]
  BY <1>1, ConcatProperties
<1>4. Len(<<a, b>>) = 2
  OBVIOUS
<1> QED BY <1>1, <1>2, <1>3, <1>4, SeqEqual

LEMMA ThreeOf ==
  ASSUME NEW a, NEW b, NEW d
  PROVE  <<a, b>> \o <<d>> = <<a, b, d>>
<1> DEFINE S == {a, b, d}
<1>1. <<a, b>> \in Seq(S) /\ <<d>> \in Seq(S) /\ <<a, b, d>> \in Seq(S)
  OBVIOUS
<1>2. /\ <<a, b>> \o <<d>> \in Seq(S)
      /\ Len(<<a, b>> \o <<d>>) = 3
  BY <1>1, ConcatProperties
<1>3. \A i \in 1..3 : (<<a, b>> \o <<d>>)[i] = <<a, b, d>>[i]
  BY <1>1, ConcatProperties
<1>4. Len(<<a, b, d>>) = 3
  OBVIOUS
<1> QED BY <1>1, <1>2, <1>3, <1>4, SeqEqual

\* The events that switch to block i.
LEMMA SwitchedShape ==
  ASSUME NEW c, NEW i
  PROVE  LET s == Switched(c, i)
             d == Translated(c, i)
         IN /\ s # <<>> /\ Head(s) = BlockStop(i - 1)
            /\ Tail(s) # <<>> /\ Head(Tail(s)) = StartOf(c, i)
            /\ Tail(Tail(s)) = IF IsDelta(d) THEN <<d>> ELSE <<>>
<1> DEFINE a == BlockStop(i - 1)
           b == StartOf(c, i)
           d == Translated(c, i)
           s == Switched(c, i)
<1>1. s = <<a, b>> \o (IF IsDelta(d) THEN <<d>> ELSE <<>>)
  BY DEF Switched, IsDelta
<1> HIDE DEF a, b, d, s
<1>2. CASE IsDelta(d)
  <2>1. s = <<a, b, d>>
    BY <1>1, <1>2, ThreeOf
  <2> QED BY <1>2, <2>1 DEF a, b, d, s
<1>3. CASE ~IsDelta(d)
  <2>1. <<a, b>> \in Seq({a, b})
    OBVIOUS
  <2>2. s = <<a, b>>
    BY <1>1, <1>3, <2>1, ConcatEmptySeq
  <2> QED BY <1>3, <2>2 DEF a, b, d, s
<1> QED BY <1>2, <1>3

\* A chunk becomes a delta of its block, in which it fits, or a ping.
LEMMA ChunkFits ==
  ASSUME NEW c \in Chunk, NEW i \in Nat, NEW b \in BlockTypes,
         HasActualContent(c) => b = BlockType(c)
  PROVE  /\ Fits(Translated(c, i), i, Outside(b))
         /\ Translated(c, i).type # "message_delta"
         /\ Translated(c, i).pieces \in {<<>>, <<c.n>>}
<1> DEFINE d == Translated(c, i)
<1>1. c.kind \in Kind
  BY DEF Chunk
<1>2. CASE c.kind = "signature"
  <2>1. d = Ping
    BY <1>2 DEF Translated
  <2>2. Fits(d, i, Outside(b))
    BY <2>1 DEF Fits
  <2>3. Ping.type = "ping" /\ Ping.pieces = <<>>
    BY DEF Ping, Event
  <2> QED BY <2>1, <2>2, <2>3
<1>3. CASE c.kind = "blank"
  <2>1. d = Delta(i, "text", <<>>)
    BY <1>3 DEF Translated
  <2> QED BY <2>1 DEF Fits, IsDelta, Fitting, Delta, Event, Outside, BlockTypes
<1>4. CASE c.kind \in {"tool", "arguments"}
  <2>1. d = Delta(i, "input_json", <<c.n>>)
    BY <1>4 DEF Translated
  <2>2. b = "tool_use"
    BY <1>4 DEF HasActualContent, BlockType
  <2> QED BY <2>1, <2>2 DEF Fits, IsDelta, Fitting, Delta, Event, Outside
<1>5. CASE c.kind \in {"text", "reasoning", "thinking"}
  <2>1. d = Delta(i, "text", <<c.n>>)
    BY <1>5 DEF Translated
  <2>2. b \in {"text", "thinking"}
    BY <1>5 DEF HasActualContent, BlockType
  <2> QED BY <2>1, <2>2 DEF Fits, IsDelta, Fitting, Delta, Event, Outside
<1> QED BY <1>1, <1>2, <1>3, <1>4, <1>5 DEF Kind

LEMMA ChunkStarts ==
  ASSUME NEW c \in Chunk, NEW i \in Nat
  PROVE  /\ Starts(StartOf(c, i), i, BlockType(c))
         /\ StartOf(c, i).pieces \in {<<>>, <<c.n>>}
BY DEF Starts, StartOf, BlockStart, Event

\* When the layers wait for the provider nothing is on the line.
LEMMA Received ==
  ASSUME TypeOK, TypeOK', Quiet, Waiting, UNCHANGED <<outer, pending, emitted>>,
         queue' \in Seq(OfChunks')
  PROVE  /\ Line = <<>> /\ Line' = queue' /\ Quiet' /\ wrapper.firstSent /\ ~Unopened
         /\ \A b : Outside(b)' = Outside(b)
<1>1. queue = <<>> /\ pending = <<>> /\ pending' = <<>> /\ wrapper.firstSent
  BY DEF Waiting
<1>2. Line = <<>>
  BY <1>1 DEF Line
<1>3. Line' = queue'
  BY <1>1, ConcatEmptySeq DEF Line
<1>4. Quiet'
  BY <1>1 DEF Quiet
<1>5. ~Unopened
  BY <1>1 DEF Unopened
<1>6. \A b : Outside(b)' = Outside(b)
  BY DEF Outside
<1> QED BY <1>1, <1>2, <1>3, <1>4, <1>5, <1>6

\* What stays when nothing is given out.
LEMMA StaysOpened ==
  ASSUME Opened, Line = <<>>, UNCHANGED emitted, wrapper'.firstSent,
         upstream' = upstream \/ upstream # "ended",
         upstream' # "ended" \/ Line' = <<>> \/ upstream # "ended"
  PROVE  Opened'
<1>1. \A type : Unsaid(type)' = Unsaid(type)
  BY SameReader
<1> HIDE DEF Line
<1> QED BY <1>1 DEF Opened

LEMMA StartStep ==
  ASSUME TypeOK, TypeOK', Flow, StartMessage
  PROVE  Flow'
<1>1. /\ queue' = <<MessageStart>> /\ wrapper' = [wrapper EXCEPT !.firstSent = TRUE]
      /\ UNCHANGED <<got, upstream, outer, pending, emitted>> /\ ~wrapper.firstSent
  BY DEF StartMessage
<1>2. Unopened /\ Quiet /\ ThinkingSound /\ BlocksNest /\ Envelope
  BY <1>1 DEF Flow, Pipeline, NoBlock, Writing, Ending, Opened
<1>3. Unopened'
  BY <1>1, <1>2 DEF Unopened, Unfinished, TypeOK, WrapperType
<1>4. <<MessageStart>> \in Seq(OfChunks')
  <2>1. MessageStart \in OfChunks'
    <3>1. <<>> \in Seq(DOMAIN got')
      BY EmptySeq
    <3>2. MessageStart.pieces = <<>> /\ MessageStart \in AnEvent
      BY EventTypes DEF MessageStart, Event
    <3> QED BY <3>1, <3>2 DEF OfChunks
  <2> QED BY <2>1
<1>5. Quiet'
  BY <1>1, <1>2, <1>4 DEF Quiet, Unopened
<1>6. BlocksNest' /\ Envelope' /\ ThinkingSound'
  BY <1>1, <1>2, SameReader DEF ThinkingSound
<1> QED BY <1>3, <1>5, <1>6 DEF Flow, Pipeline

\* An event without a piece of the stream, or with one that came.
LEMMA CarriesChunk ==
  ASSUME NEW e \in AnEvent, NEW n, e.pieces \in {<<>>, <<n>>},
         e.pieces = <<>> \/ n \in DOMAIN got'
  PROVE  e \in OfChunks'
<1>1. e.pieces \in Seq(DOMAIN got')
  <2>1. CASE e.pieces = <<>>
    BY <2>1, EmptySeq
  <2>2. CASE e.pieces = <<n>> /\ n \in DOMAIN got'
    BY <2>2
  <2> QED BY <2>1, <2>2
<1> QED BY <1>1 DEF OfChunks

\* The events a chunk of the provider becomes carry it, if anything.
LEMMA ChunkPieces ==
  ASSUME NEW c \in Chunk, c \in AnyChunk, c.n \in DOMAIN got', NEW i \in Nat,
         NEW b \in BlockTypes, HasActualContent(c) => b = BlockType(c)
  PROVE  Translated(c, i) \in OfChunks' /\ StartOf(c, i) \in OfChunks'
<1>1. Translated(c, i) \in AnEvent /\ StartOf(c, i) \in AnEvent
  BY ChunkEvents
<1>2. Translated(c, i).pieces \in {<<>>, <<c.n>>} /\ StartOf(c, i).pieces \in {<<>>, <<c.n>>}
  BY ChunkFits, ChunkStarts
<1> QED BY <1>1, <1>2, CarriesChunk

LEMMA StopPieces ==
  ASSUME NEW i \in Nat
  PROVE  BlockStop(i) \in OfChunks'
<1>1. BlockStop(i) \in AnEvent
  BY EventTypes
<1>2. BlockStop(i).pieces = <<>>
  BY DEF BlockStop, Event
<1> QED BY <1>1, <1>2, CarriesChunk

LEMMA EndPieces ==
  /\ \A r \in Reasons : MessageDelta(r) \in OfChunks'
  /\ MessageStop \in OfChunks'
<1>1. ASSUME NEW r \in Reasons
      PROVE  MessageDelta(r) \in OfChunks'
  <2>1. MessageDelta(r) \in AnEvent
    BY EventTypes
  <2>2. MessageDelta(r).pieces = <<>>
    BY DEF MessageDelta, Event
  <2> QED BY <2>1, <2>2, CarriesChunk
<1>2. MessageStop \in AnEvent
  BY EventTypes
<1>3. MessageStop.pieces = <<>>
  BY DEF MessageStop, Event
<1>4. MessageStop \in OfChunks'
  BY <1>2, <1>3, CarriesChunk
<1> QED BY <1>1, <1>4

\* Before the first block, content opens it and anything else vanishes.
LEMMA FirstBlock ==
  ASSUME TypeOK, TypeOK', Quiet, NoBlock, Waiting, NEW c \in Chunk, c \in AnyChunk,
         c.n \in DOMAIN got', Process(c), upstream = "content",
         UNCHANGED <<upstream, outer, pending, emitted>>
  PROVE  Quiet' /\ (NoBlock' \/ Writing')
<1>1. /\ Opened /\ Unfinished /\ ~wrapper.blockStarted /\ wrapper.index = 0 /\ Between(0)
      /\ Unsaid("message_delta") /\ wrapper \in WrapperType
  BY DEF NoBlock, TypeOK
<1>2. Opened /\ Between(0)' /\ Unsaid("message_delta")'
  BY <1>1, SameReader
<1>3. CASE ~HasActualContent(c)
  <2>1. wrapper' = wrapper /\ queue' = queue /\ queue = <<>>
    BY <1>1, <1>3 DEF Process, Waiting
  <2>2. queue' \in Seq(OfChunks')
    BY <2>1, EmptySeq
  <2>3. Line = <<>> /\ Line' = <<>> /\ Quiet' /\ wrapper.firstSent
    BY <2>1, <2>2, Received
  <2>4. Opened'
    BY <1>1, <2>1, <2>3, StaysOpened
  <2> HIDE DEF Line
  <2>5. NoBlock'
    BY <1>1, <1>2, <2>1, <2>3, <2>4 DEF NoBlock, Unfinished
  <2> QED BY <2>3, <2>5
<1>4. CASE HasActualContent(c)
  <2> DEFINE b == BlockType(c)
             d == Translated(c, 0)
             s == StartOf(c, 0)
  <2>1. /\ wrapper' = [wrapper EXCEPT !.blockStarted = TRUE, !.blockType = b]
        /\ queue' = <<s, d>>
    BY <1>1, <1>4 DEF Process
  <2>2. b \in BlockTypes
    BY ChunkEvents
  <2>3. Fits(d, 0, Outside(b)) /\ Starts(s, 0, b) /\ d \in OfChunks' /\ s \in OfChunks'
    BY <2>2, ChunkFits, ChunkStarts, ChunkPieces
  <2>4. /\ wrapper'.blockStarted /\ wrapper'.blockType = b /\ wrapper'.index = 0
        /\ wrapper'.firstSent = wrapper.firstSent /\ Unfinished'
    BY <1>1, <2>1 DEF WrapperType, Unfinished
  <2> HIDE DEF b, d, s
  <2>5. <<s, d>> \in Seq(OfChunks')
    BY <2>3
  <2>6. /\ Line = <<>> /\ Line' = <<s, d>> /\ Quiet' /\ wrapper.firstSent
        /\ Outside(b)' = Outside(b)
    BY <2>1, <2>5, Received
  <2>7. Opened'
    BY <1>1, <2>4, <2>6, StaysOpened
  <2>8. PICK t \in BlockTypes : t = Outside(b)
    BY <2>2 DEF Outside, BlockTypes
  <2> HIDE DEF Line
  <2>9. /\ Line' # <<>> /\ Head(Line') = s /\ Tail(Line') = <<d>> /\ <<d>> # <<>>
        /\ Head(<<d>>) = d /\ Tail(<<d>>) = <<>>
    BY <2>6
  <2>10. WritesBefore(0, b, t)'
    <3>1. \A x, i, u : Fits(x, i, u)' = Fits(x, i, u)
      BY DEF Fits, IsDelta, Fitting, Ping, Event
    <3>2. PICK l : l = Line'
      OBVIOUS
    <3>3. l # <<>> /\ Starts(Head(l), 0, b) /\ Deltas(Tail(l), 0, t)
      BY <2>3, <2>8, <2>9, <3>2 DEF Deltas
    <3> QED BY <1>2, <3>2, <3>3 DEF WritesBefore, Starts, BlockStart, Event, Deltas, Fits,
            IsDelta, Fitting, Ping
  <2>11. /\ 0 = wrapper'.index /\ b = wrapper'.blockType /\ t = Outside(b)'
    BY <2>4, <2>6, <2>8
  <2>12. Writing'
    BY <1>2, <2>2, <2>4, <2>7, <2>10, <2>11 DEF Writing
  <2> QED BY <2>6, <2>12
<1> QED BY <1>3, <1>4

\* Nothing on the line: the reader is where the inner layer is.
LEMMA WaitsInside ==
  ASSUME TypeOK, Writing, Line = <<>>
  PROVE  \E i \in Nat, b \in BlockTypes, t \in BlockTypes :
           /\ i = wrapper.index /\ b = wrapper.blockType /\ t = Outside(b) /\ Inside(i, t)
BY DEF Writing, WritesIn, WritesBefore, WritesAfter

\* Content goes into the open block, or into the next one after a switch.
LEMMA MoreContent ==
  ASSUME TypeOK, TypeOK', Quiet, Writing, Waiting, NEW c \in Chunk, c \in AnyChunk,
         c.n \in DOMAIN got', Process(c), UNCHANGED <<upstream, outer, pending, emitted>>
  PROVE  Quiet' /\ Writing'
<1>1. /\ Opened /\ Unfinished /\ wrapper.blockStarted /\ upstream = "content"
      /\ Unsaid("message_delta") /\ wrapper \in WrapperType
  BY DEF Writing, TypeOK
<1>2. Line = <<>>
  BY DEF Waiting, Line
<1>3. PICK i \in Nat, b \in BlockTypes, t \in BlockTypes :
        /\ i = wrapper.index /\ b = wrapper.blockType /\ t = Outside(b) /\ Inside(i, t)
  BY <1>2, WaitsInside
<1>4. Inside(i, t)' /\ Unsaid("message_delta")'
  BY <1>1, <1>3, SameReader
<1> DEFINE w == NewWrapper(c)
           new == ShouldStartNewBlock(c)
<1>5. PICK n \in Nat : n = NewIndex(c) /\ n = (IF new THEN i + 1 ELSE i)
  BY <1>3 DEF NewIndex
<1>6. PICK d : d = Translated(c, n)
  OBVIOUS
<1>7. PICK m \in BlockTypes : m = IF new THEN BlockType(c) ELSE b
  BY ChunkEvents
<1>8. HasActualContent(c) => m = BlockType(c)
  BY <1>3, <1>7 DEF ShouldStartNewBlock
<1>9. /\ w.index = n /\ w.blockType = m /\ w.blockStarted /\ ~w.blockFinished
      /\ w.holding = "none" /\ ~w.usageQueued /\ w.firstSent = wrapper.firstSent
  BY <1>1, <1>3, <1>5, <1>7 DEF NewWrapper, WrapperType, Unfinished
<1>10. /\ Fits(d, n, Outside(m)) /\ d.type # "message_delta" /\ d \in OfChunks'
      /\ StartOf(c, n) \in OfChunks' /\ Starts(StartOf(c, n), n, BlockType(c))
  BY <1>8, <1>6, ChunkFits, ChunkStarts, ChunkPieces
<1>11. Translate(c)
  BY <1>1 DEF Process
<1>12. /\ wrapper' = w
       /\ IF new THEN queue' = Switched(c, n) ELSE queue' = <<d>>
  BY <1>5, <1>9, <1>10, <1>11, <1>6, TranslateCases
<1>13. PICK u \in BlockTypes : u = Outside(m)
  BY DEF Outside, BlockTypes
<1>14. \A x, j, v : Fits(x, j, v)' = Fits(x, j, v)
  BY DEF Fits, IsDelta, Fitting, Ping, Event
<1>15. Unfinished' /\ wrapper'.blockStarted /\ wrapper'.index = n /\ wrapper'.blockType = m
         /\ wrapper'.firstSent = wrapper.firstSent
  BY <1>9, <1>12 DEF Unfinished
<1> HIDE DEF w
<1>16. queue' \in Seq(OfChunks')
         /\ (queue' \in Seq(OfChunks') /\ Line' = queue' => WritesIn(n, u)' \/ WritesAfter(n, m, u)')
  <2>1. CASE ~new
    <3>1. queue' = <<d>> /\ n = i /\ m = b /\ u = t
      BY <1>3, <1>5, <1>7, <1>12, <1>13, <2>1
    <3>2. <<d>> \in Seq(OfChunks')
      BY <1>10
    <3>3. Deltas(<<d>>, n, u)
      BY <1>10, <1>13 DEF Deltas
    <3> HIDE DEF Line
    <3>4. Line' = queue' => Deltas(Line, n, u)'
      BY <3>1, <3>3, DeltasStay
    <3>5. Inside(n, u)'
      BY <1>4, <3>1
    <3> QED BY <3>1, <3>2, <3>4, <3>5 DEF WritesIn
  <2>2. CASE new
    <3> DEFINE s == Switched(c, n)
    <3>1. n = i + 1 /\ m = BlockType(c) /\ n - 1 = i
      BY <1>5, <1>7, <2>2
    <3>2. queue' = s
      BY <1>12, <2>2
    <3>3. /\ s # <<>> /\ Head(s) = BlockStop(i) /\ Tail(s) # <<>>
          /\ Head(Tail(s)) = StartOf(c, n)
          /\ Tail(Tail(s)) = IF IsDelta(d) THEN <<d>> ELSE <<>>
      BY <1>6, <3>1, SwitchedShape
    <3>4. Starts(Head(Tail(s)), n, m)
      BY <1>10, <3>1, <3>3
    <3>5. Deltas(Tail(Tail(s)), n, u)
      <4>1. CASE IsDelta(d)
        <5>1. Tail(Tail(s)) = <<d>>
          BY <3>3, <4>1
        <5>2. Deltas(<<d>>, n, u)
          BY <1>10, <1>13 DEF Deltas
        <5> QED BY <5>1, <5>2
      <4>2. CASE ~IsDelta(d)
        BY <3>3, <4>2 DEF Deltas
      <4> QED BY <4>1, <4>2
    <3>6. s \in Seq(OfChunks')
      <4>1. BlockStop(i) \in OfChunks'
        BY StopPieces
      <4>2. <<BlockStop(n - 1), StartOf(c, n)>> \in Seq(OfChunks')
        BY <1>10, <3>1, <4>1
      <4>3. (IF IsDelta(d) THEN <<d>> ELSE <<>>) \in Seq(OfChunks')
        BY <1>10
      <4>4. s = <<BlockStop(n - 1), StartOf(c, n)>> \o (IF IsDelta(d) THEN <<d>> ELSE <<>>)
        BY <1>6 DEF Switched, IsDelta
      <4> HIDE DEF s
      <4> QED BY <4>2, <4>3, <4>4, ConcatProperties
    <3> HIDE DEF s, Line
    <3>7. ASSUME Line' = queue'
          PROVE  WritesAfter(n, m, u)'
      <4>1. PICK l : l = Line'
        OBVIOUS
      <4>2. l = s
        BY <3>2, <3>7, <4>1
      <4>3. n > 0 /\ Inside(n - 1, t)'
        BY <1>4, <3>1
      <4> QED BY <1>3, <3>1, <3>3, <3>4, <3>5, <4>1, <4>2, <4>3 DEF WritesAfter, Starts,
              BlockStart, BlockStop, Event, Deltas, Fits, IsDelta, Fitting, Ping
    <3> QED BY <3>2, <3>6, <3>7
  <2> QED BY <2>1, <2>2
<1>17. Line' = queue' /\ Quiet' /\ wrapper.firstSent /\ Outside(m)' = Outside(m)
  BY <1>16, Received
<1>18. Opened'
  BY <1>1, <1>2, <1>15, <1>17, StaysOpened
<1> HIDE DEF Line
<1>19. /\ n = wrapper'.index /\ m = wrapper'.blockType /\ u = Outside(m)'
       /\ WritesIn(n, u)' \/ WritesAfter(n, m, u)'
  BY <1>13, <1>15, <1>16, <1>17
<1>20. Writing'
  BY <1>1, <1>4, <1>5, <1>15, <1>18, <1>19 DEF Writing
<1> QED BY <1>17, <1>20

\* Before the first block nothing but content does anything.
LEMMA NothingOpened ==
  ASSUME TypeOK, TypeOK', Quiet, NoBlock, Waiting, UNCHANGED <<wrapper, queue>>,
         upstream # "ended", upstream' # "ended", UNCHANGED <<outer, pending, emitted>>
  PROVE  Quiet' /\ NoBlock'
<1>1. Opened /\ Unfinished /\ ~wrapper.blockStarted /\ wrapper.index = 0
  BY DEF NoBlock
<1>2. Between(0)' /\ Unsaid("message_delta")'
  BY SameReader DEF NoBlock
<1>3. queue' = <<>> /\ queue' \in Seq(OfChunks')
  BY EmptySeq DEF Waiting
<1>4. Line = <<>> /\ Line' = <<>> /\ Quiet'
  BY <1>3, Received
<1>5. Opened'
  BY <1>1, <1>4, StaysOpened DEF Opened
<1> HIDE DEF Line
<1> QED BY <1>1, <1>2, <1>4, <1>5 DEF NoBlock, Unfinished

\* The finish chunk closes the block and its reason is held back.
LEMMA FinishStep ==
  ASSUME TypeOK, TypeOK', Flow, ReceiveFinish
  PROVE  Quiet' /\ Pipeline'
<1>1. /\ Waiting /\ upstream = "content" /\ upstream' = "finished" /\ Process(Finish)
      /\ UNCHANGED <<got, outer, pending, phase, emitted>>
  BY DEF ReceiveFinish
<1>2. Quiet /\ Pipeline /\ wrapper \in WrapperType
  BY DEF Flow, TypeOK
<1>3. ~HasActualContent(Finish) /\ Finish.kind = "finish"
  BY DEF HasActualContent, Finish
<1>4. ~Unopened
  BY <1>1 DEF Unopened, Waiting
<1>5. ~Ending
  BY <1>1 DEF Ending, Holding, Released
<1>6. CASE NoBlock
  <2>1. UNCHANGED <<wrapper, queue>>
    BY <1>1, <1>3, <1>6 DEF Process, NoBlock
  <2>2. Quiet' /\ NoBlock'
    BY <1>1, <1>2, <1>6, <2>1, NothingOpened
  <2> QED BY <2>2 DEF Pipeline
<1>7. CASE Writing
  <2>1. /\ Opened /\ Unfinished /\ wrapper.blockStarted /\ Unsaid("message_delta")
    BY <1>7 DEF Writing
  <2>2. Line = <<>>
    BY <1>1 DEF Waiting, Line
  <2>3. PICK i \in Nat, t \in BlockTypes : i = wrapper.index /\ Inside(i, t)
    BY <1>7, <2>2, WaitsInside
  <2>4. Inside(i, t)' /\ Unsaid("message_delta")'
    BY <1>1, <2>1, <2>3, SameReader
  <2>5. PICK r \in Reasons : r = StopReason
    BY DEF StopReason, Reasons
  <2>6. ~ShouldStartNewBlock(Finish)
    BY <1>3 DEF ShouldStartNewBlock
  <2>7. Translated(Finish, i) = MessageDelta(r)
    BY <1>3, <2>5 DEF Translated
  <2>8. /\ MessageDelta(r).type = "message_delta" /\ MessageDelta(r).of = r
        /\ r # "" /\ r # "none"
    BY DEF MessageDelta, Event, Reasons
  <2>9. Translated(Finish, i).type = "message_delta" /\ Translated(Finish, i).of = r
    BY <2>7, <2>8
  <2>10. Translate(Finish)
    BY <1>1, <2>1 DEF Process
  <2>11. queue' = <<BlockStop(i)>>
    BY <1>2, <1>3, <2>1, <2>3, <2>6, <2>8, <2>9, <2>10
       DEF Translate, Unfinished, Closed, WrapperType
  <2>12. /\ wrapper'.blockFinished /\ wrapper'.holding = r /\ r # "none"
         /\ ~wrapper'.usageQueued /\ wrapper'.index = i /\ wrapper'.blockStarted
         /\ wrapper'.firstSent = wrapper.firstSent
    BY <1>2, <1>3, <2>1, <2>3, <2>6, <2>8, <2>9, <2>10
       DEF Translate, Unfinished, WrapperType
  <2>13. queue' \in Seq(OfChunks')
    <3>1. BlockStop(i) \in OfChunks'
      BY StopPieces
    <3> QED BY <2>11, <3>1
  <2>14. Line' = queue' /\ Quiet' /\ wrapper.firstSent
    BY <1>1, <1>2, <2>13, Received
  <2>15. Opened'
    BY <1>1, <2>1, <2>2, <2>12, <2>14, StaysOpened
  <2>16. PICK l : l = Line'
    OBVIOUS
  <2>17. l # <<>> /\ Head(l) = BlockStop(i) /\ Tail(l) = <<>>
    BY <2>11, <2>14, <2>16
  <2> HIDE DEF Line
  <2>18. Holding(i)'
    BY <1>1, <2>4, <2>12, <2>16, <2>17 DEF Holding, BlockStop, Event
  <2>19. Ending'
    BY <2>12, <2>15, <2>18 DEF Ending
  <2> QED BY <2>14, <2>19 DEF Pipeline
<1> QED BY <1>2, <1>4, <1>5, <1>6, <1>7 DEF Pipeline

\* The usage releases the reason.
LEMMA UsageStep ==
  ASSUME TypeOK, TypeOK', Flow, ReceiveUsage
  PROVE  Quiet' /\ Pipeline'
<1>1. /\ Waiting /\ upstream = "finished" /\ upstream' = "used" /\ Process(Usage)
      /\ UNCHANGED <<got, outer, pending, phase, emitted>>
  BY DEF ReceiveUsage
<1>2. Quiet /\ Pipeline /\ wrapper \in WrapperType
  BY DEF Flow, TypeOK
<1>3. ~HasActualContent(Usage) /\ Usage.kind = "usage"
  BY DEF HasActualContent, Usage
<1>4. ~Unopened /\ ~Writing
  BY <1>1 DEF Unopened, Writing
<1>5. CASE NoBlock
  <2>1. UNCHANGED <<wrapper, queue>>
    BY <1>1, <1>3, <1>5 DEF Process, NoBlock
  <2>2. Quiet' /\ NoBlock'
    BY <1>1, <1>2, <1>5, <2>1, NothingOpened
  <2> QED BY <2>2 DEF Pipeline
<1>6. CASE Ending
  <2>1. Line = <<>>
    BY <1>1 DEF Waiting, Line
  <2>2. PICK i \in Nat : i = wrapper.index /\ Holding(i)
    BY <1>1, <1>6 DEF Ending, Released
  <2>3. /\ Opened /\ wrapper.blockStarted /\ wrapper.blockFinished /\ Unsaid("message_delta")
        /\ wrapper.holding # "none" /\ Between(i + 1)
    BY <1>6, <2>1, <2>2 DEF Ending, Holding
  <2>4. Between(i + 1)' /\ Unsaid("message_delta")'
    BY <1>1, <2>3, SameReader
  <2>5. PICK r \in Reasons : r = wrapper.holding
    BY <1>2, <2>3 DEF WrapperType
  <2>6. ~ShouldStartNewBlock(Usage)
    BY <1>3 DEF ShouldStartNewBlock
  <2>7. Translate(Usage)
    BY <1>1, <2>3 DEF Process
  <2>8. /\ queue' = <<MessageDelta(r)>>
        /\ wrapper'.holding = "none" /\ wrapper'.index = i /\ wrapper'.blockStarted
        /\ wrapper'.blockFinished /\ wrapper'.firstSent = wrapper.firstSent
    BY <1>2, <1>3, <2>2, <2>3, <2>5, <2>6, <2>7 DEF Translate, WrapperType
  <2>9. queue' \in Seq(OfChunks')
    <3>1. MessageDelta(r) \in OfChunks'
      BY EndPieces
    <3> QED BY <2>8, <3>1
  <2>10. Line' = queue' /\ Quiet' /\ wrapper.firstSent
    BY <1>1, <1>2, <2>9, Received
  <2>11. Opened'
    BY <1>1, <2>1, <2>3, <2>8, <2>10, StaysOpened
  <2>12. PICK l : l = Line'
    OBVIOUS
  <2>13. l # <<>> /\ Head(l) = MessageDelta(r) /\ Tail(l) = <<>>
    BY <2>8, <2>10, <2>12
  <2> HIDE DEF Line
  <2>14. Released(i)'
    BY <1>1, <2>4, <2>8, <2>12, <2>13 DEF Released, TheEnd, MessageDelta, Event
  <2>15. Ending'
    BY <2>8, <2>11, <2>14 DEF Ending
  <2> QED BY <2>10, <2>15 DEF Pipeline
<1> QED BY <1>2, <1>4, <1>5, <1>6 DEF Pipeline

\* The end of the stream: the reason, if it is still held back, and the stop.
LEMMA EndStep ==
  ASSUME TypeOK, TypeOK', Flow, ReceiveEnd
  PROVE  Quiet' /\ Pipeline'
<1>1. /\ Waiting /\ upstream \in {"finished", "used"} /\ upstream' = "ended"
      /\ queue' = Leftover /\ wrapper' = [wrapper EXCEPT !.holding = "none"]
      /\ UNCHANGED <<got, outer, pending, phase, emitted>>
  BY DEF ReceiveEnd
<1>2. Quiet /\ Pipeline /\ wrapper \in WrapperType
  BY DEF Flow, TypeOK
<1>3. ~Unopened /\ ~Writing
  BY <1>1 DEF Unopened, Writing
<1>4. Line = <<>>
  BY <1>1 DEF Waiting, Line
<1>5. /\ wrapper'.holding = "none" /\ wrapper'.index = wrapper.index
      /\ wrapper'.firstSent = wrapper.firstSent /\ wrapper'.usageQueued = wrapper.usageQueued
      /\ wrapper'.blockStarted = wrapper.blockStarted
      /\ wrapper'.blockFinished = wrapper.blockFinished
  BY <1>1, <1>2 DEF WrapperType
<1>6. <<MessageStop>> \in Seq(OfChunks')
  <2>1. MessageStop \in OfChunks'
    BY EndPieces
  <2> QED BY <2>1
<1>7. wrapper.holding = "none" => queue' = <<MessageStop>>
  BY <1>1, <1>6, ConcatEmptySeq DEF Leftover
<1>8. Opened => Unsaid("message_stop")
  BY <1>1 DEF Opened
<1>9. PICK l : l = Line'
  OBVIOUS
<1>10. MessageStop' = MessageStop
  BY DEF MessageStop, Event
<1>11. ASSUME queue' \in Seq(OfChunks'), Opened
       PROVE  l = queue' /\ Quiet' /\ Opened'
  <2>1. Line' = queue' /\ Quiet' /\ wrapper.firstSent
    BY <1>1, <1>2, <1>11, Received
  <2>2. Opened'
    BY <1>1, <1>4, <1>5, <1>11, <2>1, StaysOpened
  <2> QED BY <1>9, <2>1, <2>2
<1>12. CASE NoBlock
  <2>1. /\ Opened /\ Unfinished /\ ~wrapper.blockStarted /\ wrapper.index = 0
        /\ wrapper.holding = "none"
    BY <1>12 DEF NoBlock, Unfinished
  <2>2. Between(0)' /\ Unsaid("message_delta")'
    BY <1>1, <1>12, SameReader DEF NoBlock
  <2>3. l = <<MessageStop>> /\ Quiet' /\ Opened'
    BY <1>6, <1>7, <1>11, <2>1
  <2> HIDE DEF Line
  <2>4. NoBlock'
    BY <1>1, <1>5, <1>9, <1>10, <2>1, <2>2, <2>3 DEF NoBlock, Unfinished
  <2> QED BY <2>3, <2>4 DEF Pipeline
<1>13. CASE Ending
  <2>1. Opened /\ wrapper.blockStarted /\ wrapper.blockFinished
    BY <1>13 DEF Ending
  <2>2. PICK i \in Nat : i = wrapper.index /\ (Holding(i) \/ Released(i))
    BY <1>13 DEF Ending
  <2>3. CASE Holding(i)
    <3>1. Unsaid("message_delta") /\ wrapper.holding # "none" /\ ~wrapper.usageQueued
            /\ Between(i + 1)
      BY <1>4, <2>3 DEF Holding
    <3>2. Between(i + 1)' /\ Unsaid("message_delta")'
      BY <1>1, <3>1, SameReader
    <3>3. PICK r \in Reasons : r = wrapper.holding
      BY <1>2, <3>1 DEF WrapperType
    <3>4. queue' = <<MessageDelta(r)>> \o <<MessageStop>>
      BY <1>1, <3>1, <3>3 DEF Leftover
    <3>5. <<MessageDelta(r)>> \in Seq(OfChunks')
      <4>1. MessageDelta(r) \in OfChunks'
        BY EndPieces
      <4> QED BY <4>1
    <3>6. queue' \in Seq(OfChunks')
      BY <1>6, <3>4, <3>5, ConcatProperties
    <3>7. queue' # <<>> /\ Head(queue') = MessageDelta(r) /\ Tail(queue') = <<MessageStop>>
      <4>1. queue' = <<MessageDelta(r), MessageStop>>
        BY <3>4, TwoOf
      <4> QED BY <4>1
    <3>8. l = queue' /\ Quiet' /\ Opened'
      BY <1>11, <2>1, <3>6
    <3>9. l # <<>> /\ Head(l) = MessageDelta(r) /\ Tail(l) = <<MessageStop>>
      BY <3>7, <3>8
    <3>10. TheEnd' = <<MessageStop>> /\ MessageDelta(r)' = MessageDelta(r)
      BY <1>1, <1>10 DEF TheEnd, MessageDelta, Event
    <3> HIDE DEF Line
    <3>11. Released(i)'
      BY <1>1, <1>5, <1>9, <3>2, <3>9, <3>10 DEF Released
    <3>12. Ending'
      BY <1>5, <2>1, <2>2, <3>8, <3>11 DEF Ending
    <3> QED BY <3>8, <3>12 DEF Pipeline
  <2>4. CASE Released(i)
    <3>1. wrapper.holding = "none" /\ Between(i + 1)
      BY <2>4 DEF Released
    <3>2. Between(i + 1)'
      BY <1>1, <3>1, SameReader
    <3>3. l = <<MessageStop>> /\ Quiet' /\ Opened'
      BY <1>6, <1>7, <1>11, <2>1, <3>1
    <3>4. TheEnd' = <<MessageStop>>
      BY <1>1, <1>10 DEF TheEnd
    <3> HIDE DEF Line
    <3>5. Released(i)'
      BY <1>1, <1>5, <1>9, <3>2, <3>3, <3>4 DEF Released
    <3>6. Ending'
      BY <1>5, <2>1, <2>2, <3>3, <3>5 DEF Ending
    <3> QED BY <3>3, <3>6 DEF Pipeline
  <2> QED BY <2>2, <2>3, <2>4
<1> QED BY <1>2, <1>3, <1>12, <1>13 DEF Pipeline

----------------------------------------------------------------------------
(* The contract                                                            *)

LEMMA ContentStep ==
  ASSUME TypeOK, TypeOK', Flow, NEW kind \in Kind, NEW mark \in Mark \cup {"plain"},
         ReceiveContent(kind, mark)
  PROVE  Quiet' /\ Pipeline'
<1>1. Len(got) \in Nat /\ got \in Seq(Chunk)
  BY LenProperties DEF TypeOK
<1>2. PICK c : c = [kind |-> kind, mark |-> mark, n |-> Len(got) + 1]
  OBVIOUS
<1>3. c \in Chunk /\ c \in AnyChunk
  BY <1>1, <1>2 DEF Chunk, AnyChunk
<1>4. /\ Waiting /\ upstream = "content" /\ got' = Append(got, c) /\ Process(c)
      /\ UNCHANGED <<upstream, outer, pending, phase, emitted>>
  BY <1>2 DEF ReceiveContent
<1>5. c.n \in DOMAIN got'
  <2>1. got' \in Seq(Chunk) /\ Len(got') = Len(got) + 1
    BY <1>1, <1>3, <1>4, AppendProperties
  <2>2. DOMAIN got' = 1..Len(got')
    BY <2>1, LenProperties
  <2> QED BY <1>1, <1>2, <2>1, <2>2
<1>6. Quiet /\ Pipeline
  BY DEF Flow
<1>7. ~Unopened /\ ~Ending
  BY <1>4 DEF Unopened, Waiting, Ending, Holding, Released
<1>8. CASE NoBlock
  BY <1>3, <1>4, <1>5, <1>6, <1>8, FirstBlock DEF Pipeline
<1>9. CASE Writing
  BY <1>3, <1>4, <1>5, <1>6, <1>9, MoreContent DEF Pipeline
<1> QED BY <1>6, <1>7, <1>8, <1>9 DEF Pipeline

\* What the stream said so far was without a call too.
LEMMA MarkupStays ==
  ASSUME TypeOK, [Next]_vars, NoMarkup'
  PROVE  NoMarkup
<1>1. CASE UNCHANGED got
  BY <1>1 DEF NoMarkup
<1>2. ASSUME NEW kind \in Kind, NEW mark \in Mark \cup {"plain"}, ReceiveContent(kind, mark)
      PROVE  NoMarkup
  <2>1. got \in Seq(Chunk) /\ Len(got) \in Nat
    BY LenProperties DEF TypeOK
  <2>2. PICK c \in Chunk : got' = Append(got, c)
    BY <1>2, <2>1 DEF ReceiveContent, Chunk
  <2>3. /\ DOMAIN got = 1..Len(got) /\ DOMAIN got' = 1..Len(got) + 1
        /\ \A i \in 1..Len(got) : got'[i] = got[i]
    <3>1. got' \in Seq(Chunk) /\ Len(got') = Len(got) + 1
      BY <2>1, <2>2, AppendProperties
    <3>2. \A i \in 1..Len(got) : got'[i] = got[i]
      BY <2>1, <2>2, AppendProperties
    <3> QED BY <2>1, <3>1, <3>2, LenProperties
  <2> QED BY <2>1, <2>3 DEF NoMarkup
<1>3. UNCHANGED got \/ \E kind \in Kind, mark \in Mark \cup {"plain"} : ReceiveContent(kind, mark)
  BY DEF Next, vars, StartMessage, ReceiveFinish, ReceiveUsage, ReceiveEnd, ReceiveError, Take,
     GivePending, Timeout, Stop
<1> QED BY <1>1, <1>2, <1>3

\* A step of the handler alone.
LEMMA SamePipeline ==
  ASSUME Pipeline, UNCHANGED <<got, upstream, wrapper, queue, outer, pending, emitted>>
  PROVE  Pipeline'
<1>1. /\ \A type : Unsaid(type)' = Unsaid(type)
      /\ \A i, t : Inside(i, t)' = Inside(i, t)
      /\ \A i : Between(i)' = Between(i)
  BY SameReader
<1>2. Line' = Line /\ upstream' = upstream /\ wrapper' = wrapper /\ emitted' = emitted
        /\ outer' = outer /\ pending' = pending /\ queue' = queue
  BY DEF Line
<1> HIDE DEF Line
<1>3. Unfinished' = Unfinished /\ TheEnd' = TheEnd /\ Opened' = Opened
  BY <1>1, <1>2 DEF Unfinished, TheEnd, MessageStop, Event, Opened
<1>4. Unopened => Unopened'
  BY <1>2, <1>3 DEF Unopened, MessageStart, Event
<1>5. NoBlock => NoBlock'
  BY <1>1, <1>2, <1>3 DEF NoBlock, MessageStop, Event
<1>6. ASSUME Writing PROVE Writing'
  <2>1. PICK i \in Nat, b \in BlockTypes, t \in BlockTypes :
          /\ i = wrapper.index /\ b = wrapper.blockType /\ t = Outside(b)
          /\ WritesIn(i, t) \/ WritesBefore(i, b, t) \/ WritesAfter(i, b, t)
    BY <1>6 DEF Writing
  <2>2. /\ i = wrapper'.index /\ b = wrapper'.blockType /\ t = Outside(b)'
    BY <1>2, <2>1 DEF Outside
  <2>3. WritesIn(i, t)' = WritesIn(i, t)
    BY <1>1, <1>2 DEF WritesIn, Deltas, Fits, IsDelta, Fitting, Ping, Event
  <2>4. WritesBefore(i, b, t)' = WritesBefore(i, b, t)
    BY <1>1, <1>2 DEF WritesBefore, Starts, BlockStart, Deltas, Fits, IsDelta, Fitting, Ping, Event
  <2>5. WritesAfter(i, b, t)' = WritesAfter(i, b, t)
    BY <1>1, <1>2 DEF WritesAfter, Starts, BlockStart, BlockStop, Deltas, Fits, IsDelta, Fitting,
         Ping, Event
  <2> QED BY <1>1, <1>2, <1>3, <1>6, <2>1, <2>2, <2>3, <2>4, <2>5 DEF Writing
<1>7. ASSUME Ending PROVE Ending'
  <2>1. PICK i \in Nat : i = wrapper.index /\ (Holding(i) \/ Released(i))
    BY <1>7 DEF Ending
  <2>2. Holding(i)' = Holding(i)
    BY <1>1, <1>2 DEF Holding, BlockStop, Event
  <2>3. Released(i)' = Released(i)
    BY <1>1, <1>2, <1>3 DEF Released, MessageDelta, Event
  <2> QED BY <1>2, <1>3, <1>7, <2>1, <2>2, <2>3 DEF Ending
<1> QED BY <1>4, <1>5, <1>6, <1>7 DEF Pipeline

LEMMA NextFlow ==
  ASSUME TypeOK, TypeOK', Flow, NoMarkup, [Next]_vars
  PROVE  Flow'
<1>0. ThinkingSound /\ BlocksNest /\ Envelope /\ Quiet
  BY DEF Flow
<1>1. CASE StartMessage
  BY <1>1, StartStep
<1>2. CASE UNCHANGED <<outer, emitted>> /\ Quiet' /\ Pipeline'
  <2>1. BlocksNest' /\ Envelope' /\ ThinkingSound'
    BY <1>0, <1>2, SameReader DEF ThinkingSound
  <2> QED BY <1>2, <2>1 DEF Flow
<1>3. ASSUME NEW kind \in Kind, NEW mark \in Mark \cup {"plain"}, ReceiveContent(kind, mark)
      PROVE  Flow'
  <2>1. UNCHANGED <<outer, emitted>>
    BY <1>3 DEF ReceiveContent
  <2> QED BY <1>2, <1>3, <2>1, ContentStep
<1>4. CASE ReceiveFinish \/ ReceiveUsage \/ ReceiveEnd
  <2>1. UNCHANGED <<outer, emitted>>
    BY <1>4 DEF ReceiveFinish, ReceiveUsage, ReceiveEnd
  <2> QED BY <1>2, <1>4, <2>1, FinishStep, UsageStep, EndStep
<1>5. CASE Take \/ GivePending
  <2>1. OuterStep /\ Quiet'
    BY <1>0, <1>5, TakeStep, PendingStep
  <2> QED BY <2>1, FlowsOn DEF Flow
<1>6. CASE ReceiveError \/ Timeout \/ Stop \/ UNCHANGED vars
  <2>1. UNCHANGED <<got, upstream, wrapper, queue, outer, pending, emitted>>
    BY <1>6 DEF ReceiveError, Timeout, Stop, vars
  <2>2. Line' = Line /\ OfChunks' = OfChunks
    BY <2>1 DEF Line, OfChunks
  <2>3. Quiet'
    BY <1>0, <2>1, <2>2 DEF Quiet
  <2>4. Pipeline'
    BY <2>1, SamePipeline DEF Flow
  <2> QED BY <1>2, <2>1, <2>3, <2>4
<1> QED BY <1>1, <1>3, <1>4, <1>5, <1>6 DEF Next

\* The types and, while no text opens a call, the flow of the events are
\* invariant.
THEOREM Invariance == Spec => []IInv
<1>1. Init => IInv
  <2> SUFFICES ASSUME Init PROVE IInv
    OBVIOUS
  <2>1. TypeOK
    BY EmptySeq DEF Init, TypeOK, WrapperType, OuterType, EventsTyped, BlockTypes
  <2>2. Quiet
    BY EmptySeq DEF Init, Quiet
  <2>3. Unopened
    BY DEF Init, Unopened, Unfinished
  <2>4. BlocksNest /\ Envelope /\ ThinkingSound
    BY DEF Init, BlocksNest, Envelope, ThinkingSound
  <2> QED BY <2>1, <2>2, <2>3, <2>4 DEF IInv, Flow, Pipeline
<1>2. IInv /\ [Next]_vars => IInv'
  <2> SUFFICES ASSUME IInv, [Next]_vars PROVE IInv'
    OBVIOUS
  <2>1. TypeOK'
    BY NextTypes DEF IInv
  <2>2. ASSUME NoMarkup' PROVE Flow'
    <3>1. NoMarkup
      BY <2>2, MarkupStays DEF IInv
    <3> QED BY <2>1, <3>1, NextFlow DEF IInv
  <2> QED BY <2>1, <2>2 DEF IInv
<1> QED BY <1>1, <1>2, PTL DEF Spec

\* Anthropic's streaming contract: blocks are numbered without a gap and one
\* is open at a time, each delta is in the open block and fits it, the message
\* starts first, says why it stopped when every block is closed, and its stop
\* is the last event.
THEOREM ContractCorrect == Spec => []StreamingContract
<1>1. IInv => StreamingContract
  BY DEF IInv, Flow, StreamingContract
<1> QED BY <1>1, Invariance, PTL

----------------------------------------------------------------------------
(* Signatures, whatever the text says                                      *)

\* The reader is in a block of thinking.
Thinking == \E k \in Nat : OpenBlock(k, "thinking")

\* Where block k was signed.
Signatures(k) == {j \in DOMAIN emitted : emitted[j] = Delta(k, "signature", <<>>)}

\* A block was signed once if the layer says so, and otherwise not.
SignedOnce ==
  \A k \in Nat :
    IF k \in outer.signed
      THEN \E x \in DOMAIN emitted : Signatures(k) = {x}
      ELSE Signatures(k) = {}

ThinkingKnown == \A k \in Nat : OpenBlock(k, "thinking") => k \in outer.thinking

\* A stop of block k that leaves no thinking without a signature, but where
\* SignedThinking excuses it.
SafeStop(k) ==
  OpenBlock(k, "thinking") => k \in outer.signed \/ (k = 0 /\ CallInFirstThinking)

\* Events that open no thinking and sign nothing.
Harmless ==
  {e \in AnEvent : /\ e.of # "signature"
                   /\ e.type = "content_block_start" => e.of = "tool_use"}

\* Such events wait only outside of thinking, or behind a safe stop of it.
Leaves(e) == e.type = "content_block_stop" /\ SafeStop(e.index)
PendingSound ==
  /\ pending \in Seq(Harmless)
  /\ pending # <<>> => ~Thinking \/ Leaves(Head(pending))

Inner == {e \in OfChunks : e.of # "signature"}

EdgeFree(s) == \A j \in DOMAIN s : ~Edge(s[j])

\* The inner layer is in a block of thinking.
InThinking ==
  wrapper.blockStarted /\ ~wrapper.blockFinished /\ wrapper.blockType = "thinking"

\* The provider has sent nothing but the thinking it began with.
OnlyThought == \A m \in DOMAIN got : got[m].kind \in {"thinking", "signature", "blank"}

\* An event that does not end the message and carries the newest chunk, if any.
Recent(e) ==
  e.type \notin {"message_delta", "message_stop"} /\ e.pieces \in {<<>>, <<Len(got)>>}

\* At most one event, of this sort.
Calm(s) == s = <<>> \/ (Tail(s) = <<>> /\ Recent(Head(s)))

\* While the reader is in a block of thinking and no stop of it waits, nothing
\* is on its way to it but what the provider last thought.
Draining ==
  /\ EdgeFree(queue)
  /\ Thinking /\ pending = <<>> =>
       InThinking /\ Calm(queue) /\ (OpenBlock(0, "thinking") => OnlyThought)

\* A block starts, or one is stopped before another starts.
Starting(s) ==
  /\ s # <<>> /\ Head(s).type = "content_block_start" /\ EdgeFree(Tail(s))
  /\ Head(s).of = "thinking" =>
       InThinking /\ Calm(Tail(s)) /\ (Head(s).index = 0 => OnlyThought)

Stopping(s) ==
  /\ s # <<>> /\ Head(s).type = "content_block_stop"
  /\ EdgeFree(Tail(s)) \/ Starting(Tail(s))

QueueSound ==
  /\ queue \in Seq(Inner)
  /\ Draining \/ Starting(queue) \/ Stopping(queue)

\* The text held back opens a call and has no end of one.
TextSound ==
  /\ outer.buffer \in Seq(DOMAIN got) /\ ~Closes(outer.buffer)
  /\ outer.buffering => Opens(outer.buffer)

\* The inner layer is in no block before the message has started or content has
\* come, nor after the provider has finished.
InnerSound ==
  /\ ~wrapper.firstSent => ~wrapper.blockStarted /\ queue = <<>> /\ pending = <<>>
  /\ upstream = "content" => Unfinished
  /\ upstream # "content" /\ wrapper.blockStarted => wrapper.blockFinished
  /\ ~wrapper.blockStarted => \A m \in DOMAIN got : got[m].kind = "blank"

\* Every block of thinking has its signature or excuse, and who has one is known.
Signs == SignedThinking /\ SignedOnce /\ ThinkingKnown

SInv == TypeOK /\ Signs /\ PendingSound /\ QueueSound /\ TextSound /\ InnerSound

\* The open block of an event is the one the reader is in.
LEMMA OpenTypesRead ==
  ASSUME emitted \in Seq(AnEvent), NEW e \in AnEvent, emitted' = Append(emitted, e),
         NEW last, last = Len(emitted) + 1
  PROVE  \A t : t \in OpenTypes(last)' => OpenBlock(e.index, t)
<1>1. /\ Len(emitted) \in Nat /\ Len(emitted') = Len(emitted) + 1
      /\ DOMAIN emitted = 1..Len(emitted) /\ DOMAIN emitted' = 1..Len(emitted) + 1
      /\ \A j \in 1..Len(emitted) : emitted'[j] = emitted[j]
      /\ emitted'[Len(emitted) + 1] = e
  BY Emitted
<1> SUFFICES ASSUME NEW t, t \in OpenTypes(last)'
             PROVE  OpenBlock(e.index, t)
  OBVIOUS
<1>2. PICK k \in 1..last - 1 :
        /\ emitted'[k].type = "content_block_start" /\ emitted'[k].index = emitted'[last].index
        /\ emitted'[k].of = t
        /\ \A m \in k + 1..last - 1 : ~Edge(emitted'[m])
  BY DEF OpenTypes, Edge
<1>3. k \in 1..Len(emitted) /\ \A m \in k + 1..Len(emitted) : ~Edge(emitted[m])
  BY <1>1, <1>2 DEF Edge
<1> QED BY <1>1, <1>2, <1>3 DEF OpenBlock

\* An event that is no signature, or a signature that goes out.
LEMMA SignaturesStay ==
  ASSUME emitted \in Seq(AnEvent), NEW e \in AnEvent, emitted' = Append(emitted, e)
  PROVE  /\ \A k : e # Delta(k, "signature", <<>>) => Signatures(k)' = Signatures(k)
         /\ \A k : e = Delta(k, "signature", <<>>)
                     => Signatures(k)' = Signatures(k) \cup {Len(emitted) + 1}
<1>1. /\ Len(emitted) \in Nat
      /\ DOMAIN emitted = 1..Len(emitted) /\ DOMAIN emitted' = 1..Len(emitted) + 1
      /\ \A j \in 1..Len(emitted) : emitted'[j] = emitted[j]
      /\ emitted'[Len(emitted) + 1] = e
  BY Emitted
<1>2. \A k : Signatures(k)' = {j \in DOMAIN emitted' : emitted'[j] = Delta(k, "signature", <<>>)}
  BY DEF Signatures, Delta, Event
<1> QED BY <1>1, <1>2 DEF Signatures

\* A call in the first thinking stays one.
LEMMA CallStays ==
  ASSUME got \in Seq(Chunk), UNCHANGED got \/ \E c \in Chunk : got' = Append(got, c)
  PROVE  CallInFirstThinking => CallInFirstThinking'
<1>1. /\ DOMAIN got \subseteq DOMAIN got' /\ DOMAIN got = 1..Len(got) /\ Len(got) \in Nat
      /\ \A m \in DOMAIN got : got'[m] = got[m]
  <2>1. DOMAIN got = 1..Len(got) /\ Len(got) \in Nat
    BY LenProperties
  <2>2. CASE UNCHANGED got
    BY <2>1, <2>2
  <2>3. ASSUME NEW c \in Chunk, got' = Append(got, c)
        PROVE  DOMAIN got \subseteq DOMAIN got' /\ \A m \in DOMAIN got : got'[m] = got[m]
    <3>1. /\ got' \in Seq(Chunk) /\ Len(got') = Len(got) + 1
          /\ \A m \in 1..Len(got) : got'[m] = got[m]
      BY <2>3, AppendProperties
    <3>2. DOMAIN got' = 1..Len(got')
      BY <3>1, LenProperties
    <3> QED BY <2>1, <3>1, <3>2
  <2> QED BY <2>1, <2>2, <2>3
<1>2. ASSUME NEW m \in DOMAIN got
      PROVE  /\ Opens(<<m>>) => Opens(<<m>>)'
             /\ Closes(<<m>>) => Closes(<<m>>)'
  <2>1. \A j \in DOMAIN <<m>> : <<m>>[j] = m
    OBVIOUS
  <2>2. MarkOf(<<m>>)' = MarkOf(<<m>>)
    BY <1>1, <2>1 DEF MarkOf
  <2> QED BY <2>2 DEF Opens, Closes
<1> SUFFICES ASSUME CallInFirstThinking PROVE CallInFirstThinking'
  OBVIOUS
<1>3. PICK n \in DOMAIN got :
        /\ \A m \in 1..n : got[m].kind \in {"thinking", "signature", "blank"}
        /\ \E m \in 1..n : Opens(<<m>>)
        /\ Closes(<<n>>)
  BY DEF CallInFirstThinking
<1>4. 1..n \subseteq DOMAIN got
  BY <1>1
<1>5. PICK l \in 1..n : Opens(<<l>>)
  BY <1>3
<1>6. Opens(<<l>>)' /\ Closes(<<n>>)' /\ n \in DOMAIN got'
  BY <1>1, <1>2, <1>3, <1>4, <1>5
<1>7. \A m \in 1..n : got'[m].kind \in {"thinking", "signature", "blank"}
  BY <1>1, <1>3, <1>4
<1> QED BY <1>6, <1>7 DEF CallInFirstThinking

\* A stop that needs a signature has had exactly one, or has its excuse.
LEMMA StopsSigned ==
  ASSUME emitted \in Seq(AnEvent), NEW e \in AnEvent, emitted' = Append(emitted, e),
         CallInFirstThinking => CallInFirstThinking',
         SignedThinking, SignedOnce,
         e.type = "content_block_stop" => SafeStop(e.index)
  PROVE  SignedThinking'
<1>1. /\ Len(emitted) \in Nat /\ Len(emitted') = Len(emitted) + 1
      /\ DOMAIN emitted = 1..Len(emitted) /\ DOMAIN emitted' = 1..Len(emitted) + 1
      /\ \A j \in 1..Len(emitted) : emitted'[j] = emitted[j]
      /\ emitted'[Len(emitted) + 1] = e
  BY Emitted
<1>2. PICK last \in Nat : last = Len(emitted) + 1
  BY <1>1
<1>3. /\ \A i \in 1..Len(emitted) : OpenTypes(i)' = OpenTypes(i)
      /\ \A t : t \in OpenTypes(last)' => OpenBlock(e.index, t)
  BY <1>2, OpenTypesStay, OpenTypesRead
<1> DEFINE Before(f, i) == {j \in 1..i - 1 : f[j] = Delta(f[i].index, "signature", <<>>)}
<1> DEFINE Excused(f, i) == Cardinality(Before(f, i)) = 1 \/ (f[i].index = 0 /\ CallInFirstThinking')
<1>4. ASSUME NEW i \in 1..Len(emitted), emitted'[i].type = "content_block_stop",
             OpenTypes(i)' = {"thinking"}
      PROVE  Excused(emitted', i)
  <2>1. /\ emitted[i].type = "content_block_stop" /\ OpenTypes(i) = {"thinking"}
        /\ emitted'[i] = emitted[i] /\ \A j \in 1..i - 1 : emitted'[j] = emitted[j]
    BY <1>1, <1>3, <1>4
  <2>2. Before(emitted', i) = Before(emitted, i)
    BY <2>1
  <2>3. Cardinality(Before(emitted, i)) = 1 \/ (emitted[i].index = 0 /\ CallInFirstThinking)
    BY <1>1, <2>1 DEF SignedThinking
  <2> QED BY <2>1, <2>2, <2>3
<1>5. ASSUME e.type = "content_block_stop", OpenTypes(last)' = {"thinking"}
      PROVE  Excused(emitted', last)
  <2>1. e.index \in outer.signed \/ (e.index = 0 /\ CallInFirstThinking)
    BY <1>3, <1>5 DEF SafeStop
  <2>2. CASE e.index \in outer.signed
    <3>1. e.index \in Nat
      BY DEF AnEvent
    <3>2. PICK x \in DOMAIN emitted : Signatures(e.index) = {x}
      BY <2>2, <3>1 DEF SignedOnce
    <3>3. Before(emitted', last) = Signatures(e.index)
      BY <1>1, <1>2 DEF Signatures
    <3>4. Cardinality({x}) = 1
      BY FS_Singleton
    <3> QED BY <3>2, <3>3, <3>4
  <2> QED BY <1>1, <1>2, <2>1, <2>2
<1> HIDE DEF Before
<1> SUFFICES ASSUME NEW i \in 1..last, emitted'[i].type = "content_block_stop",
                    OpenTypes(i)' = {"thinking"}
             PROVE  Excused(emitted', i)
  BY <1>1, <1>2 DEF SignedThinking, Before, Delta, Event
<1>6. i \in 1..Len(emitted) \/ i = last
  BY <1>1, <1>2
<1> QED BY <1>1, <1>2, <1>4, <1>5, <1>6

\* An event that goes out as the reader sees it; the layer knows of the block
\* it opens, unless that is a tool call of the text.
LEMMA SignsOn ==
  ASSUME TypeOK, Signs, NEW e \in AnEvent, emitted' = Append(emitted, e), UNCHANGED got,
         e.of # "signature",
         e.type = "content_block_stop" => SafeStop(e.index),
         outer'.signed = outer.signed,
         \/ outer'.thinking = ThinkingAfter(e)
         \/ (e.type = "content_block_start" => e.of = "tool_use")
              /\ outer'.thinking = outer.thinking
  PROVE  Signs'
<1>1. emitted \in Seq(AnEvent) /\ SignedThinking /\ SignedOnce /\ ThinkingKnown
  BY DEF TypeOK, EventsTyped, Signs
<1>2. SignedThinking'
  BY <1>1, CallStays, StopsSigned DEF TypeOK
<1>3. \A k : Signatures(k)' = Signatures(k)
  <2>1. \A k : e # Delta(k, "signature", <<>>)
    BY DEF Delta, Event
  <2> QED BY <1>1, <2>1, SignaturesStay
<1>4. SignedOnce'
  <2>1. \A x \in DOMAIN emitted : x \in DOMAIN emitted'
    BY <1>1, Emitted
  <2> QED BY <1>1, <1>3, <2>1 DEF SignedOnce
<1>5. ThinkingKnown'
  <2> SUFFICES ASSUME NEW k \in Nat, OpenBlock(k, "thinking")'
               PROVE  k \in outer'.thinking
    BY DEF ThinkingKnown
  <2>1. CASE e.type = "content_block_start"
    <3>1. k = e.index /\ e.of = "thinking"
      BY <1>1, <2>1, ReadsStart
    <3> QED BY <2>1, <3>1 DEF ThinkingAfter
  <2>2. CASE e.type = "content_block_stop"
    BY <1>1, <2>2, NoneOpen
  <2>3. CASE ~Edge(e)
    <3>1. OpenBlock(k, "thinking")
      BY <1>1, <2>3, ReadsOn
    <3>2. outer'.thinking = outer.thinking
      BY <2>3 DEF ThinkingAfter, Edge
    <3> QED BY <1>1, <3>1, <3>2 DEF ThinkingKnown
  <2> QED BY <2>1, <2>2, <2>3 DEF Edge
<1> QED BY <1>2, <1>4, <1>5 DEF Signs

\* The signature of a block that has none goes out.
LEMMA SignsOnce ==
  ASSUME TypeOK, Signs, NEW i \in Nat, i \notin outer.signed, UNCHANGED got,
         emitted' = Append(emitted, Delta(i, "signature", <<>>)),
         outer'.signed = outer.signed \cup {i}, outer'.thinking = outer.thinking
  PROVE  /\ Signs'
         /\ \A n, t : OpenBlock(n, t)' = OpenBlock(n, t)
<1> DEFINE d == Delta(i, "signature", <<>>)
<1>1. emitted \in Seq(AnEvent) /\ SignedThinking /\ SignedOnce /\ ThinkingKnown
  BY DEF TypeOK, EventsTyped, Signs
<1>2. d \in AnEvent /\ ~Edge(d) /\ emitted' = Append(emitted, d)
  BY SignatureEvent
<1>3. \A k : d = Delta(k, "signature", <<>>) <=> k = i
  BY DEF Delta, Event
<1> HIDE DEF d
<1>4. \A n, t : OpenBlock(n, t)' = OpenBlock(n, t)
  BY <1>1, <1>2, ReadsOn
<1>5. SignedThinking'
  BY <1>1, <1>2, CallStays, StopsSigned DEF Edge, TypeOK
<1>6. /\ \A k : k # i => Signatures(k)' = Signatures(k)
      /\ Signatures(i)' = Signatures(i) \cup {Len(emitted) + 1}
  BY <1>1, <1>2, <1>3, SignaturesStay
<1>7. /\ \A x \in DOMAIN emitted : x \in DOMAIN emitted'
      /\ Len(emitted) + 1 \in DOMAIN emitted'
  BY <1>1, <1>2, Emitted
<1>8. SignedOnce'
  <2> SUFFICES ASSUME NEW k \in Nat
               PROVE  IF k \in outer'.signed
                        THEN \E x \in DOMAIN emitted' : Signatures(k)' = {x}
                        ELSE Signatures(k)' = {}
    BY DEF SignedOnce
  <2>1. CASE k = i
    <3>1. Signatures(i) = {}
      BY <1>1 DEF SignedOnce
    <3> QED BY <1>6, <1>7, <2>1, <3>1
  <2>2. CASE k # i
    BY <1>1, <1>6, <1>7, <2>2 DEF SignedOnce
  <2> QED BY <2>1, <2>2
<1>9. ThinkingKnown'
  BY <1>1, <1>4 DEF ThinkingKnown
<1> QED BY <1>4, <1>5, <1>8, <1>9 DEF Signs

\* Who is in no block of thinking gets into one by its start only.
LEMMA StaysOut ==
  ASSUME TypeOK, NEW e \in AnEvent, emitted' = Append(emitted, e),
         e.type = "content_block_start" => e.of # "thinking",
         ~Thinking \/ e.type = "content_block_stop"
  PROVE  ~Thinking'
<1>1. emitted \in Seq(AnEvent)
  BY DEF TypeOK, EventsTyped
<1>2. CASE e.type = "content_block_start"
  BY <1>1, <1>2, ReadsStart DEF Thinking
<1>3. CASE e.type = "content_block_stop"
  BY <1>1, <1>3, NoneOpen DEF Thinking
<1>4. CASE ~Edge(e)
  <2>1. \A n, t : OpenBlock(n, t)' = OpenBlock(n, t)
    BY <1>1, <1>4, ReadsOn
  <2> QED BY <1>4, <2>1 DEF Thinking, Edge
<1> QED BY <1>2, <1>3, <1>4 DEF Edge

\* Only a start opens a block.
LEMMA NothingStarts ==
  ASSUME TypeOK, NEW e \in AnEvent, emitted' = Append(emitted, e),
         e.type # "content_block_start"
  PROVE  \A n, t : OpenBlock(n, t)' => OpenBlock(n, t)
<1>1. emitted \in Seq(AnEvent)
  BY DEF TypeOK, EventsTyped
<1>2. CASE e.type = "content_block_stop"
  BY <1>1, <1>2, NoneOpen
<1>3. CASE ~Edge(e)
  BY <1>1, <1>3, ReadsOn
<1> QED BY <1>2, <1>3 DEF Edge

\* The first event goes out signed, or its signature does.
LEMMA GiveSigned ==
  ASSUME TypeOK, Signs, NEW events \in Seq(AnEvent), events # <<>>, Head(events).of # "signature",
         NEW o \in OuterType, o.thinking = outer.thinking, o.signed = outer.signed,
         Give(events, o), UNCHANGED got
  PROVE  /\ Signs' /\ outer'.buffer = o.buffer /\ outer'.buffering = o.buffering
         /\ (Head(events).type = "content_block_start" => Head(events).of # "thinking")
              /\ ~Thinking
              => ~Thinking'
<1> DEFINE e == Head(events)
<1>1. e \in AnEvent /\ e.of # "signature"
  BY HeadTailProperties
<1>2. e.index \in Nat
  BY <1>1 DEF AnEvent
<1>3. CASE Unsigned(o, e)
  <2>1. /\ emitted' = Append(emitted, Delta(e.index, "signature", <<>>))
        /\ outer' = [o EXCEPT !.signed = @ \cup {e.index}]
        /\ e.index \notin outer.signed
    BY <1>3 DEF Give, Emit, Unsigned
  <2> HIDE DEF e
  <2>2. /\ outer'.signed = outer.signed \cup {e.index} /\ outer'.thinking = outer.thinking
        /\ outer'.buffer = o.buffer /\ outer'.buffering = o.buffering
    BY <2>1 DEF OuterType
  <2>3. Signs' /\ \A n, t : OpenBlock(n, t)' = OpenBlock(n, t)
    BY <1>2, <2>1, <2>2, SignsOnce
  <2> QED BY <2>2, <2>3 DEF Thinking
<1>4. CASE ~Unsigned(o, e)
  <2>1. /\ emitted' = Append(emitted, e)
        /\ outer' = [o EXCEPT !.thinking =
              IF e.type # "content_block_start" THEN @
              ELSE IF e.of = "thinking" THEN @ \cup {e.index} ELSE @ \ {e.index}]
    BY <1>4 DEF Give, Emit
  <2> HIDE DEF e
  <2>2. /\ outer'.thinking = ThinkingAfter(e) /\ outer'.signed = outer.signed
        /\ outer'.buffer = o.buffer /\ outer'.buffering = o.buffering
    BY <2>1 DEF OuterType, ThinkingAfter
  <2>3. e.type = "content_block_stop" => SafeStop(e.index)
    BY <1>2, <1>4 DEF Unsigned, SafeStop, Signs, ThinkingKnown
  <2>4. Signs'
    BY <1>1, <2>1, <2>2, <2>3, SignsOn
  <2>5. (e.type = "content_block_start" => e.of # "thinking") /\ ~Thinking => ~Thinking'
    BY <1>1, <2>1, StaysOut
  <2> QED BY <2>2, <2>4, <2>5 DEF e
<1> QED BY <1>3, <1>4

\* Outside of thinking any harmless events may go out.
LEMMA GiveOutside ==
  ASSUME TypeOK, Signs, ~Thinking, NEW events \in Seq(Harmless), events # <<>>,
         NEW o \in OuterType, o.thinking = outer.thinking, o.signed = outer.signed,
         Give(events, o), UNCHANGED got
  PROVE  /\ Signs' /\ ~Thinking' /\ pending' \in Seq(Harmless)
         /\ outer'.buffer = o.buffer /\ outer'.buffering = o.buffering
<1>1. Harmless \subseteq AnEvent
  BY DEF Harmless
<1>2. events \in Seq(AnEvent)
  BY <1>1, SeqMonotonic
<1>3. Head(events) \in Harmless /\ Tail(events) \in Seq(Harmless)
  BY HeadTailProperties
<1>4. Head(events).of # "signature"
        /\ (Head(events).type = "content_block_start" => Head(events).of # "thinking")
  BY <1>3 DEF Harmless
<1>5. Signs' /\ ~Thinking' /\ outer'.buffer = o.buffer /\ outer'.buffering = o.buffering
  BY <1>2, <1>4, GiveSigned
<1>6. pending' = events \/ pending' = Tail(events)
  BY DEF Give
<1> QED BY <1>3, <1>5, <1>6

\* The events of a parsed call are harmless, and begin with the text that is
\* left and the stop of block 0.
LEMMA ToolEventsHarmless ==
  ASSUME NEW found \in AFinding(Nat)
  PROVE  /\ ToolEvents(found) \in Seq(Harmless) /\ ToolEvents(found) # <<>>
         /\ IF found.text = <<>> THEN Head(ToolEvents(found)) = BlockStop(0)
            ELSE /\ Head(ToolEvents(found)) = Delta(0, "text", found.text)
                 /\ Tail(ToolEvents(found)) # <<>>
                 /\ Head(Tail(ToolEvents(found))) = BlockStop(0)
<1> DEFINE text == Delta(0, "text", found.text)
           stop == BlockStop(0)
           a == IF found.text = <<>> THEN <<>> ELSE <<text>>
           b == <<stop>>
           c == IF found.call
                THEN <<BlockStart(1, "tool_use", <<>>), Delta(1, "input_json", found.input),
                       BlockStop(1)>>
                ELSE <<>>
           d == <<MessageDelta("tool_use")>>
<1>0. /\ <<>> \in Seq(Nat) /\ "tool_use" \in BlockTypes /\ "tool_use" \in Reasons
      /\ found.text \in Seq(Nat) /\ found.input \in Seq(Nat)
  BY EmptySeq DEF BlockTypes, Reasons, AFinding
<1>1. text \in Harmless
  <2>1. text \in AnEvent
    BY <1>0, EventTypes
  <2> QED BY <2>1 DEF Harmless, Delta, Event
<1>2. stop \in Harmless
  <2>1. BlockStop(0) \in AnEvent
    BY EventTypes
  <2> QED BY <2>1 DEF Harmless, BlockStop, Event
<1>3. c \in Seq(Harmless)
  <2>1. /\ BlockStart(1, "tool_use", <<>>) \in AnEvent
        /\ Delta(1, "input_json", found.input) \in AnEvent /\ BlockStop(1) \in AnEvent
    BY <1>0, EventTypes
  <2>2. BlockStart(1, "tool_use", <<>>) \in Harmless
    BY <2>1 DEF Harmless, BlockStart, Event
  <2>3. Delta(1, "input_json", found.input) \in Harmless
    BY <2>1 DEF Harmless, Delta, Event
  <2>4. BlockStop(1) \in Harmless
    BY <2>1 DEF Harmless, BlockStop, Event
  <2> QED BY <2>2, <2>3, <2>4
<1>4. d \in Seq(Harmless)
  <2>1. MessageDelta("tool_use") \in AnEvent
    BY <1>0, EventTypes
  <2>2. MessageDelta("tool_use") \in Harmless
    BY <2>1 DEF Harmless, MessageDelta, Event
  <2> QED BY <2>2
<1>5. ToolEvents(found) = ((a \o b) \o c) \o d
  BY DEF ToolEvents
<1> HIDE DEF text, stop, c, d
<1>6. c \o d \in Seq(Harmless)
  BY <1>3, <1>4, ConcatProperties
<1>7. a \in Seq(Harmless) /\ b \in Seq(Harmless)
  BY <1>1, <1>2
<1>8. ToolEvents(found) = a \o (b \o (c \o d))
  <2>1. (a \o b) \o c = a \o (b \o c) /\ b \o c \in Seq(Harmless)
    BY <1>3, <1>7, ConcatAssociative, ConcatProperties
  <2>2. (a \o (b \o c)) \o d = a \o ((b \o c) \o d)
    BY <1>4, <1>7, <2>1, ConcatAssociative
  <2>3. (b \o c) \o d = b \o (c \o d)
    BY <1>3, <1>4, <1>7, ConcatAssociative
  <2> HIDE DEF a, b
  <2> QED BY <1>5, <2>1, <2>2, <2>3
<1> DEFINE cd == c \o d
           bcd == <<stop>> \o cd
<1> HIDE DEF cd
<1>9. bcd \in Seq(Harmless) /\ bcd # <<>> /\ Head(bcd) = stop
  <2>1. cd \in Seq(Harmless)
    BY <1>6 DEF cd
  <2> QED BY <1>2, <2>1
<1> HIDE DEF bcd
<1>10. CASE found.text = <<>>
  <2>1. ToolEvents(found) = bcd
    <3>1. <<>> \o bcd = bcd
      BY <1>9, ConcatEmptySeq
    <3> QED BY <1>8, <1>10, <3>1 DEF bcd, cd
  <2> QED BY <1>9, <1>10, <2>1 DEF stop
<1>11. CASE found.text # <<>>
  <2>1. ToolEvents(found) = <<text>> \o bcd
    BY <1>8, <1>11 DEF bcd, cd
  <2>2. /\ <<text>> \o bcd \in Seq(Harmless) /\ <<text>> \o bcd # <<>>
        /\ Head(<<text>> \o bcd) = text /\ Tail(<<text>> \o bcd) = bcd
    BY <1>1, <1>9
  <2> QED BY <1>9, <1>11, <2>1, <2>2 DEF stop, text
<1> QED BY <1>10, <1>11

\* Text that closes no call goes on without closing one, if what comes
\* closes none.
LEMMA ClosesEither ==
  ASSUME NEW S, NEW a \in Seq(S), NEW b \in Seq(S), Closes(a \o b)
  PROVE  Closes(a) \/ Closes(b)
<1>1. /\ DOMAIN a = 1..Len(a) /\ DOMAIN b = 1..Len(b)
      /\ Len(a) \in Nat /\ Len(b) \in Nat
  BY LenProperties
<1>2. /\ a \o b \in Seq(S) /\ Len(a \o b) = Len(a) + Len(b)
      /\ \A i \in 1..Len(a) + Len(b) :
           (a \o b)[i] = IF i <= Len(a) THEN a[i] ELSE b[i - Len(a)]
  BY ConcatProperties
<1>3. DOMAIN (a \o b) = 1..Len(a) + Len(b)
  BY <1>2, LenProperties
<1>4. PICK i \in 1..Len(a) + Len(b) : got[(a \o b)[i]].mark \in {"closes", "whole"}
  BY <1>3 DEF Closes, MarkOf
<1>5. CASE i <= Len(a)
  <2>1. i \in DOMAIN a /\ (a \o b)[i] = a[i]
    BY <1>1, <1>2, <1>5
  <2> QED BY <1>4, <2>1 DEF Closes, MarkOf
<1>6. CASE ~(i <= Len(a))
  <2>1. i - Len(a) \in DOMAIN b /\ (a \o b)[i] = b[i - Len(a)]
    BY <1>1, <1>2, <1>6
  <2> QED BY <1>4, <2>1 DEF Closes, MarkOf
<1> QED BY <1>1, <1>5, <1>6

\* Text opens a call if a part of it does.
LEMMA OpensEither ==
  ASSUME NEW S, NEW a \in Seq(S), NEW b \in Seq(S), Opens(a) \/ Opens(b)
  PROVE  Opens(a \o b)
<1>1. a \o b \in Seq(S) /\ Range(a \o b) = Range(a) \cup Range(b)
  BY RangeConcatenation, ConcatProperties
<1>2. \A s : MarkOf(s) = {got[n].mark : n \in Range(s)}
  BY DEF MarkOf, Range
<1> HIDE DEF MarkOf
<1> QED BY <1>1, <1>2 DEF Opens

\* What the outer layer holds back opens a call and has no end of one, whatever
\* it does.
Held ==
  /\ outer.buffer \in Seq(DOMAIN got) /\ ~Closes(outer.buffer)
  /\ outer.buffering => Opens(outer.buffer)

\* What is said of texts and of events on their way is said of the chunks.
LEMMA SameText ==
  ASSUME UNCHANGED got
  PROVE  /\ \A s : Closes(s)' = Closes(s)
         /\ \A s : Opens(s)' = Opens(s)
         /\ \A s : Calm(s)' = Calm(s)
         /\ \A s : EdgeFree(s)' = EdgeFree(s)
         /\ OnlyThought' = OnlyThought
<1>1. \A s : Closes(s)' = Closes(s) /\ Opens(s)' = Opens(s)
  BY DEF Closes, Opens, MarkOf
<1>2. \A s : Calm(s)' = Calm(s)
  BY DEF Calm, Recent
<1>3. \A s : EdgeFree(s)' = EdgeFree(s)
  BY DEF EdgeFree, Edge
<1>4. OnlyThought' = OnlyThought
  BY DEF OnlyThought
<1> QED BY <1>1, <1>2, <1>3, <1>4

LEMMA ConvertedInner ==
  ASSUME NEW h \in Inner
  PROVE  /\ Converted(h) \in Inner /\ Converted(h) \in AnEvent
         /\ Converted(h).type = h.type /\ Converted(h).pieces = h.pieces
         /\ Converted(h).index = h.index
         /\ h.type # "content_block_start" => Converted(h) = h
         /\ Converted(h).of = "thinking" => h.of = "thinking"
<1>1. h \in AnEvent /\ h.of # "signature" /\ h.pieces \in Seq(DOMAIN got)
  BY DEF Inner, OfChunks
<1>2. Converted(h) \in AnEvent
  BY <1>1, ConvertedType
<1>3. /\ Converted(h).type = h.type /\ Converted(h).pieces = h.pieces
      /\ Converted(h).index = h.index
      /\ Converted(h).of \in {h.of, "text"}
      /\ h.type # "content_block_start" => Converted(h) = h
  BY <1>1 DEF Converted, AnEvent
<1> QED BY <1>1, <1>2, <1>3 DEF Inner, OfChunks

\* Nothing is given out, and the layer learns of no block.
LEMMA SignsSame ==
  ASSUME Signs, UNCHANGED emitted, CallInFirstThinking => CallInFirstThinking', outer'.thinking = outer.thinking,
         outer'.signed = outer.signed
  PROVE  Signs' /\ Thinking' = Thinking
<1>1. \A n, t : OpenBlock(n, t)' = OpenBlock(n, t)
  BY SameReader
<1>2. ThinkingKnown' /\ Thinking' = Thinking
  BY <1>1 DEF Thinking, ThinkingKnown, Signs
<1>3. \A k : Signatures(k)' = Signatures(k)
  BY DEF Signatures, Delta, Event
<1>4. SignedOnce'
  BY <1>3 DEF SignedOnce, Signs
<1>5. \A i : OpenTypes(i)' = OpenTypes(i)
  BY DEF OpenTypes, Edge
<1>6. SignedThinking'
  BY <1>5 DEF SignedThinking, Signs, Delta, Event
<1> QED BY <1>2, <1>4, <1>6 DEF Signs

\* Nothing was held back.
LEMMA NothingHeld ==
  <<>> \in Seq(DOMAIN got) /\ ~Closes(<<>>) /\ <<>> \in Seq(Harmless)
<1>1. <<>> \in Seq(Nat) /\ Len(<<>>) = 0
  BY EmptySeq
<1>2. DOMAIN <<>> = {}
  BY <1>1, LenProperties
<1> QED BY <1>2, EmptySeq DEF Closes, MarkOf

\* An event is dropped, or its text is held back.
LEMMA TakeSilently ==
  ASSUME TypeOK, Signs, Held, UNCHANGED got, NEW e \in Inner, Drop(e) \/ HoldBack(e)
  PROVE  Signs' /\ Held' /\ Thinking' = Thinking /\ UNCHANGED <<pending, emitted>>
<1>1. /\ \A s : Closes(s)' = Closes(s) /\ Opens(s)' = Opens(s)
      /\ CallInFirstThinking => CallInFirstThinking'
  BY SameText, CallStays DEF TypeOK
<1>2. CASE Drop(e)
  BY <1>1, <1>2, SignsSame DEF Drop, Held
<1>3. CASE HoldBack(e)
  <2>1. /\ outer' = [outer EXCEPT !.buffering = TRUE, !.buffer = @ \o e.pieces]
        /\ UNCHANGED <<pending, emitted>> /\ ~Closes(outer.buffer \o e.pieces)
        /\ outer.buffering \/ Opens(e.pieces)
    BY <1>3 DEF HoldBack, Buffered
  <2>2. outer'.buffer = outer.buffer \o e.pieces /\ outer'.thinking = outer.thinking
          /\ outer'.signed = outer.signed
    BY <2>1 DEF TypeOK, OuterType
  <2>3. outer.buffer \in Seq(DOMAIN got) /\ e.pieces \in Seq(DOMAIN got)
    BY DEF Held, Inner, OfChunks
  <2>4. outer.buffer \o e.pieces \in Seq(DOMAIN got)
    BY <2>3, ConcatProperties
  <2>5. Opens(outer.buffer \o e.pieces)
    BY <2>1, <2>3, OpensEither DEF Held
  <2>6. Held'
    BY <1>1, <2>1, <2>2, <2>4, <2>5 DEF Held
  <2> QED BY <1>1, <2>1, <2>2, <2>6, SignsSame
<1> QED BY <1>2, <1>3

\* An event that is no edge, while the reader is in no block of thinking.
LEMMA TakeOutside ==
  ASSUME TypeOK, Signs, Held, Take, ~Thinking, NEW e \in Inner, e = Converted(Head(queue)),
         ~Edge(e)
  PROVE  Signs' /\ Held' /\ ~Thinking' /\ pending' \in Seq(Harmless)
<1>1. /\ pending = <<>> /\ UNCHANGED got
      /\ Drop(e) \/ HoldBack(e) \/ Parse(e) \/ Flush(e) \/ Pass(e)
  BY DEF Take
<1>2. /\ e \in AnEvent /\ e.of # "signature" /\ e.pieces \in Seq(DOMAIN got)
      /\ e.type \notin {"content_block_start", "content_block_stop"}
  BY DEF Inner, OfChunks, Edge
<1>3. e \in Harmless /\ <<e>> \in Seq(Harmless) /\ <<e>> # <<>>
  <2>1. e \in Harmless
    BY <1>2 DEF Harmless
  <2> QED BY <2>1
<1>4. outer \in OuterType /\ outer.buffer \in Seq(Nat) /\ e.pieces \in Seq(Nat)
  BY <1>2 DEF TypeOK, OuterType, AnEvent
<1>5. /\ <<>> \in Seq(DOMAIN got) /\ ~Closes(<<>>) /\ <<>> \in Seq(Harmless)
      /\ \A s : Closes(s)' = Closes(s) /\ Opens(s)' = Opens(s)
  BY <1>1, NothingHeld, SameText
<1>6. CASE Drop(e) \/ HoldBack(e)
  BY <1>1, <1>5, <1>6, TakeSilently
<1>7. CASE Pass(e)
  <2>1. Give(<<e>>, outer)
    BY <1>2, <1>7 DEF Pass, Filtered
  <2>2. /\ Signs' /\ ~Thinking' /\ pending' \in Seq(Harmless)
        /\ outer'.buffer = outer.buffer /\ outer'.buffering = outer.buffering
    BY <1>1, <1>3, <1>4, <2>1, GiveOutside
  <2> QED BY <1>1, <1>5, <2>2 DEF Held
<1>8. CASE Parse(e)
  <2> DEFINE text == outer.buffer \o e.pieces
  <2>1. text \in Seq(Nat)
    BY <1>4, ConcatProperties
  <2>2. PICK found \in Findings(text) : Give(ToolEvents(found), Parsed(text, found))
    BY <1>8 DEF Parse
  <2> HIDE DEF text
  <2> DEFINE made == ToolEvents(found)
             parsed == Parsed(text, found)
  <2>3. made \in Seq(Harmless) /\ made # <<>>
    BY <2>1, FindingType, ToolEventsHarmless
  <2>5. /\ parsed \in OuterType /\ parsed.buffer = <<>> /\ parsed.buffering = FALSE
        /\ parsed.thinking = outer.thinking /\ parsed.signed = outer.signed
    BY <1>4, <2>1, ParsedType
  <2>6. Give(made, parsed)
    BY <2>2
  <2> HIDE DEF made, parsed
  <2>4. /\ Signs' /\ ~Thinking' /\ pending' \in Seq(Harmless)
        /\ outer'.buffer = <<>> /\ outer'.buffering = FALSE
    BY <1>1, <2>3, <2>5, <2>6, GiveOutside
  <2> QED BY <1>1, <1>5, <2>4 DEF Held
<1>9. CASE Flush(e)
  <2>1. PICK found \in Findings(outer.buffer) :
          Give(ToolEvents(found) \o <<e>>, Parsed(outer.buffer, found))
    BY <1>9 DEF Flush
  <2> DEFINE made == ToolEvents(found)
  <2>2. made \in Seq(Harmless) /\ made # <<>>
    BY <1>4, FindingType, ToolEventsHarmless
  <2> HIDE DEF made
  <2>3. made \o <<e>> \in Seq(Harmless) /\ made \o <<e>> # <<>>
    BY <1>3, <2>2, ConcatProperties, ConcatEqualIffEmpty
  <2>4. Give(made \o <<e>>, Parsed(outer.buffer, found))
    BY <2>1 DEF made
  <2>5. /\ Signs' /\ ~Thinking' /\ pending' \in Seq(Harmless)
        /\ outer'.buffer = <<>> /\ outer'.buffering = FALSE
    BY <1>1, <1>4, <2>3, <2>4, ParsedType, GiveOutside
  <2> QED BY <1>1, <1>5, <2>5 DEF Held
<1> QED BY <1>1, <1>6, <1>7, <1>8, <1>9

\* A call that ends in the newest chunk of the first thinking was written there.
LEMMA ThoughtCall ==
  ASSUME TypeOK, Held, OnlyThought, NEW p, p \in {<<>>, <<Len(got)>>}, p \in Seq(DOMAIN got),
         outer.buffering \/ Opens(p), Closes(outer.buffer \o p)
  PROVE  CallInFirstThinking
<1>1. DOMAIN got = 1..Len(got) /\ Len(got) \in Nat
  BY LenProperties DEF TypeOK
<1>2. Closes(p)
  BY ClosesEither DEF Held
<1>3. p = <<Len(got)>>
  BY <1>2, NothingHeld
<1>4. Len(got) \in DOMAIN got
  <2>1. p[1] = Len(got) /\ 1 \in DOMAIN p
    BY <1>3
  <2> QED BY <2>1, ElementOfSeq, LenProperties
<1>5. PICK m \in DOMAIN got : Opens(<<m>>)
  <2>1. Opens(p) => Opens(<<Len(got)>>)
    BY <1>3
  <2>2. Opens(outer.buffer) => \E m \in DOMAIN got : Opens(<<m>>)
    <3> SUFFICES ASSUME Opens(outer.buffer) PROVE \E m \in DOMAIN got : Opens(<<m>>)
      OBVIOUS
    <3>1. PICK i \in DOMAIN outer.buffer : got[outer.buffer[i]].mark \in {"opens", "whole"}
      BY DEF Opens, MarkOf
    <3>2. PICK m \in DOMAIN got : m = outer.buffer[i]
      BY <3>1, ElementOfSeq, LenProperties DEF Held
    <3>3. 1 \in DOMAIN <<m>> /\ <<m>>[1] = m
      OBVIOUS
    <3> QED BY <3>1, <3>2, <3>3 DEF Opens, MarkOf
  <2> QED BY <1>4, <2>1, <2>2 DEF Held
<1> QED BY <1>1, <1>2, <1>3, <1>4, <1>5 DEF OnlyThought, CallInFirstThinking

\* A call in the thinking of a block: what is left of its text goes out, and the
\* stop of block 0, behind a signature if no text is left.
LEMMA ParseInside ==
  ASSUME TypeOK, Signs, Held, UNCHANGED got, NEW e \in Inner, Parse(e),
         e.pieces \in {<<>>, <<Len(got)>>}, OpenBlock(0, "thinking") => OnlyThought
  PROVE  /\ Signs' /\ Held' /\ PendingSound'
         /\ \A n, t : OpenBlock(n, t)' => OpenBlock(n, t)
<1> DEFINE text == outer.buffer \o e.pieces
<1>1. /\ outer \in OuterType /\ outer.buffer \in Seq(Nat) /\ e.pieces \in Seq(Nat)
      /\ e.pieces \in Seq(DOMAIN got)
  BY DEF TypeOK, OuterType, Inner, OfChunks, AnEvent
<1>2. text \in Seq(Nat)
  BY <1>1, ConcatProperties
<1>3. OpenBlock(0, "thinking") => CallInFirstThinking
  BY <1>1, ThoughtCall DEF Parse, Buffered
<1>4. PICK found \in Findings(text) : Give(ToolEvents(found), Parsed(text, found))
  BY DEF Parse
<1> HIDE DEF text
<1> DEFINE made == ToolEvents(found)
           o == Parsed(text, found)
<1>5. /\ o \in OuterType /\ o.thinking = outer.thinking /\ o.signed = outer.signed
      /\ o.buffer = <<>> /\ o.buffering = FALSE
  BY <1>1, <1>2, ParsedType
<1>6. /\ made \in Seq(Harmless) /\ made # <<>>
      /\ IF found.text = <<>> THEN Head(made) = BlockStop(0)
         ELSE /\ Head(made) = Delta(0, "text", found.text)
              /\ Tail(made) # <<>> /\ Head(Tail(made)) = BlockStop(0)
  BY <1>2, FindingType, ToolEventsHarmless
<1>7. Give(made, o)
  BY <1>4
<1> HIDE DEF made, o
<1>8. /\ Head(made) \in Harmless /\ Tail(made) \in Seq(Harmless) /\ made \in Seq(AnEvent)
      /\ Head(made) \in AnEvent /\ Head(made).of # "signature"
  <2>1. Harmless \subseteq AnEvent
    BY DEF Harmless
  <2>2. Head(made) \in Harmless /\ Tail(made) \in Seq(Harmless)
    BY <1>6, HeadTailProperties
  <2> QED BY <1>6, <2>1, <2>2, SeqMonotonic DEF Harmless
<1>9. Signs' /\ Held'
  <2>1. Signs' /\ outer'.buffer = <<>> /\ outer'.buffering = FALSE
    BY <1>5, <1>6, <1>7, <1>8, GiveSigned
  <2>2. <<>> \in Seq(DOMAIN got) /\ ~Closes(<<>>) /\ \A s : Closes(s)' = Closes(s)
    BY NothingHeld, SameText
  <2> QED BY <2>1, <2>2 DEF Held
<1>10. /\ BlockStop(0).type = "content_block_stop" /\ BlockStop(0).index = 0
       /\ BlockStop(0)' = BlockStop(0)
  BY DEF BlockStop, Event
<1>11. CASE found.text = <<>> /\ Unsigned(o, BlockStop(0))
  <2> DEFINE sign == Delta(0, "signature", <<>>)
  <2>1. /\ emitted' = Append(emitted, sign) /\ pending' = made
        /\ outer' = [o EXCEPT !.signed = @ \cup {0}]
    BY <1>6, <1>7, <1>10, <1>11 DEF Give, Emit
  <2>2. sign \in AnEvent /\ sign.type # "content_block_start"
    <3>1. sign \in AnEvent
      BY EmptySeq, EventTypes
    <3> QED BY <3>1 DEF Delta, Event
  <2> HIDE DEF sign
  <2>3. \A n, t : OpenBlock(n, t)' => OpenBlock(n, t)
    BY <2>1, <2>2, NothingStarts
  <2>4. 0 \in outer'.signed
    BY <1>5, <2>1 DEF OuterType
  <2>5. PendingSound'
    BY <1>6, <1>10, <1>11, <2>1, <2>4 DEF PendingSound, Leaves, SafeStop
  <2> QED BY <1>9, <2>3, <2>5
<1>12. CASE found.text = <<>> /\ ~Unsigned(o, BlockStop(0))
  <2>1. emitted' = Append(emitted, BlockStop(0)) /\ pending' = Tail(made)
    BY <1>6, <1>7, <1>12 DEF Give, Emit
  <2>2. BlockStop(0) \in AnEvent /\ emitted \in Seq(AnEvent)
    BY EventTypes DEF TypeOK, EventsTyped
  <2>3. \A n, t : ~OpenBlock(n, t)'
    BY <1>10, <2>1, <2>2, NoneOpen
  <2>4. PendingSound'
    BY <1>8, <2>1, <2>3 DEF PendingSound, Thinking
  <2> QED BY <1>9, <2>3, <2>4
<1>13. CASE found.text # <<>>
  <2> DEFINE d == Delta(0, "text", found.text)
  <2>1. Head(made) = d /\ d.type = "content_block_delta"
    BY <1>6, <1>13 DEF Delta, Event
  <2> HIDE DEF d
  <2>2. emitted' = Append(emitted, d) /\ pending' = Tail(made)
    BY <1>7, <2>1 DEF Give, Emit, Unsigned
  <2>3. \A n, t : OpenBlock(n, t)' => OpenBlock(n, t)
    BY <1>8, <2>1, <2>2, NothingStarts
  <2>4. CallInFirstThinking => CallInFirstThinking'
    BY CallStays DEF TypeOK
  <2>5. SafeStop(0)'
    BY <1>3, <2>3, <2>4 DEF SafeStop
  <2>6. Head(pending') = BlockStop(0) /\ pending' # <<>>
    BY <1>6, <1>13, <2>2
  <2>7. Leaves(Head(pending))'
    BY <1>10, <2>5, <2>6 DEF Leaves, SafeStop
  <2> QED BY <1>8, <1>9, <2>2, <2>3, <2>7 DEF PendingSound
<1> QED BY <1>11, <1>12, <1>13

\* A recent event, in a block of thinking.
LEMMA TakeInside ==
  ASSUME TypeOK, Signs, Held, Take, NEW e \in Inner, e = Converted(Head(queue)),
         ~Edge(e), Recent(e), OpenBlock(0, "thinking") => OnlyThought
  PROVE  /\ Signs' /\ Held' /\ PendingSound'
         /\ \A n, t : OpenBlock(n, t)' => OpenBlock(n, t)
<1>1. /\ pending = <<>> /\ UNCHANGED got
      /\ Drop(e) \/ HoldBack(e) \/ Parse(e) \/ Flush(e) \/ Pass(e)
  BY DEF Take
<1>2. /\ e \in AnEvent /\ e.of # "signature" /\ e.pieces \in {<<>>, <<Len(got)>>}
      /\ e.type \notin {"content_block_start", "content_block_stop"}
  BY DEF Inner, OfChunks, Edge, Recent
<1>3. outer \in OuterType /\ emitted \in Seq(AnEvent)
  BY DEF TypeOK, EventsTyped
<1>4. ~Flush(e)
  BY DEF Flush, Flushing, Recent
<1>5. CASE Drop(e) \/ HoldBack(e)
  <2>1. Signs' /\ Held' /\ pending' = <<>> /\ UNCHANGED emitted
    BY <1>1, <1>5, TakeSilently
  <2>2. \A n, t : OpenBlock(n, t)' = OpenBlock(n, t)
    BY <2>1, SameReader
  <2> QED BY <2>1, <2>2, NothingHeld DEF PendingSound
<1>6. CASE Parse(e)
  BY <1>1, <1>2, <1>6, ParseInside
<1>7. CASE Pass(e)
  <2>1. Give(<<e>>, outer)
    BY <1>2, <1>7 DEF Pass, Filtered
  <2>2. <<e>> \in Seq(AnEvent) /\ <<e>> # <<>> /\ Head(<<e>>) = e /\ Tail(<<e>>) = <<>>
    BY <1>2
  <2>3. Signs' /\ outer'.buffer = outer.buffer /\ outer'.buffering = outer.buffering
    BY <1>1, <1>2, <1>3, <2>1, <2>2, GiveSigned
  <2>4. pending' = <<>> /\ emitted' = Append(emitted, e)
    BY <1>2, <2>1, <2>2 DEF Give, Unsigned, Emit
  <2>5. \A n, t : OpenBlock(n, t)' => OpenBlock(n, t)
    BY <1>2, <2>4, NothingStarts
  <2>6. \A s : Closes(s)' = Closes(s) /\ Opens(s)' = Opens(s)
    BY <1>1, SameText
  <2>7. Held'
    BY <1>1, <2>3, <2>6 DEF Held
  <2> QED BY <2>3, <2>4, <2>5, <2>7, NothingHeld DEF PendingSound
<1> QED BY <1>1, <1>4, <1>5, <1>6, <1>7

\* An edge always passes.
LEMMA TakeEdge ==
  ASSUME TypeOK, Signs, Held, Take, NEW e \in Inner, e = Converted(Head(queue)), Edge(e)
  PROVE  /\ Signs' /\ Held' /\ PendingSound'
         /\ pending' = <<>> \/ e.type = "content_block_stop"
         /\ e.type = "content_block_stop" /\ pending' = <<>> => ~Thinking'
         /\ e.type = "content_block_start" =>
              \A n, t : OpenBlock(n, t)' => n = e.index /\ t = e.of
<1>1. /\ pending = <<>> /\ UNCHANGED got
      /\ Drop(e) \/ HoldBack(e) \/ Parse(e) \/ Flush(e) \/ Pass(e)
  BY DEF Take
<1>2. /\ e \in AnEvent /\ e.of # "signature" /\ e.index \in Nat
      /\ e.type \in {"content_block_start", "content_block_stop"}
  BY DEF Inner, OfChunks, Edge, AnEvent
<1>3. Give(<<e>>, Filtered(e))
  BY <1>1, <1>2 DEF Drop, Dropped, HoldBack, Buffered, IsText, Parse, Flush, Flushing, Pass
<1>4. <<e>> \in Seq(AnEvent) /\ <<e>> # <<>> /\ Head(<<e>>) = e /\ Tail(<<e>>) = <<>>
  BY <1>2
<1>5. /\ Filtered(e) \in OuterType /\ Filtered(e).thinking = outer.thinking
      /\ Filtered(e).signed = outer.signed /\ Filtered(e).buffer = outer.buffer
      /\ Filtered(e).buffering = outer.buffering
  BY <1>2 DEF Filtered, TypeOK, OuterType
<1>6. Signs' /\ Held'
  <2>1. Signs' /\ outer'.buffer = outer.buffer /\ outer'.buffering = outer.buffering
    BY <1>1, <1>2, <1>3, <1>4, <1>5, GiveSigned
  <2>2. \A s : Closes(s)' = Closes(s) /\ Opens(s)' = Opens(s)
    BY <1>1, SameText
  <2> QED BY <1>1, <2>1, <2>2 DEF Held
<1>7. emitted \in Seq(AnEvent)
  BY DEF TypeOK, EventsTyped
<1>8. CASE Unsigned(Filtered(e), e)
  <2>1. /\ emitted' = Append(emitted, Delta(e.index, "signature", <<>>)) /\ pending' = <<e>>
        /\ outer' = [Filtered(e) EXCEPT !.signed = @ \cup {e.index}]
    BY <1>3, <1>4, <1>8 DEF Give, Emit
  <2>2. e.type = "content_block_stop"
    BY <1>8 DEF Unsigned
  <2>3. e.index \in outer'.signed
    BY <1>5, <2>1 DEF OuterType
  <2>4. e \in Harmless
    BY <1>2, <2>2 DEF Harmless
  <2>5. pending' \in Seq(Harmless) /\ pending' # <<>> /\ Head(pending') = e
    BY <2>1, <2>4
  <2>6. PendingSound'
    BY <2>2, <2>3, <2>5 DEF PendingSound, Leaves, SafeStop
  <2> QED BY <1>6, <2>2, <2>5, <2>6
<1>9. CASE ~Unsigned(Filtered(e), e)
  <2>1. emitted' = Append(emitted, e) /\ pending' = <<>>
    BY <1>3, <1>4, <1>9 DEF Give, Emit
  <2>2. e.type = "content_block_stop" => ~Thinking'
    BY <1>2, <2>1, StaysOut
  <2>3. e.type = "content_block_start" =>
          \A n, t : OpenBlock(n, t)' => n = e.index /\ t = e.of
    BY <1>2, <1>7, <2>1, ReadsStart
  <2> QED BY <1>6, <2>1, <2>2, <2>3, NothingHeld DEF PendingSound
<1> QED BY <1>2, <1>8, <1>9

\* The outer layer takes an event of the inner layer.
LEMMA TakeSigned ==
  ASSUME SInv, TypeOK', Take
  PROVE  SInv'
<1> DEFINE h == Head(queue)
           e == Converted(h)
<1>1. /\ TypeOK /\ Signs /\ Held /\ queue \in Seq(Inner)
      /\ Draining \/ Starting(queue) \/ Stopping(queue)
      /\ InnerSound
  BY DEF SInv, Signs, TextSound, Held, QueueSound
<1>2. /\ pending = <<>> /\ queue # <<>> /\ queue' = Tail(queue)
      /\ got' = got /\ upstream' = upstream /\ wrapper' = wrapper
  BY DEF Take
<1>3. /\ \A s : Calm(s)' = Calm(s)
      /\ \A s : EdgeFree(s)' = EdgeFree(s)
      /\ OnlyThought' = OnlyThought
      /\ InThinking' = InThinking /\ Inner' = Inner
  <2>1. InThinking' = InThinking /\ Inner' = Inner
    BY <1>2 DEF InThinking, Inner, OfChunks
  <2> QED BY <1>2, <2>1, SameText
<1>4. h \in Inner /\ queue' \in Seq(Inner)
  BY <1>1, <1>2, HeadTailProperties
<1>5. /\ e \in Inner /\ e.type = h.type /\ e.pieces = h.pieces /\ e.index = h.index
      /\ h.type # "content_block_start" => e = h
      /\ e.of = "thinking" => h.of = "thinking"
  BY <1>4, ConvertedInner
<1>6. EdgeFree(queue) => ~Edge(e) /\ EdgeFree(Tail(queue))
  <2>1. /\ Len(queue) \in Nat /\ DOMAIN queue = 1..Len(queue) /\ Len(queue) # 0
        /\ h = queue[1]
    BY <1>1, <1>2, LenProperties, EmptySeq
  <2>2. /\ DOMAIN Tail(queue) = 1..Len(queue) - 1
        /\ \A i \in 1..Len(queue) - 1 : Tail(queue)[i] = queue[i + 1]
    BY <1>1, <1>2, <2>1, HeadTailProperties, LenProperties
  <2> QED BY <1>5, <2>1, <2>2 DEF EdgeFree, Edge
<1>7. InnerSound'
  BY <1>1, <1>2 DEF InnerSound, Unfinished
<1> HIDE DEF e
<1>8. /\ Signs' /\ Held' /\ PendingSound'
      /\ Draining' \/ Starting(queue)' \/ Stopping(queue)'
  <2>1. CASE Draining /\ ~Thinking
    <3>1. ~Edge(e) /\ EdgeFree(queue)'
      BY <1>2, <1>3, <1>6, <2>1 DEF Draining, EdgeFree, Edge
    <3>2. Signs' /\ Held' /\ ~Thinking' /\ pending' \in Seq(Harmless)
      BY <1>1, <1>5, <2>1, <3>1, TakeOutside DEF e
    <3> QED BY <3>1, <3>2 DEF PendingSound, Draining, EdgeFree, Edge
  <2>2. CASE Draining /\ Thinking
    <3>1. /\ ~Edge(e) /\ InThinking /\ Tail(queue) = <<>> /\ Recent(e)
          /\ OpenBlock(0, "thinking") => OnlyThought
      <4>1. /\ InThinking /\ Calm(queue) /\ EdgeFree(queue)
            /\ OpenBlock(0, "thinking") => OnlyThought
        BY <1>2, <2>2 DEF Draining
      <4>2. Tail(queue) = <<>> /\ Recent(h) /\ ~Edge(e)
        BY <1>2, <1>6, <4>1 DEF Calm
      <4>3. e = h
        BY <1>5, <4>2 DEF Edge
      <4> QED BY <4>1, <4>2, <4>3
    <3>2. /\ Signs' /\ Held' /\ PendingSound'
          /\ \A n, t : OpenBlock(n, t)' => OpenBlock(n, t)
      BY <1>1, <1>5, <3>1, TakeInside DEF e
    <3>3. EdgeFree(queue)' /\ Calm(queue)'
      <4>1. queue' = <<>>
        BY <1>2, <3>1
      <4>2. EdgeFree(Tail(queue))
        BY <1>6, <2>2 DEF Draining
      <4> QED BY <1>2, <4>1, <4>2 DEF EdgeFree, Edge, Calm
    <3>4. Draining'
      BY <1>3, <3>1, <3>2, <3>3 DEF Draining
    <3> QED BY <3>2, <3>4
  <2>3. CASE Starting(queue)
    <3>1. /\ e.type = "content_block_start" /\ Edge(e) /\ EdgeFree(Tail(queue))
          /\ e.of = "thinking" =>
               InThinking /\ Calm(Tail(queue)) /\ (e.index = 0 => OnlyThought)
      BY <1>5, <2>3 DEF Starting, Edge
    <3>2. /\ Signs' /\ Held' /\ PendingSound'
          /\ \A n, t : OpenBlock(n, t)' => n = e.index /\ t = e.of
      BY <1>1, <1>5, <3>1, TakeEdge DEF e
    <3>3. EdgeFree(queue)' /\ (Calm(Tail(queue)) => Calm(queue)')
      <4>1. EdgeFree(queue)'
        BY <1>2, <3>1 DEF EdgeFree, Edge
      <4>2. Calm(Tail(queue)) => Calm(queue)'
        BY <1>2, <1>3 DEF Calm, Recent
      <4> QED BY <4>1, <4>2
    <3>4. /\ Thinking' => e.of = "thinking"
          /\ OpenBlock(0, "thinking")' => e.of = "thinking" /\ e.index = 0
      BY <3>2 DEF Thinking
    <3>5. Draining'
      BY <1>3, <3>1, <3>3, <3>4 DEF Draining
    <3> QED BY <3>2, <3>5
  <2>4. CASE Stopping(queue)
    <3>1. /\ e.type = "content_block_stop" /\ Edge(e)
          /\ EdgeFree(Tail(queue)) \/ Starting(Tail(queue))
      BY <1>5, <2>4 DEF Stopping, Edge
    <3>2. /\ Signs' /\ Held' /\ PendingSound'
          /\ pending' = <<>> => ~Thinking'
      BY <1>1, <1>5, <3>1, TakeEdge DEF e
    <3>3. EdgeFree(Tail(queue)) => Draining'
      <4>1. EdgeFree(Tail(queue)) => EdgeFree(queue)'
        BY <1>2 DEF EdgeFree, Edge
      <4> QED BY <3>2, <4>1 DEF Draining
    <3>4. Starting(Tail(queue)) => Starting(queue)'
      BY <1>2, <1>3 DEF Starting, EdgeFree, Edge, Calm, Recent
    <3>5. Draining' \/ Starting(queue)'
      BY <3>1, <3>3, <3>4, Zenon
    <3> QED BY <3>2, <3>5
  <2> QED BY <1>1, <2>1, <2>2, <2>3, <2>4
<1> QED BY <1>1, <1>2, <1>3, <1>4, <1>7, <1>8 DEF SInv, Signs, TextSound, Held, QueueSound

\* An event that waits goes out.
LEMMA PendingSigned ==
  ASSUME SInv, TypeOK', GivePending
  PROVE  SInv'
<1> DEFINE e == Head(pending)
<1>1. /\ TypeOK /\ Signs /\ PendingSound /\ QueueSound /\ TextSound /\ InnerSound
  BY DEF SInv, Signs
<1>2. /\ emitted' = Append(emitted, e) /\ pending' = Tail(pending) /\ pending # <<>>
      /\ UNCHANGED <<got, upstream, wrapper, queue, outer>>
  BY DEF GivePending, Emit
<1>3. e \in Harmless /\ Tail(pending) \in Seq(Harmless)
  BY <1>1, <1>2, HeadTailProperties DEF PendingSound
<1>4. /\ e \in AnEvent /\ e.of # "signature" /\ e.index \in Nat
      /\ e.type = "content_block_start" => e.of = "tool_use"
      /\ e.type = "content_block_stop" => SafeStop(e.index)
      /\ ~Thinking \/ e.type = "content_block_stop"
  BY <1>1, <1>2, <1>3 DEF Harmless, PendingSound, Leaves, SafeStop, Thinking, AnEvent
<1> HIDE DEF e
<1>5. Signs'
  BY <1>1, <1>2, <1>4, SignsOn
<1>6. ~Thinking'
  BY <1>1, <1>2, <1>4, StaysOut
<1>7. PendingSound'
  BY <1>2, <1>3, <1>6 DEF PendingSound
<1>8. /\ \A s : Closes(s)' = Closes(s) /\ Opens(s)' = Opens(s) /\ Calm(s)' = Calm(s)
      /\ OnlyThought' = OnlyThought
      /\ InThinking' = InThinking /\ Inner' = Inner
  <2>1. InThinking' = InThinking /\ Inner' = Inner
    BY <1>2 DEF InThinking, Inner, OfChunks
  <2> QED BY <1>2, <2>1, SameText
<1>9. QueueSound'
  <2>1. Draining => Draining'
    BY <1>2, <1>6 DEF Draining, EdgeFree, Edge
  <2>2. Starting(queue) => Starting(queue)'
    BY <1>2, <1>8 DEF Starting, EdgeFree, Edge, Calm, Recent
  <2>3. Stopping(queue) => Stopping(queue)'
    BY <1>2, <1>8 DEF Stopping, Starting, EdgeFree, Edge, Calm, Recent
  <2> QED BY <1>1, <1>2, <1>8, <2>1, <2>2, <2>3 DEF QueueSound
<1>10. TextSound'
  BY <1>1, <1>2, <1>8 DEF TextSound
<1>11. InnerSound'
  BY <1>1, <1>2 DEF InnerSound, Unfinished
<1> QED BY <1>5, <1>7, <1>9, <1>10, <1>11 DEF SInv, Signs

\* What a chunk becomes comes from the inner layer and carries no other.
LEMMA ChunkInner ==
  ASSUME NEW c \in Chunk, c.n \in DOMAIN got', got'[c.n] = c, c.n = Len(got'), NEW i \in Nat,
         NEW d, d = Translated(c, i), NEW b, b = StartOf(c, i)
  PROVE  /\ d \in Inner' /\ b \in Inner' /\ ~Edge(d) /\ Recent(d)'
         /\ b.type = "content_block_start" /\ b.of = BlockType(c) /\ b.index = i
<1>1. c \in AnyChunk /\ BlockType(c) \in BlockTypes
  BY ChunkEvents DEF Chunk, AnyChunk
<1>2. d \in OfChunks' /\ b \in OfChunks'
  BY <1>1, ChunkPieces
<1>3. /\ d.type \in {"ping", "content_block_delta"} /\ d.of \in {"", "text", "input_json"}
      /\ d.pieces \in {<<>>, <<c.n>>}
  BY DEF Translated, Chunk, Kind, Ping, Delta, Event
<1>4. b.type = "content_block_start" /\ b.of = BlockType(c) /\ b.index = i
  BY DEF StartOf, BlockStart, Event
<1>5. d \in Inner' /\ b \in Inner' /\ ~Edge(d)
  BY <1>1, <1>2, <1>3, <1>4 DEF Inner, Edge, BlockTypes
<1>6. Recent(d)'
  BY <1>3 DEF Recent
<1> QED BY <1>4, <1>5, <1>6

\* So do the other events.
LEMMA EndsInner ==
  /\ \A i \in Nat : BlockStop(i) \in Inner'
  /\ \A r \in Reasons \cup {""} : MessageDelta(r) \in Inner' /\ ~Edge(MessageDelta(r))
  /\ MessageStop \in Inner' /\ ~Edge(MessageStop)
  /\ MessageStart \in Inner' /\ ~Edge(MessageStart)
<1>1. ASSUME NEW i \in Nat PROVE BlockStop(i) \in Inner'
  <2>1. BlockStop(i) \in OfChunks'
    BY StopPieces
  <2> QED BY <2>1 DEF Inner, BlockStop, Event
<1>2. ASSUME NEW r \in Reasons \cup {""}
      PROVE  MessageDelta(r) \in Inner' /\ ~Edge(MessageDelta(r))
  <2>1. MessageDelta(r) \in AnEvent
    BY EventTypes
  <2>2. MessageDelta(r).pieces = <<>> /\ MessageDelta(r).of # "signature"
          /\ ~Edge(MessageDelta(r))
    BY DEF MessageDelta, Event, Edge, Reasons
  <2>3. MessageDelta(r) \in OfChunks'
    BY <2>1, <2>2, CarriesChunk
  <2> QED BY <2>2, <2>3 DEF Inner
<1>3. MessageStop \in Inner' /\ ~Edge(MessageStop)
  <2>1. MessageStop \in OfChunks'
    BY EndPieces
  <2> QED BY <2>1 DEF Inner, MessageStop, Event, Edge
<1>4. MessageStart \in Inner' /\ ~Edge(MessageStart)
  <2>1. MessageStart \in AnEvent
    BY EventTypes
  <2>2. MessageStart.pieces = <<>> /\ MessageStart.of # "signature" /\ ~Edge(MessageStart)
    BY DEF MessageStart, Event, Edge
  <2>3. MessageStart \in OfChunks'
    BY <2>1, <2>2, CarriesChunk
  <2> QED BY <2>2, <2>3 DEF Inner
<1> QED BY <1>1, <1>2, <1>3, <1>4

\* While the layers wait, or before they begin, nothing is on its way, and the
\* reader is in a block of thinking only if the inner layer is, in the first one
\* only if the provider has sent nothing else.
LEMMA WaitsCalm ==
  ASSUME SInv, Waiting \/ ~wrapper.firstSent
  PROVE  /\ queue = <<>> /\ pending = <<>>
         /\ Thinking => InThinking /\ (OpenBlock(0, "thinking") => OnlyThought)
<1>1. queue = <<>> /\ pending = <<>>
  BY DEF SInv, InnerSound, Waiting
<1>2. Draining
  BY <1>1 DEF SInv, QueueSound, Starting, Stopping
<1> QED BY <1>1, <1>2 DEF Draining

\* What comes in next leaves the reader where it is.
LEMMA ComesIn ==
  ASSUME SInv, TypeOK', Waiting \/ ~wrapper.firstSent,
         UNCHANGED <<outer, pending, emitted>>, TextSound', InnerSound',
         UNCHANGED got \/ \E c \in Chunk : got' = Append(got, c),
         queue' \in Seq(Inner'),
         \/ EdgeFree(queue)' /\ (Thinking =>
           InThinking' /\ Calm(queue)' /\ (OpenBlock(0, "thinking") => OnlyThought'))
         \/ Starting(queue)' \/ Stopping(queue)'
  PROVE  SInv'
<1>1. pending = <<>>
  BY WaitsCalm
<1>2. Signs' /\ Thinking' = Thinking
  <2>1. CallInFirstThinking => CallInFirstThinking'
    BY CallStays DEF SInv, TypeOK
  <2> QED BY <2>1, SignsSame DEF SInv, Signs
<1>3. PendingSound'
  BY <1>1, NothingHeld DEF PendingSound
<1>4. \A n, t : OpenBlock(n, t)' = OpenBlock(n, t)
  BY SameReader
<1>5. QueueSound'
  <2>1. EdgeFree(queue)' /\ (Thinking =>
           InThinking' /\ Calm(queue)' /\ (OpenBlock(0, "thinking") => OnlyThought'))
          => Draining'
    BY <1>2, <1>4 DEF Draining
  <2> QED BY <2>1 DEF QueueSound
<1> QED BY <1>2, <1>3, <1>5 DEF SInv, Signs

\* The end of the stream: no edge, and the inner layer is in no block.
LEMMA ComesLast ==
  ASSUME SInv, TypeOK', Waiting, upstream # "content",
         UNCHANGED <<got, outer, pending, emitted>>, InnerSound',
         queue' = <<>> \/ (\E d \in Inner' : ~Edge(d) /\ queue' = <<d>>)
           \/ (\E d, f \in Inner' : ~Edge(d) /\ ~Edge(f) /\ queue' = <<d, f>>)
  PROVE  SInv'
<1>1. ~Thinking
  <2>1. ~InThinking
    BY DEF SInv, InnerSound, InThinking
  <2> QED BY <2>1, WaitsCalm
<1>2. queue' \in Seq(Inner') /\ EdgeFree(queue)'
  <2>1. CASE queue' = <<>>
    <3>1. <<>> \in Seq(Nat) /\ Len(<<>>) = 0
      BY EmptySeq
    <3>2. DOMAIN queue' = {}
      BY <2>1, <3>1, LenProperties
    <3> QED BY <2>1, <3>2, EmptySeq DEF EdgeFree
  <2>2. CASE \E d \in Inner' : ~Edge(d) /\ queue' = <<d>>
    <3>1. PICK d \in Inner' : ~Edge(d) /\ queue' = <<d>>
      BY <2>2
    <3>2. queue' \in Seq(Inner') /\ DOMAIN queue' = {1} /\ queue'[1] = d
      BY <3>1
    <3> QED BY <3>1, <3>2 DEF EdgeFree, Edge
  <2>3. CASE \E d, f \in Inner' : ~Edge(d) /\ ~Edge(f) /\ queue' = <<d, f>>
    <3>1. PICK d \in Inner', f \in Inner' : ~Edge(d) /\ ~Edge(f) /\ queue' = <<d, f>>
      BY <2>3
    <3>2. queue' \in Seq(Inner') /\ DOMAIN queue' = {1, 2} /\ queue'[1] = d /\ queue'[2] = f
      BY <3>1
    <3> QED BY <3>1, <3>2 DEF EdgeFree, Edge
  <2> QED BY <2>1, <2>2, <2>3
<1>3. TextSound'
  <2>1. \A s : Closes(s)' = Closes(s) /\ Opens(s)' = Opens(s)
    BY SameText
  <2> QED BY <2>1 DEF SInv, TextSound
<1> QED BY <1>1, <1>2, <1>3, ComesIn

LEMMA StartSigned ==
  ASSUME SInv, TypeOK', StartMessage
  PROVE  SInv'
<1>1. /\ queue' = <<MessageStart>> /\ wrapper' = [wrapper EXCEPT !.firstSent = TRUE]
      /\ UNCHANGED <<got, upstream, outer, pending, emitted>> /\ ~wrapper.firstSent
  BY DEF StartMessage
<1>2. ~Thinking
  <2>1. ~InThinking
    BY <1>1 DEF SInv, InnerSound, InThinking
  <2> QED BY <1>1, <2>1, WaitsCalm
<1>3. PICK d \in Inner' : d = MessageStart /\ ~Edge(d)
  BY EndsInner
<1>4. queue' \in Seq(Inner') /\ EdgeFree(queue)'
  <2>1. queue' \in Seq(Inner') /\ DOMAIN queue' = {1} /\ queue'[1] = d
    BY <1>1, <1>3
  <2> QED BY <1>3, <2>1 DEF EdgeFree, Edge
<1>5. TextSound'
  <2>1. \A s : Closes(s)' = Closes(s) /\ Opens(s)' = Opens(s)
    BY <1>1, SameText
  <2> QED BY <1>1, <2>1 DEF SInv, TextSound
<1>6. InnerSound'
  <2>1. /\ wrapper'.firstSent /\ wrapper'.blockStarted = wrapper.blockStarted
        /\ wrapper'.blockFinished = wrapper.blockFinished
        /\ wrapper'.holding = wrapper.holding /\ wrapper'.usageQueued = wrapper.usageQueued
    BY <1>1 DEF SInv, TypeOK, WrapperType
  <2> QED BY <1>1, <2>1 DEF SInv, InnerSound, Unfinished
<1> QED BY <1>1, <1>2, <1>4, <1>5, <1>6, ComesIn

\* The end of the stream, and what was held back for it.
LEMMA EndSigned ==
  ASSUME SInv, TypeOK', ReceiveEnd
  PROVE  SInv'
<1>1. /\ Waiting /\ upstream \in {"finished", "used"} /\ upstream' = "ended"
      /\ queue' = Leftover /\ wrapper' = [wrapper EXCEPT !.holding = "none"]
      /\ UNCHANGED <<got, outer, pending, emitted>>
  BY DEF ReceiveEnd
<1>2. /\ wrapper'.firstSent = wrapper.firstSent /\ wrapper'.blockStarted = wrapper.blockStarted
      /\ wrapper'.blockFinished = wrapper.blockFinished /\ wrapper.firstSent
      /\ wrapper.holding \in Reasons \cup {"none"}
  BY <1>1 DEF SInv, TypeOK, WrapperType, Waiting
<1>3. InnerSound'
  BY <1>1, <1>2 DEF SInv, InnerSound
<1>4. PICK f \in Inner' : f = MessageStop /\ ~Edge(f)
  BY EndsInner
<1>5. CASE ~wrapper.usageQueued /\ wrapper.holding # "none"
  <2>1. PICK d \in Inner' : d = MessageDelta(wrapper.holding) /\ ~Edge(d)
    BY <1>2, <1>5, EndsInner
  <2>2. queue' = <<d>> \o <<f>>
    BY <1>1, <1>4, <1>5, <2>1 DEF Leftover
  <2>3. queue' = <<d, f>>
    BY <2>2, TwoOf
  <2> QED BY <1>1, <1>3, <1>4, <2>1, <2>3, ComesLast
<1>6. CASE ~(~wrapper.usageQueued /\ wrapper.holding # "none")
  <2>1. queue' = <<>> \o <<f>>
    BY <1>1, <1>4, <1>6 DEF Leftover
  <2>2. queue' = <<f>>
    <3>1. <<f>> \in Seq({f})
      OBVIOUS
    <3> QED BY <2>1, <3>1, ConcatEmptySeq
  <2> QED BY <1>1, <1>3, <1>4, <2>2, ComesLast
<1> QED BY <1>5, <1>6

\* The usage that follows the reason.
LEMMA UsageSigned ==
  ASSUME SInv, TypeOK', ReceiveUsage
  PROVE  SInv'
<1>1. /\ Waiting /\ upstream = "finished" /\ upstream' = "used" /\ Process(Usage)
      /\ UNCHANGED <<got, outer, pending, emitted>>
  BY DEF ReceiveUsage
<1>2. /\ wrapper.firstSent /\ queue = <<>> /\ wrapper \in WrapperType
      /\ wrapper.blockStarted => wrapper.blockFinished
  BY <1>1 DEF SInv, InnerSound, TypeOK, Waiting
<1>3. Usage.kind = "usage" /\ ~HasActualContent(Usage) /\ ~ShouldStartNewBlock(Usage)
  BY DEF Usage, HasActualContent, ShouldStartNewBlock
<1>4. CASE ~wrapper.blockStarted
  <2>1. UNCHANGED <<wrapper, queue>>
    BY <1>1, <1>3, <1>4 DEF Process
  <2>2. InnerSound'
    BY <1>1, <1>2, <1>4, <2>1 DEF SInv, InnerSound
  <2> QED BY <1>1, <1>2, <2>1, <2>2, ComesLast
<1>5. CASE wrapper.blockStarted
  <2> DEFINE w == NewWrapper(Usage)
  <2>1. Translate(Usage)
    BY <1>1, <1>5 DEF Process
  <2>2. /\ w \in WrapperType /\ w.firstSent = wrapper.firstSent
        /\ w.blockStarted = wrapper.blockStarted /\ w.blockFinished = wrapper.blockFinished
        /\ w.holding = wrapper.holding /\ w.holding \in Reasons \cup {"none"}
    BY <1>2, <1>3 DEF NewWrapper, NewIndex, WrapperType
  <2>3. Translated(Usage, NewIndex(Usage)) = MessageDelta("")
    BY <1>3 DEF Translated
  <2>4. \/ /\ w.holding # "none" /\ queue' = <<MessageDelta(w.holding)>>
           /\ wrapper' = [w EXCEPT !.usageQueued = TRUE, !.holding = "none"]
        \/ wrapper' = w /\ queue' = queue
        \/ wrapper' = w /\ queue' = <<MessageDelta("")>>
    BY <1>2, <1>3, <1>5, <2>1, <2>2, <2>3, TranslateCases
  <2>5. /\ w.holding # "none" => MessageDelta(w.holding) \in Inner' /\ ~Edge(MessageDelta(w.holding))
        /\ MessageDelta("") \in Inner' /\ ~Edge(MessageDelta(""))
    BY <2>2, EndsInner
  <2> HIDE DEF w
  <2>6. wrapper'.firstSent /\ wrapper'.blockFinished /\ wrapper'.blockStarted
    BY <1>2, <1>5, <2>2, <2>4 DEF WrapperType
  <2>7. InnerSound'
    BY <1>1, <2>6 DEF InnerSound
  <2>8. queue' = <<>> \/ \E d \in Inner' : ~Edge(d) /\ queue' = <<d>>
    BY <1>2, <2>4, <2>5
  <2> QED BY <1>1, <2>7, <2>8, ComesLast
<1> QED BY <1>4, <1>5

\* The finish chunk stops the block the inner layer is in.
LEMMA FinishSigned ==
  ASSUME SInv, TypeOK', ReceiveFinish
  PROVE  SInv'
<1>1. /\ Waiting /\ upstream = "content" /\ upstream' = "finished" /\ Process(Finish)
      /\ UNCHANGED <<got, outer, pending, emitted>>
  BY DEF ReceiveFinish
<1>2. /\ wrapper.firstSent /\ queue = <<>> /\ wrapper \in WrapperType /\ Unfinished
      /\ wrapper.index \in Nat
  BY <1>1 DEF SInv, InnerSound, TypeOK, Waiting, WrapperType
<1>3. Finish.kind = "finish" /\ ~HasActualContent(Finish) /\ ~ShouldStartNewBlock(Finish)
  BY DEF Finish, HasActualContent, ShouldStartNewBlock
<1>4. TextSound'
  <2>1. \A s : Closes(s)' = Closes(s) /\ Opens(s)' = Opens(s)
    BY <1>1, SameText
  <2> QED BY <1>1, <2>1 DEF SInv, TextSound
<1>5. CASE ~wrapper.blockStarted
  <2>1. UNCHANGED <<wrapper, queue>>
    BY <1>1, <1>3, <1>5 DEF Process
  <2>2. InnerSound'
    BY <1>1, <1>2, <1>5, <2>1 DEF SInv, InnerSound
  <2>3. ~Thinking
    <3>1. ~InThinking
      BY <1>5 DEF InThinking
    <3> QED BY <1>1, <3>1, WaitsCalm
  <2>4. queue' \in Seq(Inner') /\ EdgeFree(queue)'
    <3>1. <<>> \in Seq(Nat) /\ Len(<<>>) = 0
      BY EmptySeq
    <3>2. DOMAIN queue' = {}
      BY <1>2, <2>1, <3>1, LenProperties
    <3> QED BY <1>2, <2>1, <3>2, EmptySeq DEF EdgeFree
  <2> QED BY <1>1, <1>4, <2>2, <2>3, <2>4, ComesIn
<1>6. CASE wrapper.blockStarted
  <2>1. Translate(Finish)
    BY <1>1, <1>6 DEF Process
  <2>2. PICK i \in Nat : i = wrapper.index
    BY <1>2
  <2>3. /\ Translated(Finish, i).type = "message_delta"
        /\ Translated(Finish, i).of # ""
    BY <1>3 DEF Translated, MessageDelta, Event, StopReason
  <2>4. queue' = <<BlockStop(i)>>
    BY <1>2, <1>3, <2>1, <2>2, <2>3 DEF Translate, Unfinished, Closed, WrapperType
  <2>5. wrapper'.firstSent /\ wrapper'.blockFinished /\ wrapper'.blockStarted
    BY <1>2, <1>3, <1>6, <2>1, <2>2, <2>3 DEF Translate, Unfinished, WrapperType
  <2>6. InnerSound'
    BY <1>1, <2>5 DEF InnerSound
  <2>7. PICK d \in Inner' : d = BlockStop(i)
    BY EndsInner
  <2>8. /\ queue' = <<d>> /\ queue' \in Seq(Inner')
        /\ d.type = "content_block_stop"
    <3>1. d.type = "content_block_stop"
      BY <2>7 DEF BlockStop, Event
    <3> QED BY <2>4, <2>7, <3>1
  <2>9. Stopping(queue)'
    <3>1. queue' # <<>> /\ Head(queue') = d /\ Tail(queue') = <<>>
      BY <2>8
    <3>2. EdgeFree(Tail(queue))'
      <4>1. <<>> \in Seq(Nat) /\ Len(<<>>) = 0
        BY EmptySeq
      <4>2. DOMAIN Tail(queue') = {}
        BY <3>1, <4>1, LenProperties
      <4> QED BY <4>2 DEF EdgeFree
    <3> QED BY <2>8, <3>1, <3>2 DEF Stopping
  <2> QED BY <1>1, <1>4, <2>6, <2>8, <2>9, ComesIn
<1> QED BY <1>5, <1>6

\* What was held back stays text that came.
LEMMA TextStays ==
  ASSUME SInv, NEW c \in Chunk, got' = Append(got, c), UNCHANGED outer
  PROVE  /\ TextSound' /\ Len(got) + 1 \in DOMAIN got' /\ got'[Len(got) + 1] = c
         /\ Len(got') = Len(got) + 1 /\ DOMAIN got' = DOMAIN got \cup {Len(got) + 1}
         /\ \A j \in DOMAIN got : got'[j] = got[j]
<1>1. got \in Seq(Chunk) /\ TextSound
  BY DEF SInv, TypeOK
<1>2. /\ DOMAIN got = 1..Len(got) /\ DOMAIN got' = 1..Len(got) + 1 /\ Len(got) \in Nat
      /\ \A j \in 1..Len(got) : got'[j] = got[j]
      /\ got'[Len(got) + 1] = c /\ Len(got') = Len(got) + 1
  <2>1. /\ got' \in Seq(Chunk) /\ Len(got') = Len(got) + 1
        /\ \A j \in 1..Len(got) : got'[j] = got[j]
        /\ got'[Len(got) + 1] = c
    BY <1>1, AppendProperties
  <2> QED BY <1>1, <2>1, LenProperties
<1>3. DOMAIN got \subseteq DOMAIN got' /\ outer.buffer \in Seq(DOMAIN got)
  BY <1>1, <1>2 DEF TextSound
<1>4. outer'.buffer \in Seq(DOMAIN got')
  BY <1>3, SeqMonotonic
<1>5. MarkOf(outer.buffer)' = MarkOf(outer.buffer)
  <2>1. \A j \in DOMAIN outer.buffer : outer.buffer[j] \in 1..Len(got)
    BY <1>2, <1>3, ElementOfSeq, LenProperties
  <2>2. \A j \in DOMAIN outer.buffer : got'[outer.buffer[j]] = got[outer.buffer[j]]
    BY <1>2, <2>1
  <2> QED BY <2>2 DEF MarkOf
<1>6. TextSound'
  BY <1>1, <1>4, <1>5 DEF TextSound, Closes, Opens
<1> QED BY <1>2, <1>6

\* A chunk of the provider's: the start of a block of thinking comes before
\* what goes into it, and after the stop of the block before.
LEMMA ContentSigned ==
  ASSUME SInv, TypeOK', NEW kind \in Kind, NEW mark \in Mark \cup {"plain"},
         ReceiveContent(kind, mark)
  PROVE  SInv'
<1>0. got \in Seq(Chunk) /\ Len(got) \in Nat
  BY LenProperties DEF SInv, TypeOK
<1>1. PICK c \in Chunk : c = NextChunk(kind, mark)
  <2>1. NextChunk(kind, mark) \in Chunk
    BY <1>0 DEF NextChunk, Chunk
  <2> QED BY <2>1
<1>2. /\ Waiting /\ upstream = "content"
      /\ UNCHANGED <<upstream, outer, pending, emitted>>
      /\ got' = Append(got, c) /\ Process(c)
      /\ c.n = Len(got) + 1
  BY <1>1 DEF ReceiveContent, NextChunk
<1>3. /\ wrapper.firstSent /\ queue = <<>> /\ wrapper \in WrapperType /\ Unfinished
      /\ wrapper.index \in Nat
  BY <1>2 DEF SInv, InnerSound, TypeOK, Waiting, WrapperType
<1>4. /\ TextSound' /\ c.n \in DOMAIN got' /\ got'[c.n] = c /\ c.n = Len(got')
      /\ DOMAIN got' = DOMAIN got \cup {c.n} /\ \A j \in DOMAIN got : got'[j] = got[j]
  BY <1>2, TextStays
<1>5. /\ BlockType(c) = "thinking" => c.kind \in {"thinking", "signature"}
      /\ ~HasActualContent(c) => c.kind = "blank"
  BY DEF BlockType, HasActualContent, Chunk, Kind
<1>20. /\ OnlyThought /\ c.kind \in {"thinking", "signature", "blank"} => OnlyThought'
       /\ (\A m \in DOMAIN got : got[m].kind = "blank") /\ c.kind = "blank"
            => \A m \in DOMAIN got' : got'[m].kind = "blank"
  BY <1>4 DEF OnlyThought
<1>6. \A s : s = <<>> \/ (\E d : s = <<d>> /\ ~Edge(d)) => EdgeFree(s)'
  <2>1. <<>> \in Seq(Nat) /\ Len(<<>>) = 0
    BY EmptySeq
  <2>2. DOMAIN <<>> = {}
    BY <2>1, LenProperties
  <2>3. \A d : DOMAIN <<d>> = {1} /\ <<d>>[1] = d
    OBVIOUS
  <2> QED BY <2>2, <2>3 DEF EdgeFree, Edge
<1>7. \A s : s = <<>> \/ (\E d : s = <<d>> /\ Recent(d)') => Calm(s)'
  <2>1. ASSUME NEW d, Recent(d)' PROVE Calm(<<d>>)'
    <3>1. Head(<<d>>) = d /\ Tail(<<d>>) = <<>>
      OBVIOUS
    <3> QED BY <2>1, <3>1 DEF Calm, Recent
  <2> QED BY <2>1 DEF Calm
<1>8. CASE ~wrapper.blockStarted /\ ~HasActualContent(c)
  <2>1. UNCHANGED <<wrapper, queue>>
    BY <1>2, <1>8 DEF Process
  <2>2. InnerSound'
    BY <1>2, <1>3, <1>5, <1>8, <1>20, <2>1 DEF SInv, InnerSound, Unfinished
  <2>3. ~Thinking
    <3>1. ~InThinking
      BY <1>8 DEF InThinking
    <3> QED BY <1>2, <3>1, WaitsCalm
  <2>4. queue' \in Seq(Inner') /\ EdgeFree(queue)'
    BY <1>3, <1>6, <2>1, EmptySeq
  <2> QED BY <1>2, <1>4, <2>2, <2>3, <2>4, ComesIn
<1>9. CASE ~wrapper.blockStarted /\ HasActualContent(c)
  <2>1. PICK d, b : d = Translated(c, wrapper.index) /\ b = StartOf(c, wrapper.index)
    OBVIOUS
  <2>2. /\ d \in Inner' /\ b \in Inner' /\ ~Edge(d)
        /\ b.type = "content_block_start" /\ b.of = BlockType(c)
        /\ Recent(d)'
    <3>1. c.n \in DOMAIN got' /\ got'[c.n] = c /\ c.n = Len(got')
      BY <1>4
    <3> QED BY <1>3, <2>1, <3>1, ChunkInner
  <2>3. /\ wrapper' = [wrapper EXCEPT !.blockStarted = TRUE, !.blockType = BlockType(c)]
        /\ queue' = <<b, d>>
    BY <1>2, <1>9, <2>1 DEF Process
  <2>4. InnerSound' /\ (BlockType(c) = "thinking" => InThinking')
    BY <1>2, <1>3, <2>3 DEF InnerSound, Unfinished, InThinking, WrapperType
  <2>5. queue' \in Seq(Inner') /\ queue' # <<>> /\ Head(queue') = b /\ Tail(queue') = <<d>>
    BY <2>2, <2>3
  <2>6. BlockType(c) = "thinking" => OnlyThought'
    <3>1. OnlyThought
      BY <1>9 DEF SInv, InnerSound, OnlyThought
    <3> QED BY <1>5, <1>20, <3>1
  <2>7. EdgeFree(<<d>>)' /\ Calm(<<d>>)'
    BY <1>6, <1>7, <2>2
  <2>8. Starting(queue)'
    BY <2>2, <2>4, <2>5, <2>6, <2>7 DEF Starting
  <2> QED BY <1>2, <1>4, <2>4, <2>5, <2>8, ComesIn
<1>10. CASE wrapper.blockStarted /\ ShouldStartNewBlock(c)
  <2>1. PICK i \in Nat : i = wrapper.index + 1
    BY <1>3
  <2>2. PICK d, b, s : d = Translated(c, i) /\ b = StartOf(c, i) /\ s = BlockStop(i - 1)
    OBVIOUS
  <2>3. /\ d \in Inner' /\ b \in Inner' /\ ~Edge(d)
        /\ b.type = "content_block_start" /\ b.of = BlockType(c) /\ b.index # 0
        /\ Recent(d)'
    <3>1. c.n \in DOMAIN got' /\ got'[c.n] = c /\ c.n = Len(got')
      BY <1>4
    <3>2. b.index = i /\ i # 0
      BY <1>3, <2>1, <2>2 DEF StartOf, BlockStart, Event
    <3> QED BY <2>2, <3>1, <3>2, ChunkInner
  <2>4. s \in Inner' /\ s.type = "content_block_stop"
    <3>1. i - 1 \in Nat
      BY <1>3, <2>1
    <3>2. s.type = "content_block_stop"
      BY <2>2 DEF BlockStop, Event
    <3> QED BY <2>2, <3>1, <3>2, EndsInner
  <2>5. /\ queue' = Switched(c, i)
        /\ wrapper' = [wrapper EXCEPT !.index = i, !.blockType = BlockType(c)]
    BY <1>2, <1>3, <1>10, <2>1 DEF Process, Translate, Unfinished, WrapperType
  <2>6. InnerSound' /\ (BlockType(c) = "thinking" => InThinking')
    BY <1>2, <1>3, <1>10, <2>5 DEF InnerSound, Unfinished, InThinking, WrapperType
  <2>7. /\ queue' # <<>> /\ Head(queue') = s
        /\ Tail(queue') # <<>> /\ Head(Tail(queue')) = b
        /\ Tail(Tail(queue')) = IF IsDelta(d) THEN <<d>> ELSE <<>>
    BY <2>2, <2>5, SwitchedShape
  <2>8. queue' \in Seq(Inner')
    <3>1. <<s, b>> \in Seq(Inner') /\ <<d>> \in Seq(Inner') /\ <<>> \in Seq(Inner')
      BY <2>3, <2>4, EmptySeq
    <3>2. queue' = <<s, b>> \o (IF IsDelta(d) THEN <<d>> ELSE <<>>)
      BY <2>2, <2>5 DEF Switched, IsDelta
    <3> QED BY <3>1, <3>2, ConcatProperties
  <2>9. Starting(Tail(queue))'
    <3>1. EdgeFree(Tail(Tail(queue)))' /\ Calm(Tail(Tail(queue)))'
      <4>1. \A q : (q = <<>> \/ q = <<d>>) => EdgeFree(q)' /\ Calm(q)'
        BY <1>6, <1>7, <2>3
      <4> QED BY <2>7, <4>1
    <3> QED BY <2>3, <2>6, <2>7, <3>1 DEF Starting
  <2>10. Stopping(queue)'
    BY <2>4, <2>7, <2>9 DEF Stopping
  <2> QED BY <1>2, <1>4, <2>6, <2>8, <2>10, ComesIn
<1>11. CASE wrapper.blockStarted /\ ~ShouldStartNewBlock(c)
  <2>1. PICK i \in Nat : i = wrapper.index
    BY <1>3
  <2>2. PICK d, b : d = Translated(c, i) /\ b = StartOf(c, i)
    OBVIOUS
  <2>3. d \in Inner' /\ ~Edge(d) /\ Recent(d)'
    <3>1. c.n \in DOMAIN got' /\ got'[c.n] = c /\ c.n = Len(got')
      BY <1>4
    <3> QED BY <2>2, <3>1, ChunkInner
  <2>4. d.type # "message_delta" /\ c.kind # "usage"
    <3>1. c.kind \in Kind
      BY DEF Chunk
    <3> QED BY <2>2, <3>1 DEF Translated, Kind, Ping, Delta, Event
  <2>5. /\ queue' = <<d>>
        /\ wrapper' = [wrapper EXCEPT !.index = i, !.blockType = wrapper.blockType]
    BY <1>2, <1>3, <1>11, <2>1, <2>2, <2>4 DEF Process, Translate, Unfinished, WrapperType
  <2>6. InnerSound' /\ InThinking' = InThinking
    BY <1>2, <1>3, <1>11, <2>5 DEF InnerSound, Unfinished, InThinking, WrapperType
  <2>7. queue' \in Seq(Inner') /\ EdgeFree(queue)'
    BY <1>6, <2>3, <2>5
  <2>8. Thinking =>
        InThinking' /\ Calm(queue)' /\ (OpenBlock(0, "thinking") => OnlyThought')
    <3>1. Thinking => InThinking /\ (OpenBlock(0, "thinking") => OnlyThought)
      BY <1>2, WaitsCalm
    <3>2. InThinking => c.kind \in {"thinking", "signature", "blank"}
      BY <1>5, <1>11 DEF InThinking, ShouldStartNewBlock
    <3>3. Calm(queue)'
      BY <1>7, <2>3, <2>5
    <3> QED BY <1>20, <2>6, <3>1, <3>2, <3>3
  <2> QED BY <1>2, <1>4, <2>6, <2>7, <2>8, ComesIn
<1> QED BY <1>8, <1>9, <1>10, <1>11

\* Nothing but the handler changes.
LEMMA HandlerSigned ==
  ASSUME SInv, TypeOK',
         UNCHANGED <<got, upstream, wrapper, queue, outer, pending, emitted>>
  PROVE  SInv'
<1>1. /\ \A q : /\ Closes(q)' = Closes(q) /\ Opens(q)' = Opens(q)
             /\ Calm(q)' = Calm(q) /\ EdgeFree(q)' = EdgeFree(q)
      /\ OnlyThought' = OnlyThought /\ InThinking' = InThinking /\ Inner' = Inner
      /\ CallInFirstThinking' = CallInFirstThinking
  <2>1. InThinking' = InThinking /\ Inner' = Inner
    BY DEF InThinking, Inner, OfChunks
  <2>2. CallInFirstThinking' = CallInFirstThinking
    BY DEF CallInFirstThinking, Opens, Closes, MarkOf
  <2> QED BY <2>1, <2>2, SameText
<1>2. Signs' /\ Thinking' = Thinking
  BY <1>1, SignsSame DEF SInv, Signs
<1>3. \A n, t : OpenBlock(n, t)' = OpenBlock(n, t)
  BY SameReader
<1>4. PendingSound'
  BY <1>2, <1>1, <1>3 DEF SInv, PendingSound, Leaves, SafeStop
<1>5. QueueSound'
  <2>1. Draining => Draining'
    BY <1>2, <1>1, <1>3 DEF Draining
  <2>2. \A q : Starting(q)' = Starting(q)
    BY <1>1 DEF Starting
  <2>3. Stopping(queue)' = Stopping(queue)
    BY <1>1, <2>2 DEF Stopping
  <2> QED BY <1>1, <2>1, <2>2, <2>3 DEF SInv, QueueSound
<1>6. TextSound'
  BY <1>1 DEF SInv, TextSound
<1>7. InnerSound'
  BY DEF SInv, InnerSound, Unfinished
<1> QED BY <1>2, <1>4, <1>5, <1>6, <1>7 DEF SInv, Signs

\* Which blocks were signed, and what may still come before a block of
\* thinking is stopped, is invariant whatever the text says.
THEOREM SignatureInvariance == Spec => []SInv
<1>1. Init => SInv
  <2> SUFFICES ASSUME Init PROVE SInv
    OBVIOUS
  <2>1. TypeOK
    BY EmptySeq DEF Init, TypeOK, WrapperType, OuterType, EventsTyped, BlockTypes
  <2>2. /\ emitted = <<>> /\ DOMAIN emitted = {} /\ queue = <<>> /\ pending = <<>>
        /\ DOMAIN got = {} /\ DOMAIN queue = {}
    <3>1. <<>> \in Seq(Nat) /\ Len(<<>>) = 0
      BY EmptySeq
    <3>2. DOMAIN <<>> = {}
      BY <3>1, LenProperties
    <3> QED BY <3>2 DEF Init
  <2>3. \A n, t : ~OpenBlock(n, t)
    BY <2>2 DEF OpenBlock
  <2>4. Signs
    BY <2>2, <2>3 DEF Init, Signs, SignedThinking, SignedOnce, ThinkingKnown, Signatures
  <2>5. PendingSound /\ TextSound
    BY <2>2, NothingHeld DEF Init, PendingSound, TextSound
  <2>6. QueueSound
    BY <2>2, <2>3, EmptySeq DEF QueueSound, Draining, EdgeFree, Thinking
  <2>7. InnerSound
    BY <2>2 DEF Init, InnerSound, Unfinished
  <2> QED BY <2>1, <2>4, <2>5, <2>6, <2>7 DEF SInv, Signs
<1>2. SInv /\ [Next]_vars => SInv'
  <2> SUFFICES ASSUME SInv, [Next]_vars PROVE SInv'
    OBVIOUS
  <2>1. TypeOK'
    BY NextTypes DEF SInv
  <2>2. CASE StartMessage
    BY <2>1, <2>2, StartSigned
  <2>3. ASSUME NEW kind \in Kind, NEW mark \in Mark \cup {"plain"}, ReceiveContent(kind, mark)
        PROVE  SInv'
    BY <2>1, <2>3, ContentSigned
  <2>4. CASE ReceiveFinish \/ ReceiveUsage \/ ReceiveEnd
    BY <2>1, <2>4, FinishSigned, UsageSigned, EndSigned
  <2>5. CASE Take \/ GivePending
    BY <2>1, <2>5, TakeSigned, PendingSigned
  <2>6. CASE ReceiveError \/ Timeout \/ Stop \/ UNCHANGED vars
    <3>1. UNCHANGED <<got, upstream, wrapper, queue, outer, pending, emitted>>
      BY <2>6 DEF ReceiveError, Timeout, Stop, vars
    <3> QED BY <2>1, <3>1, HandlerSigned
  <2> QED BY <2>2, <2>3, <2>4, <2>5, <2>6 DEF Next
<1> QED BY <1>1, <1>2, PTL DEF Spec

\* A block of thinking has exactly one signature when it is stopped, for any
\* text, also one in which tool calls are recognised around the block.  Only the
\* first block, with a call written in its thinking, may have none.
THEOREM SignedCorrect == Spec => []SignedThinking
<1>1. SInv => SignedThinking
  BY DEF SInv, Signs
<1> QED BY <1>1, SignatureInvariance, PTL

----------------------------------------------------------------------------
(* Nothing that was sent is lost                                           *)

\* The events that were given out or will be.
OnTheWay == Range(emitted) \cup Range(pending) \cup Range(queue)

\* What a reader must get is on its way, or is text that is held back, or was
\* taken out of a text for good.
Kept ==
  \A i \in DOMAIN got :
    Carries(i) => \/ i \in Range(outer.buffer) \/ i \in outer.lost
                  \/ \E e \in OnTheWay : Bears(e, i)

\* Text is held back only where something that releases it is still to come.
HeldSound ==
  /\ ~wrapper.firstSent => upstream = "content"
  /\ ~outer.buffering => outer.buffer = <<>>
  /\ upstream = "ended" =>
       /\ \A e \in Range(queue) : e.type \in {"message_delta", "message_stop"}
       /\ outer.buffering => queue # <<>>

\* The inner layer writes into a block that nobody has stopped.
BlocksSound ==
  /\ \A e \in Range(queue) : IsDelta(e) => upstream = "content" /\ e.index = wrapper.index
  /\ upstream = "content" =>
       /\ \A s \in outer.stopped : s < wrapper.index
       /\ \A e \in Range(queue) : e.type = "content_block_stop" => e.index < wrapper.index

\* The stop reason is held back, or is on its way.
ReasonSound ==
  /\ (\E i \in DOMAIN got : got[i].kind # "blank") => wrapper.blockStarted
  /\ wrapper.blockStarted /\ upstream = "finished" =>
       wrapper.holding = StopReason /\ ~wrapper.usageQueued
  /\ wrapper.blockStarted /\ upstream \in {"used", "ended"} =>
       MessageDelta(StopReason) \in OnTheWay

\* The last event of the queue, and no other, may have a piece: the newest one,
\* which was not given out before.
IsNewest(e) ==
  LET n == Len(got) IN
  /\ n \in DOMAIN got /\ e.pieces = <<n>>
  /\ got[n].kind \notin {"blank", "signature"}
  /\ e.of = "text" \/ got[n].mark = "plain"
  /\ NoMarkup => \A d \in Range(emitted) : ~Bears(d, n)

NewestLast ==
  \A l \in DOMAIN queue :
    IsDelta(queue[l]) /\ queue[l].pieces # <<>> => l = Len(queue) /\ IsNewest(queue[l])

\* All that is invariant here, with the two invariants above.
AInv ==
  /\ SInv /\ IInv
  /\ Kept /\ HeldSound /\ BlocksSound /\ ReasonSound
  /\ NewestLast /\ (NoMarkup => OneByOne)

\* The elements of short sequences, and of a sequence part by part.
LEMMA RangeShort ==
  /\ Range(<<>>) = {}
  /\ \A a : Range(<<a>>) = {a}
  /\ \A a, b : Range(<<a, b>>) = {a, b}
  /\ \A a, b, c : Range(<<a, b, c>>) = {a, b, c}
<1>1. Range(<<>>) = {}
  <2>1. <<>> \in Seq({}) /\ Len(<<>>) = 0
    BY EmptySeq
  <2> DEFINE s == <<>>
  <2> HIDE DEF s
  <2>2. Range(s) = {s[i] : i \in 1..Len(s)}
    BY <2>1, RangeEquality DEF s
  <2> QED BY <2>1, <2>2 DEF s
<1>2. ASSUME NEW a PROVE Range(<<a>>) = {a}
  <2> DEFINE s == <<a>>
  <2>1. s \in Seq({a}) /\ Len(s) = 1 /\ s[1] = a
    OBVIOUS
  <2> HIDE DEF s
  <2>2. Range(s) = {s[i] : i \in 1..Len(s)}
    BY <2>1, RangeEquality
  <2>3. Range(s) = {a}
    BY <2>1, <2>2
  <2> QED BY <2>3 DEF s
<1>3. ASSUME NEW a, NEW b PROVE Range(<<a, b>>) = {a, b}
  <2> DEFINE s == <<a, b>>
  <2>1. s \in Seq({a, b}) /\ Len(s) = 2 /\ s[1] = a /\ s[2] = b
    OBVIOUS
  <2> HIDE DEF s
  <2>2. Range(s) = {s[i] : i \in 1..Len(s)}
    BY <2>1, RangeEquality
  <2>3. Range(s) = {a, b}
    BY <2>1, <2>2
  <2> QED BY <2>3 DEF s
<1>4. ASSUME NEW a, NEW b, NEW c PROVE Range(<<a, b, c>>) = {a, b, c}
  <2> DEFINE s == <<a, b, c>>
  <2>1. s \in Seq({a, b, c}) /\ Len(s) = 3 /\ s[1] = a /\ s[2] = b /\ s[3] = c
    OBVIOUS
  <2> HIDE DEF s
  <2>2. Range(s) = {s[i] : i \in 1..Len(s)}
    BY <2>1, RangeEquality
  <2>3. Range(s) = {a, b, c}
    BY <2>1, <2>2
  <2> QED BY <2>3 DEF s
<1> QED BY <1>1, <1>2, <1>3, <1>4

LEMMA RangeParts ==
  ASSUME NEW S, NEW s \in Seq(S)
  PROVE  /\ s # <<>> => Range(s) = {Head(s)} \cup Range(Tail(s))
         /\ \A e \in S : Range(Append(s, e)) = Range(s) \cup {e}
<1>1. ASSUME s # <<>> PROVE Range(s) = {Head(s)} \cup Range(Tail(s))
  <2>1. /\ Head(s) \in S /\ Tail(s) \in Seq(S) /\ <<Head(s)>> \in Seq(S)
        /\ s = <<Head(s)>> \o Tail(s)
    BY <1>1, HeadTailProperties
  <2> DEFINE h == Head(s)
             t == Tail(s)
  <2> HIDE DEF h, t
  <2>2. Range(<<h>> \o t) = Range(<<h>>) \cup Range(t)
    BY <2>1, RangeConcatenation DEF h, t
  <2> QED BY <2>1, <2>2, RangeShort DEF h, t
<1>2. ASSUME NEW e \in S PROVE Range(Append(s, e)) = Range(s) \cup {e}
  <2> DEFINE one == <<e>>
  <2>1. Append(s, e) = s \o one /\ one \in Seq(S) /\ Range(one) = {e}
    BY AppendIsConcat, RangeShort
  <2> HIDE DEF one
  <2>2. Range(s \o one) = Range(s) \cup Range(one)
    BY <2>1, RangeConcatenation
  <2> QED BY <2>1, <2>2
<1> QED BY <1>1, <1>2

\* Nothing is lost between the outer layer and its pending events.
LEMMA GiveAll ==
  ASSUME TypeOK, NEW events \in Seq(AnEvent), events # <<>>, NEW o \in OuterType,
         Give(events, o)
  PROVE  /\ Range(emitted) \cup Range(events) \subseteq Range(emitted') \cup Range(pending')
         /\ outer'.buffer = o.buffer /\ outer'.buffering = o.buffering
         /\ outer'.stopped = o.stopped /\ outer'.lost = o.lost
<1> DEFINE e == Head(events)
           sign == Delta(e.index, "signature", <<>>)
<1>1. /\ e \in AnEvent /\ Range(events) = {e} \cup Range(Tail(events))
      /\ emitted \in Seq(AnEvent)
  BY HeadTailProperties, RangeParts DEF TypeOK, EventsTyped
<1>2. e.index \in Nat
  BY <1>1 DEF AnEvent
<1>3. sign \in AnEvent
  BY <1>2, EmptySeq, EventTypes
<1>4. CASE Unsigned(o, e)
  <2>1. emitted' = Append(emitted, sign) /\ pending' = events
          /\ outer' = [o EXCEPT !.signed = @ \cup {e.index}]
    BY <1>4 DEF Give, Emit
  <2> HIDE DEF e, sign
  <2>2. Range(emitted') = Range(emitted) \cup {sign}
    BY <1>1, <1>3, <2>1, RangeParts
  <2>3. /\ outer'.buffer = o.buffer /\ outer'.buffering = o.buffering
        /\ outer'.stopped = o.stopped /\ outer'.lost = o.lost
    BY <2>1 DEF OuterType
  <2> QED BY <2>1, <2>2, <2>3
<1>5. CASE ~Unsigned(o, e)
  <2>1. emitted' = Append(emitted, e) /\ pending' = Tail(events)
    BY <1>5 DEF Give, Emit
  <2>2. outer' = [o EXCEPT !.thinking =
              IF e.type # "content_block_start" THEN @
              ELSE IF e.of = "thinking" THEN @ \cup {e.index} ELSE @ \ {e.index}]
    BY <1>5 DEF Give
  <2> HIDE DEF e
  <2>3. Range(emitted') = Range(emitted) \cup {e}
    BY <1>1, <2>1, RangeParts
  <2>4. /\ outer'.buffer = o.buffer /\ outer'.buffering = o.buffering
        /\ outer'.stopped = o.stopped /\ outer'.lost = o.lost
    BY <2>2 DEF OuterType
  <2> QED BY <1>1, <2>1, <2>3, <2>4
<1> QED BY <1>4, <1>5

\* What is not taken out of a text for good is in one of the events it becomes.
LEMMA ToolEventsBear ==
  ASSUME NEW p \in Seq(Nat), NEW found \in Findings(p)
  PROVE  \A i \in Range(p) :
           i \in TakenOut(p, found) \/ \E e \in Range(ToolEvents(found)) : Bears(e, i)
<1> DEFINE text == Delta(0, "text", found.text)
           start == BlockStart(1, "tool_use", <<>>)
           call == Delta(1, "input_json", found.input)
           a == IF found.text = <<>> THEN <<>> ELSE <<text>>
           b == <<BlockStop(0)>>
           c == IF found.call THEN <<start, call, BlockStop(1)>> ELSE <<>>
           d == <<MessageDelta("tool_use")>>
<1>0. /\ <<>> \in Seq(Nat) /\ "tool_use" \in BlockTypes /\ "tool_use" \in Reasons
      /\ found.text \in Seq(Nat) /\ found.input \in Seq(Nat)
      /\ ~found.call => found.input = <<>>
  BY FindingType, EmptySeq DEF BlockTypes, Reasons, AFinding
<1>1. /\ text \in AnEvent /\ start \in AnEvent /\ call \in AnEvent
      /\ BlockStop(0) \in AnEvent /\ BlockStop(1) \in AnEvent
      /\ MessageDelta("tool_use") \in AnEvent
  BY <1>0, EventTypes
<1>2. /\ \A i \in Range(found.text) : Bears(text, i)
      /\ \A i \in Range(found.input) : Bears(call, i)
  BY DEF Bears, IsDelta, Delta, Event
<1>3. /\ a \in Seq(AnEvent) /\ b \in Seq(AnEvent) /\ c \in Seq(AnEvent) /\ d \in Seq(AnEvent)
      /\ ToolEvents(found) = ((a \o b) \o c) \o d
  <2> HIDE DEF text, start, call
  <2>1. a \in Seq(AnEvent) /\ b \in Seq(AnEvent)
    BY <1>1
  <2>2. c \in Seq(AnEvent) /\ d \in Seq(AnEvent)
    BY <1>1
  <2> QED BY <2>1, <2>2 DEF ToolEvents, text, start, call
<1>4. /\ found.text # <<>> => text \in Range(a)
      /\ found.input # <<>> => call \in Range(c)
  <2> HIDE DEF text, start, call
  <2>1. Range(<<text>>) = {text}
    BY RangeShort
  <2>2. Range(<<start, call, BlockStop(1)>>) = {start, call, BlockStop(1)}
    BY RangeShort
  <2> QED BY <1>0, <2>1, <2>2
<1> HIDE DEF a, b, c, d
<1>5. \A x, y \in Seq(AnEvent) :
        x \o y \in Seq(AnEvent) /\ Range(x \o y) = Range(x) \cup Range(y)
  BY RangeConcatenation, ConcatProperties
<1>6. a \o b \in Seq(AnEvent) /\ Range(a \o b) = Range(a) \cup Range(b)
  BY <1>3, <1>5
<1> DEFINE ab == a \o b
<1> HIDE DEF ab
<1>7. ab \o c \in Seq(AnEvent) /\ Range(ab \o c) = Range(ab) \cup Range(c)
  BY <1>3, <1>5, <1>6 DEF ab
<1> DEFINE abc == ab \o c
<1> HIDE DEF abc
<1>8. Range(abc \o d) = Range(abc) \cup Range(d)
  BY <1>3, <1>5, <1>7 DEF abc
<1>9. Range(a) \cup Range(c) \subseteq Range(ToolEvents(found))
  BY <1>3, <1>6, <1>7, <1>8 DEF ab, abc
<1> HIDE DEF text, call
<1>10. ASSUME NEW i \in Range(found.text)
       PROVE  \E e \in Range(ToolEvents(found)) : Bears(e, i)
  <2>1. found.text # <<>>
    BY <1>10, RangeShort
  <2> QED BY <1>2, <1>4, <1>9, <2>1
<1>11. ASSUME NEW i \in Range(found.input)
       PROVE  \E e \in Range(ToolEvents(found)) : Bears(e, i)
  <2>1. found.input # <<>>
    BY <1>11, RangeShort
  <2> QED BY <1>2, <1>4, <1>9, <2>1
<1> QED BY <1>10, <1>11 DEF TakenOut

\* What the outer layer takes goes on, unless it is dropped, or is held back;
\* so does what was held back.
LEMMA TakeAll ==
  ASSUME TypeOK, HeldSound, Take, NEW h, h = Head(queue)
  PROVE  LET out == Range(emitted') \cup Range(pending') IN
         /\ h \in AnEvent /\ queue' = Tail(queue) /\ Range(queue) = {h} \cup Range(queue')
         /\ UNCHANGED <<got, upstream, wrapper>>
         /\ Range(emitted) \cup Range(pending) \subseteq out
         /\ \A i \in Range(outer.buffer) :
              i \in Range(outer'.buffer) \/ i \in outer'.lost \/ \E e \in out : Bears(e, i)
         /\ outer.lost \subseteq outer'.lost
         /\ \A i : Bears(h, i) => \/ Dropped(h)
                                  \/ i \in Range(outer'.buffer) \/ i \in outer'.lost
                                  \/ \E e \in out : Bears(e, i)
         /\ h.type = "message_delta" => h \in out
         /\ h.type \in {"message_delta", "message_stop"} => ~outer'.buffering
         /\ ~outer'.buffering => outer'.buffer = <<>>
         /\ \A s \in outer'.stopped :
              s \in outer.stopped \/ (h.type = "content_block_stop" /\ h.index = s)
<1> DEFINE e == Converted(h)
           out == Range(emitted') \cup Range(pending')
           Goal ==
         /\ Range(emitted) \subseteq out
         /\ \A i \in Range(outer.buffer) :
              i \in Range(outer'.buffer) \/ i \in outer'.lost \/ \E m \in out : Bears(m, i)
         /\ outer.lost \subseteq outer'.lost
         /\ \A i : Bears(e, i) => \/ Dropped(e)
                                  \/ i \in Range(outer'.buffer) \/ i \in outer'.lost
                                  \/ \E m \in out : Bears(m, i)
         /\ e.type = "message_delta" => e \in out
         /\ e.type \in {"message_delta", "message_stop"} => ~outer'.buffering
         /\ ~outer'.buffering => outer'.buffer = <<>>
         /\ \A s \in outer'.stopped :
              s \in outer.stopped \/ (e.type = "content_block_stop" /\ e.index = s)
<1>1. /\ queue \in Seq(AnEvent) /\ queue # <<>> /\ pending = <<>>
      /\ queue' = Tail(queue) /\ UNCHANGED <<got, upstream, wrapper>>
      /\ emitted \in Seq(AnEvent)
  BY DEF TypeOK, EventsTyped, Take
<1>2. h \in AnEvent /\ Range(queue) = {h} \cup Range(queue')
  BY <1>1, HeadTailProperties, RangeParts
<1>3. e \in AnEvent
  BY <1>2, ConvertedType
<1>4. /\ \A i : Bears(h, i) => Bears(e, i)
      /\ e.type = h.type /\ e.index = h.index
      /\ h.type # "content_block_start" => e = h
      /\ Dropped(e) => Dropped(h)
  BY <1>2 DEF Converted, AnEvent, Bears, IsDelta, Dropped, IsText
<1>5. Drop(e) \/ HoldBack(e) \/ Parse(e) \/ Flush(e) \/ Pass(e)
  BY DEF Take
<1> HIDE DEF e
<1>6. /\ outer \in OuterType
      /\ outer.buffer \in Seq(Nat) /\ e.pieces \in Seq(Nat)
      /\ outer.buffering \in BOOLEAN
  <2>1. <<>> \in Seq(Nat) /\ outer \in OuterType
    BY EmptySeq DEF TypeOK
  <2> QED BY <1>3, <2>1 DEF OuterType, AnEvent
<1>7. outer.buffer \o e.pieces \in Seq(Nat)
        /\ Range(outer.buffer \o e.pieces) = Range(outer.buffer) \cup Range(e.pieces)
  BY <1>6, RangeConcatenation, ConcatProperties
<1>8. Goal
  <2>1. CASE Drop(e)
    BY <2>1, <1>6 DEF Drop, Dropped, IsText, HeldSound
  <2>2. CASE HoldBack(e)
    <3>1. /\ outer' = [outer EXCEPT !.buffering = TRUE, !.buffer = @ \o e.pieces]
          /\ UNCHANGED <<pending, emitted>> /\ IsText(e)
      BY <2>2 DEF HoldBack, Buffered
    <3>2. /\ outer'.buffer = outer.buffer \o e.pieces /\ outer'.buffering = TRUE
          /\ outer'.stopped = outer.stopped /\ outer'.lost = outer.lost
      BY <1>6, <3>1 DEF OuterType
    <3> QED BY <1>7, <3>1, <3>2 DEF IsText, Bears
  <2>3. CASE Parse(e)
    <3> DEFINE text == outer.buffer \o e.pieces
    <3>1. text \in Seq(Nat) /\ Range(text) = Range(outer.buffer) \cup Range(e.pieces)
      BY <1>7
    <3>2. PICK found \in Findings(text) : Give(ToolEvents(found), Parsed(text, found))
      BY <2>3 DEF Parse
    <3>3. IsText(e)
      BY <2>3 DEF Parse, Buffered
    <3> DEFINE made == ToolEvents(found)
               parsed == Parsed(text, found)
    <3> HIDE DEF text
    <3>4. made \in Seq(AnEvent) /\ made # <<>>
      BY <3>1, FindingType, ToolEventsType
    <3>5. \A i \in Range(text) : i \in TakenOut(text, found) \/ \E m \in Range(made) : Bears(m, i)
      BY <3>1, ToolEventsBear
    <3>6. /\ parsed \in OuterType /\ parsed.buffer = <<>> /\ parsed.buffering = FALSE
          /\ parsed.stopped = outer.stopped
          /\ parsed.lost = outer.lost \cup TakenOut(text, found)
      BY <1>6, <3>1, ParsedType
    <3>7. Give(made, parsed)
      BY <3>2
    <3> HIDE DEF made, parsed
    <3>8. /\ Range(emitted) \cup Range(made) \subseteq out
          /\ outer'.buffer = <<>> /\ outer'.buffering = FALSE
          /\ outer'.stopped = outer.stopped
          /\ outer'.lost = outer.lost \cup TakenOut(text, found)
      BY <3>4, <3>6, <3>7, GiveAll
    <3>9. \A i \in Range(text) : i \in outer'.lost \/ \E m \in out : Bears(m, i)
      BY <3>5, <3>8
    <3> QED BY <3>1, <3>3, <3>8, <3>9 DEF IsText, Bears
  <2>4. CASE Flush(e)
    <3> DEFINE text == outer.buffer
               one == <<e>>
    <3>1. PICK found \in Findings(text) :
            Give(ToolEvents(found) \o one, Parsed(text, found))
      BY <2>4 DEF Flush
    <3>2. text \in Seq(Nat) /\ e.type \in {"message_delta", "message_stop"}
      BY <1>6, <2>4 DEF Flush, Flushing
    <3> DEFINE made == ToolEvents(found)
               parsed == Parsed(text, found)
    <3> HIDE DEF text
    <3>3. made \in Seq(AnEvent) /\ made # <<>>
      BY <3>2, FindingType, ToolEventsType
    <3>4. \A i \in Range(text) : i \in TakenOut(text, found) \/ \E m \in Range(made) : Bears(m, i)
      BY <3>2, ToolEventsBear
    <3>5. one \in Seq(AnEvent) /\ Range(one) = {e}
      BY <1>3, RangeShort
    <3>6. /\ parsed \in OuterType /\ parsed.buffer = <<>> /\ parsed.buffering = FALSE
          /\ parsed.stopped = outer.stopped
          /\ parsed.lost = outer.lost \cup TakenOut(text, found)
      BY <1>6, <3>2, ParsedType
    <3>7. Give(made \o one, parsed)
      BY <3>1
    <3> HIDE DEF made, one, parsed
    <3>8. /\ made \o one \in Seq(AnEvent) /\ made \o one # <<>>
          /\ Range(made \o one) = Range(made) \cup {e}
      BY <3>3, <3>5, ConcatProperties, ConcatEqualIffEmpty, RangeConcatenation
    <3>9. /\ Range(emitted) \cup Range(made) \cup {e} \subseteq out
          /\ outer'.buffer = <<>> /\ outer'.buffering = FALSE
          /\ outer'.stopped = outer.stopped
          /\ outer'.lost = outer.lost \cup TakenOut(text, found)
      BY <3>6, <3>7, <3>8, GiveAll
    <3>10. \A i \in Range(text) : i \in outer'.lost \/ \E m \in out : Bears(m, i)
      BY <3>4, <3>9
    <3> QED BY <3>2, <3>9, <3>10 DEF text
  <2>5. CASE Pass(e)
    <3> DEFINE one == <<e>>
               o == Filtered(e)
    <3>1. Give(one, o) /\ ~Buffered(e) /\ ~Flushing(e)
      BY <2>5 DEF Pass
    <3>2. one \in Seq(AnEvent) /\ one # <<>> /\ Range(one) = {e}
      BY <1>3, RangeShort
    <3>3. /\ o \in OuterType /\ o.buffer = outer.buffer /\ o.buffering = outer.buffering
          /\ o.lost = outer.lost
          /\ \A s \in o.stopped :
               s \in outer.stopped \/ (e.type = "content_block_stop" /\ e.index = s)
      <4>1. e.index \in Nat
        BY <1>3 DEF AnEvent
      <4> QED BY <1>6, <4>1 DEF Filtered, OuterType
    <3> HIDE DEF one, o
    <3>4. /\ Range(emitted) \cup {e} \subseteq out
          /\ outer'.buffer = outer.buffer /\ outer'.buffering = outer.buffering
          /\ outer'.stopped = o.stopped /\ outer'.lost = o.lost
      BY <3>1, <3>2, <3>3, GiveAll
    <3> QED BY <1>6, <3>1, <3>3, <3>4 DEF Flushing, HeldSound
  <2> QED BY <1>5, <2>1, <2>2, <2>3, <2>4, <2>5
<1>9. Range(pending) = {}
  BY <1>1, RangeShort
<1> HIDE DEF Goal
<1>10. \A i : Bears(h, i) => \/ Dropped(h)
                             \/ i \in Range(outer'.buffer) \/ i \in outer'.lost
                             \/ \E m \in out : Bears(m, i)
  BY <1>4, <1>8 DEF Goal
<1> QED BY <1>1, <1>2, <1>4, <1>8, <1>9, <1>10 DEF Goal

\* What a reader must get is not dropped: its block is open.
LEMMA NotDropped ==
  ASSUME TypeOK, BlocksSound, NEW h \in Range(queue), NEW i, Bears(h, i), Carries(i)
  PROVE  ~Dropped(h)
<1>1. wrapper.index \in Nat
  BY DEF TypeOK, WrapperType
<1>2. IsDelta(h) /\ h.index = wrapper.index /\ \A s \in outer.stopped : s < wrapper.index
  BY DEF Bears, BlocksSound
<1>3. h.index \notin outer.stopped
  BY <1>1, <1>2
<1>4. PICK x \in DOMAIN h.pieces : h.pieces[x] = i
  BY DEF Bears, Range
<1>5. got[i].mark \in MarkOf(h.pieces) /\ got[i].mark # "think tag"
  BY <1>4 DEF MarkOf, Carries
<1> QED BY <1>3, <1>5 DEF Dropped

\* The outer layer takes an event.
LEMMA TakeKeeps ==
  ASSUME TypeOK, Kept, HeldSound, BlocksSound, ReasonSound, Take
  PROVE  Kept' /\ HeldSound' /\ BlocksSound' /\ ReasonSound'
<1> DEFINE h == Head(queue)
           out == Range(emitted') \cup Range(pending')
<1>1. /\ h \in AnEvent /\ Range(queue) = {h} \cup Range(queue')
      /\ UNCHANGED <<got, upstream, wrapper>>
      /\ Range(emitted) \cup Range(pending) \subseteq out
  BY TakeAll
<1>2. /\ \A i \in Range(outer.buffer) :
           i \in Range(outer'.buffer) \/ i \in outer'.lost \/ \E e \in out : Bears(e, i)
      /\ outer.lost \subseteq outer'.lost
      /\ \A i : Bears(h, i) => \/ Dropped(h)
                               \/ i \in Range(outer'.buffer) \/ i \in outer'.lost
                               \/ \E e \in out : Bears(e, i)
  BY TakeAll
<1>3. /\ h.type = "message_delta" => h \in out
      /\ h.type \in {"message_delta", "message_stop"} => ~outer'.buffering
      /\ ~outer'.buffering => outer'.buffer = <<>>
      /\ \A s \in outer'.stopped :
           s \in outer.stopped \/ (h.type = "content_block_stop" /\ h.index = s)
  BY TakeAll
<1> HIDE DEF h, out
<1>4. OnTheWay \subseteq OnTheWay' \cup {h} /\ out \subseteq OnTheWay'
  BY <1>1 DEF OnTheWay, out
<1>5. \A i : Carries(i)' = Carries(i)
  BY <1>1 DEF Carries
<1>6. Kept'
  <2> SUFFICES ASSUME NEW i \in DOMAIN got, Carries(i)
               PROVE  \/ i \in Range(outer'.buffer) \/ i \in outer'.lost
                      \/ \E e \in OnTheWay' : Bears(e, i)
    BY <1>1, <1>5 DEF Kept, Bears, IsDelta
  <2>1. CASE i \in Range(outer.buffer) \/ i \in outer.lost
    BY <2>1, <1>2, <1>4
  <2>2. ASSUME NEW e \in OnTheWay, Bears(e, i)
        PROVE  \/ i \in Range(outer'.buffer) \/ i \in outer'.lost
               \/ \E m \in OnTheWay' : Bears(m, i)
    <3>1. CASE e \in OnTheWay'
      BY <2>2, <3>1
    <3>2. CASE e = h
      <4>1. ~Dropped(h)
        BY <1>1, <2>2, <3>2, NotDropped
      <4> QED BY <1>2, <1>4, <2>2, <3>2, <4>1
    <3> QED BY <1>4, <3>1, <3>2
  <2> QED BY <2>1, <2>2 DEF Kept
<1>7. HeldSound'
  BY <1>1, <1>3 DEF HeldSound
<1>8. BlocksSound'
  BY <1>1, <1>3 DEF BlocksSound, IsDelta
<1>9. ReasonSound'
  <2>1. StopReason' = StopReason
    BY <1>1 DEF StopReason
  <2>2. MessageDelta(StopReason) \in OnTheWay => MessageDelta(StopReason) \in OnTheWay'
    BY <1>3, <1>4 DEF MessageDelta, Event
  <2> QED BY <1>1, <2>1, <2>2 DEF ReasonSound
<1> QED BY <1>6, <1>7, <1>8, <1>9

\* It gives out one that waits.
LEMMA PendingKeeps ==
  ASSUME TypeOK, Kept, HeldSound, BlocksSound, ReasonSound, GivePending
  PROVE  Kept' /\ HeldSound' /\ BlocksSound' /\ ReasonSound'
<1> DEFINE h == Head(pending)
<1>1. /\ pending \in Seq(AnEvent) /\ pending # <<>> /\ emitted \in Seq(AnEvent)
      /\ emitted' = Append(emitted, h) /\ pending' = Tail(pending)
      /\ UNCHANGED <<got, upstream, wrapper, queue, outer>>
  BY DEF GivePending, TypeOK, EventsTyped, Emit
<1>2. h \in AnEvent /\ Range(pending) = {h} \cup Range(Tail(pending))
  BY <1>1, HeadTailProperties, RangeParts
<1> HIDE DEF h
<1>3. Range(emitted') = Range(emitted) \cup {h}
  BY <1>1, <1>2, RangeParts
<1>4. OnTheWay' = OnTheWay
  BY <1>1, <1>2, <1>3 DEF OnTheWay
<1>5. (\A i : Carries(i)' = Carries(i)) /\ StopReason' = StopReason
  BY <1>1 DEF Carries, StopReason
<1> QED BY <1>1, <1>4, <1>5
        DEF Kept, HeldSound, BlocksSound, ReasonSound, Bears, IsDelta

\* One more event is given out: with nothing, or with the newest piece.
LEMMA OnePieceMore ==
  ASSUME TypeOK, OneByOne, NEW x \in AnEvent, emitted' = Append(emitted, x), UNCHANGED got,
         IsDelta(x) /\ x.pieces # <<>> =>
           /\ Len(got) \in DOMAIN got /\ x.pieces = <<Len(got)>> /\ Carries(Len(got))
           /\ \A d \in Range(emitted) : ~Bears(d, Len(got))
  PROVE  OneByOne'
<1>0. emitted \in Seq(AnEvent) /\ got \in Seq(Chunk)
  BY DEF TypeOK, EventsTyped
<1>1. /\ Len(emitted) \in Nat
      /\ DOMAIN emitted = 1..Len(emitted) /\ DOMAIN emitted' = 1..Len(emitted) + 1
      /\ \A j \in 1..Len(emitted) : emitted'[j] = emitted[j]
      /\ emitted'[Len(emitted) + 1] = x
  BY <1>0, Emitted
<1>2. Range(emitted') = Range(emitted) \cup {x}
  BY <1>0, RangeParts
<1>3. Len(got) \in Nat /\ DOMAIN got = 1..Len(got)
  BY <1>0, LenProperties
<1>4. \A i : Carries(i)' = Carries(i)
  BY DEF Carries
<1>5. \A n : Bears(x, n) => /\ n = Len(got) /\ Len(got) \in DOMAIN got /\ Carries(Len(got))
                            /\ \A d \in Range(emitted) : ~Bears(d, n)
  <2> SUFFICES ASSUME NEW n, Bears(x, n)
               PROVE  /\ n = Len(got) /\ Len(got) \in DOMAIN got /\ Carries(Len(got))
                      /\ \A d \in Range(emitted) : ~Bears(d, n)
    OBVIOUS
  <2>1. IsDelta(x) /\ n \in Range(x.pieces)
    BY DEF Bears
  <2>2. x.pieces # <<>>
    BY <2>1, RangeShort
  <2>3. Range(<<Len(got)>>) = {Len(got)}
    BY RangeShort
  <2> QED BY <2>1, <2>2, <2>3
<1>6. ASSUME NEW e \in Range(emitted'), IsDelta(e)
      PROVE  e.pieces = <<>> \/ \E n \in DOMAIN got : e.pieces = <<n>> /\ Carries(n)
  <2>1. CASE e \in Range(emitted)
    BY <1>6, <2>1 DEF OneByOne
  <2>2. CASE e = x
    BY <1>6, <2>2
  <2> QED BY <1>2, <2>1, <2>2
<1>7. ASSUME NEW k \in DOMAIN emitted', NEW l \in DOMAIN emitted', k < l,
             NEW m \in DOMAIN got, NEW n \in DOMAIN got,
             Bears(emitted'[k], m), Bears(emitted'[l], n)
      PROVE  m < n
  <2>1. k \in DOMAIN emitted /\ emitted'[k] = emitted[k]
    BY <1>1, <1>7
  <2>2. CASE l \in DOMAIN emitted
    BY <1>1, <1>7, <2>1, <2>2 DEF OneByOne
  <2>3. CASE l = Len(emitted) + 1
    <3>1. Bears(x, n) /\ emitted[k] \in Range(emitted)
      BY <1>1, <1>7, <2>1, <2>3 DEF Range
    <3>2. n = Len(got) /\ m # n
      BY <1>5, <1>7, <2>1, <3>1
    <3> QED BY <1>3, <3>2
  <2> QED BY <1>1, <2>2, <2>3
<1> QED BY <1>4, <1>6, <1>7 DEF OneByOne, Bears, IsDelta

\* Without calls in the text, what is taken is dropped or given out, maybe
\* after a signature.
LEMMA TakeGives ==
  ASSUME TypeOK, Quiet, NoMarkup, Take, NEW h, h = Head(queue)
  PROVE  \/ UNCHANGED emitted
         \/ ~Dropped(h) /\ emitted' = Append(emitted, Converted(h))
         \/ emitted' = Append(emitted, Delta(h.index, "signature", <<>>))
<1> DEFINE e == Converted(h)
<1>1. queue \in Seq(OfChunks) /\ queue # <<>>
  BY DEF Take, Quiet
<1>2. h \in AnEvent /\ h.pieces \in Seq(DOMAIN got)
  BY <1>1, HeadTailProperties DEF OfChunks
<1>3. /\ e.type = h.type /\ e.index = h.index /\ e.pieces = h.pieces
      /\ Dropped(e) <=> Dropped(h)
  BY <1>2 DEF Converted, AnEvent, Dropped, IsText
<1>4. Drop(e) \/ HoldBack(e) \/ Parse(e) \/ Flush(e) \/ Pass(e)
  BY DEF Take
<1> HIDE DEF e
<1>5. ~Buffered(e) /\ ~Flushing(e)
  BY <1>2, <1>3, NothingOpens DEF Buffered, Flushing, Quiet
<1>6. Drop(e) \/ Pass(e)
  BY <1>4, <1>5 DEF HoldBack, Parse, Flush
<1>7. CASE Drop(e)
  BY <1>7 DEF Drop
<1>8. CASE Pass(e)
  <2>1. Head(<<e>>) = e
    OBVIOUS
  <2>2. ~Dropped(e) /\ Give(<<e>>, Filtered(e))
    BY <1>8 DEF Pass
  <2>3. emitted' = Append(emitted, Delta(e.index, "signature", <<>>))
          \/ emitted' = Append(emitted, e)
    BY <2>1, <2>2 DEF Give, Emit
  <2> QED BY <1>3, <2>2, <2>3 DEF e
<1> QED BY <1>6, <1>7, <1>8

\* The newest piece is the last to be taken.
LEMMA TakeOrdered ==
  ASSUME TypeOK, NoMarkup => Quiet, NewestLast, NoMarkup => OneByOne, Take
  PROVE  NewestLast' /\ (NoMarkup' => OneByOne')
<1> DEFINE h == Head(queue)
           sign == Delta(h.index, "signature", <<>>)
<1>1. /\ queue \in Seq(AnEvent) /\ queue # <<>> /\ queue' = Tail(queue)
      /\ UNCHANGED got /\ emitted \in Seq(AnEvent)
  BY DEF TypeOK, EventsTyped, Take
<1>2. /\ h \in AnEvent /\ h = queue[1] /\ Tail(queue) \in Seq(AnEvent)
      /\ Len(queue) \in Nat \ {0} /\ DOMAIN queue = 1..Len(queue)
      /\ Len(queue') = Len(queue) - 1 /\ DOMAIN queue' = 1..Len(queue) - 1
      /\ \A l \in 1..Len(queue) - 1 : queue'[l] = queue[l + 1]
  <2>1. Len(queue) \in Nat \ {0} /\ DOMAIN queue = 1..Len(queue)
    BY <1>1, LenProperties, EmptySeq
  <2>2. /\ Head(queue) \in AnEvent /\ Tail(queue) \in Seq(AnEvent) /\ Head(queue) = queue[1]
        /\ Len(Tail(queue)) = Len(queue) - 1
        /\ \A l \in 1..Len(queue) - 1 : Tail(queue)[l] = queue[l + 1]
    BY <1>1, HeadTailProperties
  <2>3. DOMAIN Tail(queue) = 1..Len(queue) - 1
    BY <2>2, LenProperties
  <2> QED BY <1>1, <2>1, <2>2, <2>3
<1>3. NoMarkup' = NoMarkup /\ \A i : Carries(i)' = Carries(i)
  BY <1>1 DEF NoMarkup, Carries
<1>4. NoMarkup => \/ UNCHANGED emitted
                  \/ ~Dropped(h) /\ emitted' = Append(emitted, Converted(h))
                  \/ emitted' = Append(emitted, sign)
  BY TakeGives
<1>5. /\ Converted(h) \in AnEvent /\ Converted(h).pieces = h.pieces
      /\ IsDelta(Converted(h)) <=> IsDelta(h)
      /\ sign \in AnEvent /\ sign.pieces = <<>>
  <2>1. h.index \in Nat
    BY <1>2 DEF AnEvent
  <2>2. sign \in AnEvent
    BY <2>1, EmptySeq, EventTypes
  <2>3. sign.pieces = <<>>
    BY DEF Delta, Event
  <2> QED BY <1>2, <2>2, <2>3, ConvertedType DEF Converted, AnEvent, IsDelta
<1>6. IsDelta(h) /\ h.pieces # <<>> => Len(queue) = 1 /\ IsNewest(h)
  BY <1>2 DEF NewestLast
<1> HIDE DEF h, sign
<1>7. ASSUME NoMarkup, NEW n, Len(queue) # 1, \A d \in Range(emitted) : ~Bears(d, n)
      PROVE  \A d \in Range(emitted') : ~Bears(d, n)
  <2>1. ~Bears(Converted(h), n) /\ ~Bears(sign, n)
    BY <1>5, <1>6, <1>7, RangeShort DEF Bears
  <2>2. \A x \in AnEvent : Range(Append(emitted, x)) = Range(emitted) \cup {x}
    BY <1>1, RangeParts
  <2> QED BY <1>4, <1>5, <1>7, <2>1, <2>2
<1>8. NewestLast'
  <2>1. ASSUME Len(queue) # 1 PROVE \A e : IsNewest(e) => IsNewest(e)'
    BY <1>1, <1>3, <1>7, <2>1 DEF IsNewest, Bears, IsDelta
  <2>2. ASSUME NEW l \in DOMAIN queue', NEW e, e = queue'[l], IsDelta(e), e.pieces # <<>>
        PROVE  l = Len(queue') /\ Len(queue) # 1 /\ IsNewest(e)
    <3>1. /\ l + 1 \in DOMAIN queue /\ e = queue[l + 1] /\ l \in Nat /\ l # 0
      BY <1>2, <2>2
    <3>2. l + 1 = Len(queue) /\ IsNewest(e)
      BY <2>2, <3>1 DEF NewestLast
    <3> QED BY <1>2, <3>1, <3>2
  <2> QED BY <2>1, <2>2 DEF NewestLast, IsDelta
<1>9. ASSUME NoMarkup PROVE OneByOne'
  <2>1. CASE UNCHANGED emitted
    BY <1>1, <1>3, <1>9, <2>1 DEF OneByOne, Bears, IsDelta
  <2>2. CASE ~Dropped(h) /\ emitted' = Append(emitted, Converted(h))
    <3>1. ASSUME IsDelta(h), h.pieces # <<>>
          PROVE  /\ Len(got) \in DOMAIN got /\ h.pieces = <<Len(got)>> /\ Carries(Len(got))
                 /\ \A d \in Range(emitted) : ~Bears(d, Len(got))
      <4>1. IsNewest(h)
        BY <1>6, <3>1
      <4>2. MarkOf(<<Len(got)>>) = {got[Len(got)].mark}
        <5> DEFINE n == Len(got)
                   p == <<n>>
        <5>1. p \in Seq({n}) /\ Len(p) = 1 /\ p[1] = n
          OBVIOUS
        <5> HIDE DEF p, n
        <5>2. DOMAIN p = 1..1
          BY <5>1, LenProperties
        <5>3. MarkOf(p) = {got[n].mark}
          BY <5>1, <5>2 DEF MarkOf
        <5> QED BY <5>3 DEF p, n
      <4>3. got[Len(got)].mark # "think tag"
        BY <2>2, <3>1, <4>1, <4>2 DEF IsNewest, Dropped, IsText, IsDelta
      <4> QED BY <1>9, <4>1, <4>3 DEF IsNewest, Carries
    <3> QED BY <1>1, <1>5, <1>9, <2>2, <3>1, OnePieceMore
  <2>3. CASE emitted' = Append(emitted, sign)
    BY <1>1, <1>5, <1>9, <2>3, OnePieceMore
  <2> QED BY <1>4, <1>9, <2>1, <2>2, <2>3
<1> QED BY <1>3, <1>8, <1>9

\* A stop that waited for its signature has no piece.
LEMMA PendingOrdered ==
  ASSUME TypeOK, NoMarkup => Quiet, NewestLast, NoMarkup => OneByOne, GivePending
  PROVE  NewestLast' /\ (NoMarkup' => OneByOne')
<1> DEFINE h == Head(pending)
<1>1. /\ pending \in Seq(AnEvent) /\ pending # <<>> /\ emitted \in Seq(AnEvent)
      /\ emitted' = Append(emitted, h) /\ UNCHANGED <<got, queue>>
  BY DEF GivePending, TypeOK, EventsTyped, Emit
<1>2. h \in AnEvent
  BY <1>1, HeadTailProperties
<1>3. NoMarkup => ~IsDelta(h)
  BY <1>1 DEF Quiet, IsDelta
<1> HIDE DEF h
<1>4. Range(emitted') = Range(emitted) \cup {h}
  BY <1>1, <1>2, RangeParts
<1>5. NoMarkup' = NoMarkup
  BY <1>1 DEF NoMarkup
<1>6. NoMarkup => OneByOne'
  BY <1>1, <1>2, <1>3, OnePieceMore
<1>7. \A e : IsNewest(e) => IsNewest(e)'
  BY <1>1, <1>3, <1>4, <1>5 DEF IsNewest, Bears, IsDelta
<1> QED BY <1>1, <1>5, <1>6, <1>7 DEF NewestLast, IsDelta

\* Nothing but what was given out is on its way while the layers wait, and
\* before the message starts.
LEMMA NothingComes ==
  ASSUME SInv, Waiting \/ ~wrapper.firstSent
  PROVE  /\ queue = <<>> /\ Range(queue) = {} /\ OnTheWay = Range(emitted)
         /\ UNCHANGED <<pending, emitted>> => Range(emitted) \subseteq OnTheWay'
<1>1. queue = <<>> /\ pending = <<>>
  BY DEF SInv, InnerSound, Waiting
<1> QED BY <1>1, RangeShort DEF OnTheWay

\* What no event of a queue is, none of it is last.
LEMMA NoDeltas ==
  ASSUME \A e \in Range(queue') : ~IsDelta(e)
  PROVE  NewestLast'
<1>1. \A l \in DOMAIN queue' : queue'[l] \in Range(queue')
  BY DEF Range
<1> QED BY <1>1 DEF NewestLast, IsDelta

\* What comes in once the provider has finished has no piece.
LEMMA ComesWithout ==
  ASSUME AInv, Waiting \/ ~wrapper.firstSent, UNCHANGED <<got, outer, pending, emitted>>,
         wrapper'.firstSent, \A e \in Range(queue') : ~IsDelta(e),
         \/ UNCHANGED upstream /\ UNCHANGED wrapper.index /\ upstream = "content"
              /\ \A e \in Range(queue') : e.type # "content_block_stop"
         \/ upstream' \in {"finished", "used"}
         \/ upstream' = "ended" /\ queue' # <<>>
              /\ \A e \in Range(queue') : e.type \in {"message_delta", "message_stop"}
  PROVE  Kept' /\ HeldSound' /\ BlocksSound' /\ NewestLast' /\ (NoMarkup' => OneByOne')
<1>1. OnTheWay \subseteq OnTheWay'
  BY NothingComes DEF AInv
<1>2. (\A i : Carries(i)' = Carries(i)) /\ NoMarkup' = NoMarkup
  BY DEF Carries, NoMarkup
<1>3. Kept'
  BY <1>1, <1>2 DEF AInv, Kept, Bears, IsDelta
<1>4. HeldSound'
  BY DEF AInv, HeldSound
<1>5. BlocksSound'
  BY DEF AInv, BlocksSound, IsDelta
<1>6. NewestLast'
  BY NoDeltas
<1>7. NoMarkup' => OneByOne'
  BY <1>2 DEF AInv, OneByOne, Bears, IsDelta
<1> QED BY <1>3, <1>4, <1>5, <1>6, <1>7

LEMMA StartKeeps ==
  ASSUME AInv, StartMessage
  PROVE  /\ Kept' /\ HeldSound' /\ BlocksSound' /\ ReasonSound'
         /\ NewestLast' /\ (NoMarkup' => OneByOne')
<1>1. /\ queue' = <<MessageStart>> /\ wrapper' = [wrapper EXCEPT !.firstSent = TRUE]
      /\ UNCHANGED <<got, upstream, outer, pending, emitted>> /\ ~wrapper.firstSent
  BY DEF StartMessage
<1>2. /\ wrapper'.firstSent /\ wrapper'.index = wrapper.index
      /\ wrapper'.blockStarted = wrapper.blockStarted
  BY <1>1 DEF AInv, SInv, TypeOK, WrapperType
<1>3. upstream = "content"
  BY <1>1 DEF AInv, HeldSound
<1>4. Range(queue') = {MessageStart}
  BY <1>1, RangeShort
<1>5. ~IsDelta(MessageStart) /\ MessageStart.type # "content_block_stop"
  BY DEF MessageStart, Event, IsDelta
<1>6. ReasonSound'
  BY <1>1, <1>2, <1>3 DEF AInv, ReasonSound
<1> QED BY <1>1, <1>2, <1>3, <1>4, <1>5, <1>6, ComesWithout

LEMMA FinishKeeps ==
  ASSUME AInv, ReceiveFinish
  PROVE  /\ Kept' /\ HeldSound' /\ BlocksSound' /\ ReasonSound'
         /\ NewestLast' /\ (NoMarkup' => OneByOne')
<1>1. /\ Waiting /\ upstream = "content" /\ upstream' = "finished" /\ Process(Finish)
      /\ UNCHANGED <<got, outer, pending, emitted>>
  BY DEF ReceiveFinish
<1>2. /\ wrapper.firstSent /\ queue = <<>> /\ wrapper \in WrapperType /\ Unfinished
      /\ wrapper.index \in Nat
  BY <1>1 DEF AInv, SInv, InnerSound, TypeOK, Waiting, WrapperType
<1>3. Finish.kind = "finish" /\ ~HasActualContent(Finish) /\ ~ShouldStartNewBlock(Finish)
  BY DEF Finish, HasActualContent, ShouldStartNewBlock
<1>4. StopReason' = StopReason
  BY <1>1 DEF StopReason
<1>5. CASE ~wrapper.blockStarted
  <2>1. UNCHANGED <<wrapper, queue>>
    BY <1>1, <1>3, <1>5 DEF Process
  <2>2. Range(queue') = {}
    BY <1>2, <2>1, RangeShort
  <2>3. ReasonSound'
    BY <1>1, <1>5, <2>1 DEF AInv, ReasonSound
  <2> QED BY <1>1, <1>2, <2>1, <2>2, <2>3, ComesWithout
<1>6. CASE wrapper.blockStarted
  <2>1. Translate(Finish)
    BY <1>1, <1>6 DEF Process
  <2>2. PICK i \in Nat : i = wrapper.index
    BY <1>2
  <2>3. /\ Translated(Finish, i).type = "message_delta"
        /\ Translated(Finish, i).of = StopReason /\ StopReason # ""
    BY <1>3 DEF Translated, MessageDelta, Event, StopReason
  <2>4. queue' = <<BlockStop(i)>>
    BY <1>2, <1>3, <2>1, <2>2, <2>3 DEF Translate, Unfinished, Closed, WrapperType
  <2>5. /\ wrapper'.firstSent /\ wrapper'.holding = StopReason /\ ~wrapper'.usageQueued
    BY <1>2, <1>3, <2>1, <2>2, <2>3 DEF Translate, Unfinished, WrapperType
  <2>6. Range(queue') = {BlockStop(i)} /\ ~IsDelta(BlockStop(i))
    BY <2>4, RangeShort DEF IsDelta, BlockStop, Event
  <2>7. wrapper'.blockStarted
    BY <1>2, <1>3, <1>6, <2>1, <2>2, <2>3 DEF Translate, Unfinished, WrapperType
  <2>8. ReasonSound'
    BY <1>1, <1>4, <2>5, <2>7 DEF AInv, ReasonSound
  <2> QED BY <1>1, <2>5, <2>6, <2>8, ComesWithout
<1> QED BY <1>5, <1>6

\* The usage lets the reason go.
LEMMA UsageKeeps ==
  ASSUME AInv, ReceiveUsage
  PROVE  /\ Kept' /\ HeldSound' /\ BlocksSound' /\ ReasonSound'
         /\ NewestLast' /\ (NoMarkup' => OneByOne')
<1>1. /\ Waiting /\ upstream = "finished" /\ upstream' = "used" /\ Process(Usage)
      /\ UNCHANGED <<got, outer, pending, emitted>>
  BY DEF ReceiveUsage
<1>2. /\ wrapper.firstSent /\ queue = <<>> /\ wrapper \in WrapperType
  BY <1>1 DEF AInv, SInv, TypeOK, Waiting
<1>3. Usage.kind = "usage" /\ ~HasActualContent(Usage) /\ ~ShouldStartNewBlock(Usage)
  BY DEF Usage, HasActualContent, ShouldStartNewBlock
<1>4. StopReason' = StopReason
  BY <1>1 DEF StopReason
<1>5. CASE ~wrapper.blockStarted
  <2>1. UNCHANGED <<wrapper, queue>>
    BY <1>1, <1>3, <1>5 DEF Process
  <2>2. Range(queue') = {}
    BY <1>2, <2>1, RangeShort
  <2>3. ReasonSound'
    BY <1>1, <1>5, <2>1 DEF AInv, ReasonSound
  <2> QED BY <1>1, <1>2, <2>1, <2>2, <2>3, ComesWithout
<1>6. CASE wrapper.blockStarted
  <2>1. Translate(Usage)
    BY <1>1, <1>6 DEF Process
  <2>2. wrapper.holding = StopReason /\ StopReason # "none"
    BY <1>1, <1>6 DEF AInv, ReasonSound, StopReason
  <2>3. queue' = <<MessageDelta(StopReason)>>
    BY <1>2, <1>3, <2>1, <2>2 DEF Translate, WrapperType
  <2>4. wrapper'.firstSent /\ wrapper'.blockStarted
    BY <1>2, <1>3, <1>6, <2>1, <2>2 DEF Translate, WrapperType
  <2>5. Range(queue') = {MessageDelta(StopReason)} /\ ~IsDelta(MessageDelta(StopReason))
    BY <2>3, RangeShort DEF IsDelta, MessageDelta, Event
  <2>6. MessageDelta(StopReason) \in OnTheWay'
    BY <2>5 DEF OnTheWay
  <2>7. ReasonSound'
    BY <1>1, <1>4, <2>4, <2>6 DEF AInv, ReasonSound
  <2> QED BY <1>1, <2>4, <2>5, <2>7, ComesWithout
<1> QED BY <1>5, <1>6

\* Or the end of the stream does.
LEMMA EndKeeps ==
  ASSUME AInv, ReceiveEnd
  PROVE  /\ Kept' /\ HeldSound' /\ BlocksSound' /\ ReasonSound'
         /\ NewestLast' /\ (NoMarkup' => OneByOne')
<1>1. /\ Waiting /\ upstream \in {"finished", "used"} /\ upstream' = "ended"
      /\ queue' = Leftover /\ wrapper' = [wrapper EXCEPT !.holding = "none"]
      /\ UNCHANGED <<got, outer, pending, emitted>>
  BY DEF ReceiveEnd
<1>2. /\ wrapper'.firstSent /\ wrapper'.blockStarted = wrapper.blockStarted
  BY <1>1 DEF AInv, SInv, TypeOK, WrapperType, Waiting
<1>3. StopReason' = StopReason /\ StopReason # "none"
  BY <1>1 DEF StopReason
<1>4. OnTheWay \subseteq OnTheWay'
  BY <1>1, NothingComes DEF AInv
<1> DEFINE m == MessageDelta(wrapper.holding)
<1>5. m.type = "message_delta" /\ MessageStop.type = "message_stop"
  BY DEF MessageDelta, MessageStop, Event
<1>6. CASE ~wrapper.usageQueued /\ wrapper.holding # "none"
  <2>1. queue' = <<m>> \o <<MessageStop>>
    BY <1>1, <1>6 DEF Leftover
  <2> HIDE DEF m
  <2>2. queue' = <<m, MessageStop>>
    BY <2>1, TwoOf
  <2>3. Range(queue') = {m, MessageStop} /\ queue' # <<>>
    BY <2>2, RangeShort
  <2>4. m \in OnTheWay'
    BY <2>3 DEF OnTheWay
  <2>5. ReasonSound'
    BY <1>1, <1>2, <1>3, <1>4, <2>4 DEF AInv, ReasonSound, m
  <2>6. \A e \in Range(queue') : ~IsDelta(e) /\ e.type \in {"message_delta", "message_stop"}
    BY <1>5, <2>3 DEF IsDelta
  <2> QED BY <1>1, <1>2, <2>3, <2>5, <2>6, ComesWithout
<1>7. CASE ~(~wrapper.usageQueued /\ wrapper.holding # "none")
  <2>1. queue' = <<>> \o <<MessageStop>>
    BY <1>1, <1>7 DEF Leftover
  <2>2. queue' = <<MessageStop>>
    <3>1. <<MessageStop>> \in Seq({MessageStop})
      OBVIOUS
    <3> QED BY <2>1, <3>1, ConcatEmptySeq
  <2>3. Range(queue') = {MessageStop} /\ queue' # <<>>
    BY <2>2, RangeShort
  <2>4. ReasonSound'
    BY <1>1, <1>2, <1>3, <1>4, <1>7 DEF AInv, ReasonSound
  <2>5. \A e \in Range(queue') : ~IsDelta(e) /\ e.type \in {"message_delta", "message_stop"}
    BY <1>5, <2>3 DEF IsDelta
  <2> QED BY <1>1, <1>2, <2>3, <2>4, <2>5, ComesWithout
<1> QED BY <1>6, <1>7

\* What a chunk with content becomes in the queue: a block is opened before
\* its delta, and the one before it is stopped.
LEMMA ContentQueue ==
  ASSUME TypeOK, InnerSound, upstream = "content", queue = <<>>,
         NEW c \in Chunk, Process(c)
  PROVE  \/ c.kind = "blank" /\ UNCHANGED <<wrapper, queue>>
         \/ \E i \in Nat : \E d, b :
              /\ i = wrapper'.index /\ d = Translated(c, i) /\ b = StartOf(c, i)
              /\ wrapper.index <= i /\ wrapper'.blockStarted
              /\ wrapper'.firstSent = wrapper.firstSent
              /\ \/ queue' = <<d>> \/ queue' = <<b, d>>
                 \/ /\ wrapper.index < i
                    /\ \/ queue' = <<BlockStop(i - 1), b>> /\ ~IsDelta(d)
                       \/ queue' = <<BlockStop(i - 1), b, d>>
<1>1. /\ Unfinished /\ wrapper \in WrapperType /\ wrapper.index \in Nat /\ c.kind \in Kind
  BY DEF InnerSound, TypeOK, WrapperType, Chunk
<1>2. CASE ~wrapper.blockStarted /\ ~HasActualContent(c)
  BY <1>1, <1>2 DEF Process, HasActualContent, Kind
<1>3. CASE ~wrapper.blockStarted /\ HasActualContent(c)
  <2>1. PICK i \in Nat : i = wrapper.index
    BY <1>1
  <2>2. PICK d, b : d = Translated(c, i) /\ b = StartOf(c, i)
    OBVIOUS
  <2>3. /\ wrapper' = [wrapper EXCEPT !.blockStarted = TRUE, !.blockType = BlockType(c)]
        /\ queue' = <<b, d>>
    BY <1>3, <2>1, <2>2 DEF Process
  <2>4. /\ wrapper'.index = i /\ wrapper'.blockStarted
        /\ wrapper'.firstSent = wrapper.firstSent
    BY <1>1, <2>1, <2>3 DEF WrapperType
  <2> QED BY <2>1, <2>2, <2>3, <2>4
<1>4. CASE wrapper.blockStarted /\ ShouldStartNewBlock(c)
  <2>1. PICK i \in Nat : i = wrapper.index + 1
    BY <1>1
  <2>2. PICK d, b, s : d = Translated(c, i) /\ b = StartOf(c, i) /\ s = BlockStop(i - 1)
    OBVIOUS
  <2>3. /\ queue' = Switched(c, i)
        /\ wrapper' = [wrapper EXCEPT !.index = i, !.blockType = BlockType(c)]
    BY <1>1, <1>4, <2>1 DEF Process, Translate, Unfinished, WrapperType
  <2>4. /\ wrapper'.index = i /\ wrapper'.blockStarted
        /\ wrapper'.firstSent = wrapper.firstSent
    BY <1>1, <1>4, <2>3 DEF WrapperType
  <2>5. queue' = <<s, b>> \o (IF IsDelta(d) THEN <<d>> ELSE <<>>)
    BY <2>2, <2>3 DEF Switched, IsDelta
  <2>6. CASE IsDelta(d)
    <3>1. queue' = <<s, b, d>>
      BY <2>5, <2>6, ThreeOf
    <3> QED BY <1>1, <2>1, <2>2, <2>4, <3>1
  <2>7. CASE ~IsDelta(d)
    <3>1. <<s, b>> \in Seq({s, b})
      OBVIOUS
    <3>2. queue' = <<s, b>>
      BY <2>5, <2>7, <3>1, ConcatEmptySeq
    <3> QED BY <1>1, <2>1, <2>2, <2>4, <2>7, <3>2
  <2> QED BY <2>6, <2>7
<1>5. CASE wrapper.blockStarted /\ ~ShouldStartNewBlock(c)
  <2>1. PICK i \in Nat : i = wrapper.index
    BY <1>1
  <2>2. PICK d, b : d = Translated(c, i) /\ b = StartOf(c, i)
    OBVIOUS
  <2>3. d.type # "message_delta" /\ c.kind # "usage"
    BY <1>1, <2>2 DEF Translated, Kind, Ping, Delta, Event
  <2>4. /\ queue' = <<d>>
        /\ wrapper' = [wrapper EXCEPT !.index = i, !.blockType = wrapper.blockType]
    BY <1>1, <1>5, <2>1, <2>2, <2>3 DEF Process, Translate, Unfinished, WrapperType
  <2>5. /\ wrapper'.index = i /\ wrapper'.blockStarted
        /\ wrapper'.firstSent = wrapper.firstSent
    BY <1>1, <1>5, <2>4 DEF WrapperType
  <2> QED BY <2>1, <2>2, <2>4, <2>5
<1> QED BY <1>2, <1>3, <1>4, <1>5

\* The delta of a chunk bears it, if there is anything to bear.
LEMMA ChunkBears ==
  ASSUME NEW c \in Chunk, NEW i \in Nat, NEW d, d = Translated(c, i), NEW b, b = StartOf(c, i)
  PROVE  /\ ~IsDelta(b) /\ b.type # "content_block_stop"
         /\ d.type \in {"ping", "content_block_delta"}
         /\ IsDelta(d) => d.index = i
         /\ c.kind \notin {"blank", "signature"} => Bears(d, c.n)
         /\ IsDelta(d) /\ d.pieces # <<>> =>
              /\ d.pieces = <<c.n>> /\ c.kind \notin {"blank", "signature"}
              /\ d.of = "text" \/ c.kind \notin {"text", "reasoning", "thinking"}
<1>1. c.kind \in Kind
  BY DEF Chunk
<1>2. ~IsDelta(b) /\ b.type # "content_block_stop"
  BY DEF StartOf, BlockStart, Event, IsDelta
<1>3. /\ d.type \in {"ping", "content_block_delta"}
      /\ IsDelta(d) => d.index = i
  BY <1>1 DEF Translated, Kind, Ping, Delta, Event, IsDelta
<1>4. ASSUME c.kind \notin {"blank", "signature"}
      PROVE  /\ IsDelta(d) /\ d.pieces = <<c.n>>
             /\ d.of = "text" \/ c.kind \notin {"text", "reasoning", "thinking"}
  BY <1>1, <1>4 DEF Translated, Kind, Delta, Event, IsDelta
<1>5. ASSUME c.kind \in {"blank", "signature"}
      PROVE  ~IsDelta(d) \/ d.pieces = <<>>
  BY <1>1, <1>5 DEF Translated, Kind, Ping, Delta, Event, IsDelta
<1>6. Range(<<c.n>>) = {c.n}
  BY RangeShort
<1> QED BY <1>2, <1>3, <1>4, <1>5, <1>6 DEF Bears

\* A piece that has not come was not given out.
LEMMA OldPieces ==
  ASSUME OneByOne, NEW e \in Range(emitted), NEW n, Bears(e, n)
  PROVE  n \in DOMAIN got
<1>1. IsDelta(e) /\ n \in Range(e.pieces)
  BY DEF Bears
<1>2. e.pieces # <<>>
  BY <1>1, RangeShort
<1>3. PICK m \in DOMAIN got : e.pieces = <<m>>
  BY <1>1, <1>2 DEF OneByOne
<1>4. Range(<<m>>) = {m}
  BY RangeShort
<1> QED BY <1>1, <1>3, <1>4

LEMMA ContentKeeps ==
  ASSUME AInv, NEW kind \in Kind, NEW mark \in Mark \cup {"plain"}, ReceiveContent(kind, mark)
  PROVE  /\ Kept' /\ HeldSound' /\ BlocksSound' /\ ReasonSound'
         /\ NewestLast' /\ (NoMarkup' => OneByOne')
<1>0. got \in Seq(Chunk) /\ Len(got) \in Nat /\ TypeOK /\ InnerSound
  BY LenProperties DEF AInv, SInv, TypeOK
<1>1. PICK c \in Chunk : c = NextChunk(kind, mark)
  <2>1. NextChunk(kind, mark) \in Chunk
    BY <1>0 DEF NextChunk, Chunk
  <2> QED BY <2>1
<1>2. /\ Waiting /\ upstream = "content" /\ upstream' = "content"
      /\ c.mark = "plain" \/ c.kind \in {"text", "reasoning", "thinking"}
      /\ UNCHANGED <<outer, pending, emitted>>
      /\ got' = Append(got, c) /\ Process(c) /\ c.n = Len(got) + 1
  BY <1>1 DEF ReceiveContent, NextChunk
<1>3. PICK n \in Nat : n = Len(got) + 1
  BY <1>0
<1>4. /\ DOMAIN got = 1..Len(got) /\ DOMAIN got' = 1..n /\ Len(got') = n
      /\ \A j \in DOMAIN got : got'[j] = got[j]
      /\ got'[n] = c /\ n \in DOMAIN got' /\ c.n = n
      /\ n \notin DOMAIN got /\ DOMAIN got' = DOMAIN got \cup {n}
  <2>1. /\ got' \in Seq(Chunk) /\ Len(got') = Len(got) + 1
        /\ \A j \in 1..Len(got) : got'[j] = got[j]
        /\ got'[Len(got) + 1] = c
    BY <1>0, <1>2, AppendProperties
  <2> QED BY <1>0, <1>2, <1>3, <2>1, LenProperties
<1>5. /\ queue = <<>> /\ Range(queue) = {} /\ OnTheWay = Range(emitted)
      /\ Range(emitted) \subseteq OnTheWay'
  BY <1>2, NothingComes DEF AInv
<1>6. \/ c.kind = "blank" /\ UNCHANGED <<wrapper, queue>>
      \/ \E i \in Nat : \E d, b :
              /\ i = wrapper'.index /\ d = Translated(c, i) /\ b = StartOf(c, i)
              /\ wrapper.index <= i /\ wrapper'.blockStarted
              /\ wrapper'.firstSent = wrapper.firstSent
              /\ \/ queue' = <<d>> \/ queue' = <<b, d>>
                 \/ /\ wrapper.index < i
                    /\ \/ queue' = <<BlockStop(i - 1), b>> /\ ~IsDelta(d)
                       \/ queue' = <<BlockStop(i - 1), b, d>>
  BY <1>0, <1>2, <1>5, ContentQueue
<1>7. /\ \A j \in DOMAIN got : Carries(j)' = Carries(j)
      /\ Carries(n)' => c.kind \notin {"blank", "signature"}
      /\ NoMarkup' => NoMarkup
  BY <1>4 DEF Carries, NoMarkup
<1>8. NoMarkup' => OneByOne'
  <2> SUFFICES ASSUME OneByOne PROVE OneByOne'
    BY <1>7 DEF AInv
  <2>1. ASSUME NEW e \in Range(emitted), IsDelta(e)
        PROVE  e.pieces = <<>> \/ \E m \in DOMAIN got' : e.pieces = <<m>> /\ Carries(m)'
    BY <1>4, <1>7, <2>1 DEF OneByOne
  <2>2. ASSUME NEW k \in DOMAIN emitted, NEW l \in DOMAIN emitted,
               NEW x \in DOMAIN got', NEW y \in DOMAIN got',
               k < l, Bears(emitted[k], x), Bears(emitted[l], y)
        PROVE  x < y
    <3>1. emitted[k] \in Range(emitted) /\ emitted[l] \in Range(emitted)
      BY DEF Range
    <3>2. x \in DOMAIN got /\ y \in DOMAIN got
      BY <2>2, <3>1, OldPieces
    <3> QED BY <2>2, <3>2 DEF OneByOne
  <2> QED BY <1>2, <2>1, <2>2 DEF OneByOne, Bears, IsDelta
<1>9. NoMarkup' => \A e \in Range(emitted') : ~Bears(e, n)
  BY <1>2, <1>4, <1>7, OldPieces DEF AInv
<1>10. ASSUME \A i \in DOMAIN got' : Carries(i)' /\ i = n => \E e \in OnTheWay' : Bears(e, i)
       PROVE  Kept'
  BY <1>2, <1>4, <1>5, <1>7, <1>10 DEF AInv, Kept, Bears, IsDelta
<1>11. CASE c.kind = "blank" /\ UNCHANGED <<wrapper, queue>>
  <2>1. Kept'
    BY <1>7, <1>10, <1>11
  <2>2. HeldSound' /\ BlocksSound'
    BY <1>2, <1>5, <1>11 DEF AInv, HeldSound, BlocksSound
  <2>3. NewestLast'
    BY <1>5, <1>11, NoDeltas
  <2>4. ReasonSound'
    BY <1>2, <1>4, <1>11 DEF AInv, ReasonSound
  <2> QED BY <1>8, <2>1, <2>2, <2>3, <2>4
<1>12. ASSUME NEW i \in Nat, NEW d, NEW b,
              i = wrapper'.index, d = Translated(c, i), b = StartOf(c, i),
              wrapper.index <= i, wrapper'.blockStarted, wrapper'.firstSent = wrapper.firstSent,
              \/ queue' = <<d>> \/ queue' = <<b, d>>
              \/ /\ wrapper.index < i
                 /\ \/ queue' = <<BlockStop(i - 1), b>> /\ ~IsDelta(d)
                    \/ queue' = <<BlockStop(i - 1), b, d>>
       PROVE  Kept' /\ HeldSound' /\ BlocksSound' /\ ReasonSound' /\ NewestLast'
  <2>1. /\ ~IsDelta(b) /\ b.type # "content_block_stop"
        /\ d.type \in {"ping", "content_block_delta"}
        /\ IsDelta(d) => d.index = i
        /\ c.kind \notin {"blank", "signature"} => Bears(d, n)
        /\ IsDelta(d) /\ d.pieces # <<>> =>
              /\ d.pieces = <<n>> /\ c.kind \notin {"blank", "signature"}
              /\ d.of = "text" \/ c.kind \notin {"text", "reasoning", "thinking"}
    BY <1>4, <1>12, ChunkBears
  <2> DEFINE s == BlockStop(i - 1)
  <2>2. s.type = "content_block_stop" /\ s.index = i - 1 /\ ~IsDelta(s)
    BY DEF BlockStop, Event, IsDelta
  <2> HIDE DEF s
  <2>3. \/ queue' = <<d>> \/ queue' = <<b, d>>
        \/ wrapper.index < i /\ ((queue' = <<s, b>> /\ ~IsDelta(d)) \/ queue' = <<s, b, d>>)
    BY <1>12 DEF s
  <2>4. /\ \A e \in Range(queue') : e = d \/ e = b \/ e = s
        /\ IsDelta(d) => d \in Range(queue')
    BY <2>3, RangeShort
  <2>5. \A l \in DOMAIN queue' : IsDelta(queue'[l]) => queue'[l] = d /\ l = Len(queue')
    <3>1. CASE queue' = <<d>>
      <4>1. DOMAIN <<d>> = {1} /\ Len(<<d>>) = 1 /\ <<d>>[1] = d
        OBVIOUS
      <4> QED BY <3>1, <4>1
    <3>2. CASE queue' = <<b, d>>
      <4>1. /\ DOMAIN <<b, d>> = {1, 2} /\ Len(<<b, d>>) = 2
            /\ <<b, d>>[1] = b /\ <<b, d>>[2] = d
        OBVIOUS
      <4> QED BY <2>1, <3>2, <4>1
    <3>3. CASE queue' = <<s, b>>
      <4>1. DOMAIN <<s, b>> = {1, 2} /\ <<s, b>>[1] = s /\ <<s, b>>[2] = b
        OBVIOUS
      <4> QED BY <2>1, <2>2, <3>3, <4>1
    <3>4. CASE queue' = <<s, b, d>>
      <4>1. /\ DOMAIN <<s, b, d>> = {1, 2, 3} /\ Len(<<s, b, d>>) = 3
            /\ <<s, b, d>>[1] = s /\ <<s, b, d>>[2] = b /\ <<s, b, d>>[3] = d
        OBVIOUS
      <4> QED BY <2>1, <2>2, <3>4, <4>1
    <3> QED BY <2>3, <3>1, <3>2, <3>3, <3>4
  <2>6. Kept'
    <3>1. c.kind \notin {"blank", "signature"} => d \in OnTheWay' /\ Bears(d, n)
      BY <2>1, <2>4 DEF OnTheWay, Bears
    <3> QED BY <1>7, <1>10, <3>1
  <2>7. HeldSound'
    BY <1>2, <1>12 DEF AInv, HeldSound
  <2>8. BlocksSound'
    <3>0. wrapper.index \in Nat /\ outer.stopped \subseteq Nat
      BY <1>0 DEF TypeOK, WrapperType, OuterType
    <3>1. \A x \in outer'.stopped : x < wrapper'.index
      BY <1>2, <1>12, <3>0 DEF AInv, BlocksSound
    <3>2. \A e \in Range(queue') : IsDelta(e) => e.index = wrapper'.index
      BY <1>12, <2>1, <2>2, <2>4
    <3>3. \A e \in Range(queue') : e.type = "content_block_stop" => e.index < wrapper'.index
      BY <1>12, <2>1, <2>2, <2>4
    <3> QED BY <1>2, <3>1, <3>2, <3>3 DEF BlocksSound, IsDelta
  <2>9. ReasonSound'
    BY <1>2, <1>12 DEF ReasonSound
  <2>10. NewestLast'
    <3>1. IsDelta(d) /\ d.pieces # <<>> => IsNewest(d)'
      BY <1>2, <1>4, <1>9, <2>1 DEF IsNewest, Bears, IsDelta
    <3> QED BY <2>5, <3>1 DEF NewestLast, IsDelta
  <2> QED BY <2>6, <2>7, <2>8, <2>9, <2>10
<1> QED BY <1>6, <1>8, <1>11, <1>12

\* Nothing but the handler changes.
LEMMA HandlerKeeps ==
  ASSUME AInv, UNCHANGED <<got, upstream, wrapper, queue, outer, pending, emitted>>
  PROVE  /\ Kept' /\ HeldSound' /\ BlocksSound' /\ ReasonSound'
         /\ NewestLast' /\ (NoMarkup' => OneByOne')
<1>1. /\ OnTheWay' = OnTheWay /\ StopReason' = StopReason /\ NoMarkup' = NoMarkup
      /\ \A i : Carries(i)' = Carries(i)
  BY DEF OnTheWay, StopReason, NoMarkup, Carries
<1>2. Kept' /\ HeldSound' /\ BlocksSound' /\ ReasonSound'
  BY <1>1 DEF AInv, Kept, HeldSound, BlocksSound, ReasonSound, Bears, IsDelta
<1>3. NewestLast'
  BY <1>1 DEF AInv, NewestLast, IsNewest, Bears, IsDelta
<1>4. NoMarkup' => OneByOne'
  BY <1>1 DEF AInv, OneByOne, Bears, IsDelta
<1> QED BY <1>2, <1>3, <1>4

LEMMA NextKeeps ==
  ASSUME AInv, [Next]_vars
  PROVE  /\ Kept' /\ HeldSound' /\ BlocksSound' /\ ReasonSound'
         /\ NewestLast' /\ (NoMarkup' => OneByOne')
<1>0. /\ TypeOK /\ Kept /\ HeldSound /\ BlocksSound /\ ReasonSound
      /\ NewestLast /\ (NoMarkup => OneByOne) /\ (NoMarkup => Quiet)
  BY DEF AInv, IInv, Flow
<1>1. CASE StartMessage
  BY <1>1, StartKeeps
<1>2. ASSUME NEW kind \in Kind, NEW mark \in Mark \cup {"plain"}, ReceiveContent(kind, mark)
      PROVE  /\ Kept' /\ HeldSound' /\ BlocksSound' /\ ReasonSound'
             /\ NewestLast' /\ (NoMarkup' => OneByOne')
  BY <1>2, ContentKeeps
<1>3. CASE ReceiveFinish \/ ReceiveUsage \/ ReceiveEnd
  BY <1>3, FinishKeeps, UsageKeeps, EndKeeps
<1>4. CASE Take
  BY <1>0, <1>4, TakeKeeps, TakeOrdered
<1>5. CASE GivePending
  BY <1>0, <1>5, PendingKeeps, PendingOrdered
<1>6. CASE ReceiveError \/ Timeout \/ Stop \/ UNCHANGED vars
  <2>1. UNCHANGED <<got, upstream, wrapper, queue, outer, pending, emitted>>
    BY <1>6 DEF ReceiveError, Timeout, Stop, vars
  <2> QED BY <2>1, HandlerKeeps
<1> QED BY <1>1, <1>2, <1>3, <1>4, <1>5, <1>6 DEF Next

\* At the end of a stream nothing is on its way any more.
Settled ==
  phase = "done" => /\ queue = <<>> /\ pending = <<>> /\ upstream = "ended"

LEMMA NextSettled ==
  ASSUME TypeOK, Settled, [Next]_vars
  PROVE  Settled'
<1>1. CASE Stop
  BY <1>1 DEF Stop, Waiting, Settled
<1>2. CASE Take \/ GivePending
  <2>1. ASSUME NEW e, Emit(e), Open PROVE phase' # "done"
    BY <2>1 DEF Emit, Open
  <2>2. ASSUME NEW events, NEW o, Give(events, o), Open PROVE phase' # "done"
    <3> DEFINE e == Head(events)
    <3>1. Emit(Delta(e.index, "signature", <<>>)) \/ Emit(e)
      BY <2>2 DEF Give
    <3> HIDE DEF e
    <3> QED BY <2>1, <2>2, <3>1
  <2>3. CASE GivePending
    BY <2>1, <2>3 DEF GivePending, Settled
  <2>4. CASE Take
    <3> DEFINE e == Converted(Head(queue))
    <3>1. Open /\ (Drop(e) \/ HoldBack(e) \/ Parse(e) \/ Flush(e) \/ Pass(e))
      BY <2>4 DEF Take
    <3> HIDE DEF e
    <3>2. CASE Drop(e) \/ HoldBack(e)
      BY <3>1, <3>2 DEF Drop, HoldBack, Open, Settled
    <3>3. CASE Pass(e)
      BY <2>2, <3>1, <3>3 DEF Pass, Settled
    <3>4. CASE Parse(e) \/ Flush(e)
      BY <2>2, <3>1, <3>4 DEF Parse, Flush, Settled
    <3> QED BY <3>1, <3>2, <3>3, <3>4
  <2> QED BY <1>2, <2>3, <2>4
<1>3. CASE StartMessage
  BY <1>3 DEF StartMessage, Open, Settled
<1>4. ASSUME NEW kind, NEW mark, ReceiveContent(kind, mark)
      PROVE  Settled'
  BY <1>4 DEF ReceiveContent, Waiting, Open, Settled
<1>5. CASE ReceiveFinish \/ ReceiveUsage \/ ReceiveEnd
  BY <1>5 DEF ReceiveFinish, ReceiveUsage, ReceiveEnd, Waiting, Open, Settled
<1>6. CASE ReceiveError \/ Timeout
  BY <1>6 DEF ReceiveError, Timeout, Settled
<1>7. CASE UNCHANGED vars
  BY <1>7 DEF vars, Settled
<1> QED BY <1>1, <1>2, <1>3, <1>4, <1>5, <1>6, <1>7 DEF Next

\* The end of the stream finds all of it given out.
LEMMA SettledArrives ==
  ASSUME AInv, Settled
  PROVE  AllArrives
<1> SUFFICES ASSUME phase = "done" PROVE
    /\ \A i \in DOMAIN got : Carries(i) =>
         i \in outer.lost \/ \E e \in Range(emitted) : Bears(e, i)
    /\ (\E i \in DOMAIN got : got[i].kind # "blank")
         => MessageDelta(StopReason) \in Range(emitted)
    /\ NoMarkup => OneByOne /\ outer.lost = {}
  BY DEF AllArrives
<1>1. queue = <<>> /\ pending = <<>> /\ upstream = "ended"
  BY DEF Settled
<1>2. OnTheWay = Range(emitted)
  BY <1>1, RangeShort DEF OnTheWay
<1>3. Range(outer.buffer) = {}
  BY <1>1, RangeShort DEF AInv, SInv, TypeOK, OuterType, HeldSound
<1>4. \A i \in DOMAIN got : Carries(i) =>
        i \in outer.lost \/ \E e \in Range(emitted) : Bears(e, i)
  BY <1>2, <1>3 DEF AInv, Kept
<1>5. (\E i \in DOMAIN got : got[i].kind # "blank")
        => MessageDelta(StopReason) \in Range(emitted)
  BY <1>1, <1>2 DEF AInv, ReasonSound
<1>6. NoMarkup => OneByOne /\ outer.lost = {}
  BY DEF AInv, IInv, Flow, Quiet
<1> QED BY <1>4, <1>5, <1>6

\* What a reader must get is never lost while it is on its way, in any stream,
\* but for what the recogniser takes out of a text without a use for it.
THEOREM DeliveryInvariance == Spec => []AInv
<1> DEFINE Inv == /\ Kept /\ HeldSound /\ BlocksSound /\ ReasonSound
                  /\ NewestLast /\ (NoMarkup => OneByOne)
<1>1. Init => Inv
  <2> SUFFICES ASSUME Init PROVE Inv
    OBVIOUS
  <2>1. /\ emitted = <<>> /\ queue = <<>> /\ pending = <<>> /\ got = <<>>
        /\ Range(<<>>) = {} /\ DOMAIN <<>> = {}
        /\ upstream = "content" /\ ~wrapper.blockStarted
        /\ outer.buffer = <<>> /\ outer.stopped = {}
    <3>1. <<>> \in Seq(Nat) /\ Len(<<>>) = 0
      BY EmptySeq
    <3>2. DOMAIN <<>> = {}
      BY <3>1, LenProperties
    <3> QED BY <3>2, RangeShort DEF Init
  <2>2. Kept /\ HeldSound /\ BlocksSound /\ ReasonSound
    BY <2>1 DEF Kept, HeldSound, BlocksSound, ReasonSound
  <2>3. NewestLast /\ OneByOne
    BY <2>1 DEF NewestLast, OneByOne
  <2> QED BY <2>2, <2>3
<1>2. SInv /\ IInv /\ Inv /\ [Next]_vars => Inv'
  BY NextKeeps DEF AInv
<1>3. AInv <=> SInv /\ IInv /\ Inv
  BY DEF AInv
<1> HIDE DEF Inv
<1> QED BY <1>1, <1>2, <1>3, SignatureInvariance, Invariance, PTL DEF Spec

\* In a complete stream everything the provider sent has arrived, also text that
\* was held back, but for what the recogniser took out of it, and the stop reason
\* too; and without calls in the text each piece, once and in order.
THEOREM ArrivesCorrect == Spec => []AllArrives
<1>1. Init => Settled
  BY DEF Init, Settled
<1>2. AInv /\ Settled /\ [Next]_vars => Settled'
  BY NextSettled DEF AInv, SInv
<1>3. AInv /\ Settled => AllArrives
  BY SettledArrives
<1> QED BY <1>1, <1>2, <1>3, DeliveryInvariance, PTL DEF Spec
=============================================================================
