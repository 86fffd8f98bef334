----------------------------- MODULE StreamRepair -----------------------------
(***************************************************************************)
(* What the gateway makes of a reply that comes as a stream of             *)
(* Server-Sent Events: the frames of a message, the sanitizer every frame  *)
(* goes through, and the readers that look for calls and text in a stream  *)
(* that was held back and may answer in its place.                         *)
(*                                                                         *)
(* A frame is one event; an item, what one read returns, is a whole frame  *)
(* or one half of a frame the transport cut in two.                        *)
(***************************************************************************)
EXTENDS ReplyRepair

None == [ev |-> "none"]

\* The hook's events are told from the provider's by their origin.
Origin == {"hook", "provider"}
Own(f, part) == [by |-> "provider", f |-> f, part |-> part]
Made(f)      == [by |-> "hook", f |-> f, part |-> "whole"]
Ping         == Made([ev |-> "ping"])

Open(i, b)  == [ev |-> "open", i |-> i, b |-> b]
Delta(i, b) == [ev |-> "delta", i |-> i, b |-> b]
Close(i)    == [ev |-> "close", i |-> i]
Stray       == [k |-> "think", t |-> "stray", big |-> FALSE]

\* A "leaky" text has thinking deltas in its block and after it.
BlockFrames(b, i) ==
    IF b.k = "text" /\ b.t = "leaky"
    THEN <<Open(i, b), Delta(i, b), Delta(i, Stray), Close(i), Delta(i, Stray)>>
    ELSE <<Open(i, b), Delta(i, b), Close(i)>>

FramesOf(body) ==
    <<[ev |-> "start"]>>
    \o Joined([i \in DOMAIN body |-> BlockFrames(body[i], i - 1)])
    \o <<[ev |-> "end"]>>

-----------------------------------------------------------------------------
(* The sanitizer.  It joins the halves of a frame, knows the blocks that   *)
(* are open, and drops a thinking delta outside a thinking block.          *)

Start == [thinking |-> {}, held |-> None, given |-> << >>]

Sanitize(s, f) ==
    CASE f.ev = "open" ->
           [s EXCEPT !.thinking = IF f.b.k = "think" THEN @ \cup {f.i} ELSE @ \ {f.i},
                     !.given = Append(@, Own(f, "whole"))]
      [] f.ev = "close" ->
           [s EXCEPT !.thinking = @ \ {f.i}, !.given = Append(@, Own(f, "whole"))]
      [] f.ev = "delta" /\ f.b.k = "think" /\ f.i \notin s.thinking -> s
      [] OTHER -> [s EXCEPT !.given = Append(@, Own(f, "whole"))]

Feed(s, it) ==
    IF it.part = "head" THEN [s EXCEPT !.held = it.f]
    ELSE Sanitize([s EXCEPT !.held = None], it.f)

Fed(items) ==
    LET fed[n \in 0..Len(items)] == IF n = 0 THEN Start ELSE Feed(fed[n-1], items[n])
    IN  fed[Len(items)]

\* A head whose tail did not come is given as it is.
Flush(s) ==
    IF s.held = None THEN s.given ELSE Append(s.given, Own(s.held, "head"))

-----------------------------------------------------------------------------
(* What the readers of the buffer make of it.  They look at each item on   *)
(* its own: an event that was cut in two is not seen.                      *)

Readable(items) ==
    LET whole == Picked(items, {j \in DOMAIN items : items[j].part = "whole"})
    IN  [j \in DOMAIN whole |-> whole[j].f]

\* A call is seen by its start, which names the tool, or by its arguments.
CallsSeen(items) ==
    {f.i : f \in {g \in Range(Readable(items)) : g.ev \in {"open", "delta"} /\ g.b.k = "use"}}
SeenCall(items, i) ==
    LET of(ev) == {f \in Range(Readable(items)) : f.ev = ev /\ f.i = i /\ f.b.k = "use"}
    IN  [tool |-> IF of("open") = {} THEN "none" ELSE (CHOOSE f \in of("open") : TRUE).b.tool,
         step |-> IF of("delta") = {} THEN 0 ELSE (CHOOSE f \in of("delta") : TRUE).b.step,
         good |-> of("delta") # {} /\ (CHOOSE f \in of("delta") : TRUE).b.good]

TextSeen(items, kind) ==
    LET fs     == Readable(items)
        deltas == Picked(fs, {j \in DOMAIN fs : fs[j].ev = "delta" /\ fs[j].b.k = kind})
    IN  [j \in DOMAIN deltas |-> deltas[j].b.t]
SaidSeen(items) ==
    IF TextSeen(items, "text") # << >> THEN TextSeen(items, "text")
    ELSE TextSeen(items, "think")

NoMessage == << >>

\* mutant: any call of the planned tool passes for the planned one
RewriteByName(items, req) ==
    IF /\ Replaceable(req)
       /\ \E i \in CallsSeen(items) :
              CallsSeen(items) = {i} /\ SeenCall(items, i).tool # req.next.tool
    THEN <<PlannedCall(req)>> ELSE NoMessage

PlannedRewrite(items, req) ==
    IF /\ Replaceable(req)
       /\ \E i \in CallsSeen(items) :
              /\ CallsSeen(items) = {i}
              /\ ~AsPlanned(SeenCall(items, i), req)
    THEN <<PlannedCall(req)>> ELSE NoMessage

\* Calls in the text, or else in the reasoning; overlaps are not looked for.
WrittenCalls(items, req) ==
    LET calls(kind) ==
            IF TextSeen(items, kind) = << >> THEN << >>
            ELSE CallsOf(Extracted(Head(TextSeen(items, kind)), req))
    IN  IF calls("text") # << >> THEN calls("text") ELSE calls("think")

FirstOf(bodies) ==
    LET some == {i \in DOMAIN bodies : bodies[i] # NoMessage}
    IN  IF some = {} THEN NoMessage ELSE bodies[Min(some)]

\* Unlike the hook for whole replies it does not ask what the reply says
\* before it makes the planned call of an agent.
NativeOrPlanned(items, req) ==
    IF CallsSeen(items) # {} THEN NoMessage
    ELSE FirstOf(<<WrittenCalls(items, req),
                   IF IsPlanned(req, "Read") THEN <<PlannedCall(req)>> ELSE NoMessage,
                   IF "Agent" \in req.tools /\ req.agent = "call"
                   THEN <<Use("Agent", 0, TRUE)>> ELSE NoMessage>>)

Command(items, req) ==
    IF ~CommandTool(req) \/ CallsSeen(items) # {} THEN NoMessage
    ELSE IF IsCommand(SaidSeen(items)) THEN <<Use("Bash", 0, TRUE)>>
    ELSE IF IsPlanned(req, "Bash") THEN <<PlannedCall(req)>> ELSE NoMessage

FinalText(items, req) ==
    IF req.agent = "final" /\ CallsSeen(items) = {} /\ IsAck(SaidSeen(items))
    THEN <<Text("final")>> ELSE NoMessage

\* When a read takes long only the rewriting looks at what was read.
EarlyAnswer(items, req) ==
    FirstOf(<<PlannedRewrite(items, req), NativeOrPlanned(<< >>, req), Command(<< >>, req)>>)
LateAnswer(items, req) ==
    FirstOf(<<PlannedRewrite(items, req), NativeOrPlanned(items, req), Command(items, req),
              FinalText(items, req)>>)

MadeMessage(body) == LET fs == FramesOf(body) IN [j \in DOMAIN fs |-> Made(fs[j])]
=============================================================================
