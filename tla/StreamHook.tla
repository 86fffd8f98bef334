------------------------------ MODULE StreamHook ------------------------------
(***************************************************************************)
(* The gateway's streaming hook (async_post_call_streaming_iterator_hook)  *)
(* between a provider's stream of Server-Sent Events and the client.       *)
(*                                                                         *)
(* A stream the hook may not touch passes as it is; one without tools      *)
(* passes through the sanitizer, which drops thinking deltas outside       *)
(* thinking blocks; one with tools is held back until it is complete, as   *)
(* its calls may have to be rewritten.  Meanwhile a read of the provider   *)
(* is pending, and each time it takes too long the hook either answers     *)
(* from the plan in the prompt or keeps the client waiting with a ping.    *)
(***************************************************************************)
EXTENDS StreamRepair

CONSTANTS
    Requests,   \* requests: ReplyRepair's record and shape, of Shape
    Messages,   \* what a provider may answer: sequences of blocks
    MaxCuts,    \* bound: frames, one after the other, that are cut in two
    MaxPings    \* bound: pings that are recorded

Block == [k : {"text", "think"}, t : STRING, big : BOOLEAN]
         \cup [k : {"use"}, tool : STRING, step : Nat, good : BOOLEAN]

Shape == {"raw", "messages"}    \* an Anthropic messages stream or any other

ASSUME HookAssumption ==
    /\ Messages \subseteq Seq(Block)
    /\ \A r \in Requests : r.shape \in Shape

VARIABLES
    req,        \* the request
    message,    \* the frames of the provider's answer
    cut,        \* which of them the transport cuts in two
    sent,       \* how many it has sent, and whether it has sent the head of
    half,       \* the next
    pending,    \* the read of the provider: "none", "running", "done", "canceled"
    item,       \* what a read that is done returned
    buffered,   \* the items read, of a stream that is held back
    sanitizer,  \* its open thinking blocks, its buffer and its output
    queue,      \* what is to be given to the client
    out,        \* what the client was given
    pc          \* where the hook is suspended or how it ended

vars == <<req, message, cut, sent, half, pending, item, buffered, sanitizer, queue, out, pc>>

Buffers(r) == r.shape = "messages" /\ (r.tools # {} \/ r.agent = "final")
Sanitizes(r) == r.shape = "messages" /\ ~Buffers(r)

-----------------------------------------------------------------------------

Init ==
    /\ req \in Requests
    /\ message \in {FramesOf(b) : b \in Messages}
    /\ cut \in {i..j : i, j \in DOMAIN message} /\ Cardinality(cut) <= MaxCuts
    /\ sent = 0
    /\ half = FALSE
    /\ pending = "running"
    /\ item = None
    /\ buffered = << >>
    /\ sanitizer = Start
    /\ queue = << >>
    /\ out = << >>
    /\ pc = "wait"

\* The provider, which works only while a read is running.
Returns(it) ==
    /\ pending = "running"
    /\ pending' = "done"
    /\ item' = it
    /\ UNCHANGED <<req, message, cut, buffered, sanitizer, queue, out, pc>>

Coming == sent < Len(message)

SendWhole ==
    /\ Coming /\ sent + 1 \notin cut
    /\ sent' = sent + 1 /\ UNCHANGED half
    /\ Returns(Own(message[sent + 1], "whole"))

SendHead ==
    /\ Coming /\ sent + 1 \in cut /\ ~half
    /\ half' = TRUE /\ UNCHANGED sent
    /\ Returns(Own(message[sent + 1], "head"))

SendTail ==
    /\ half
    /\ half' = FALSE /\ sent' = sent + 1
    /\ Returns(Own(message[sent + 1], "tail"))

\* The stream ends, if need be early, or breaks.
SendEnd   == UNCHANGED <<sent, half>> /\ Returns([part |-> "end"])
SendError == UNCHANGED <<sent, half>> /\ Returns([part |-> "error"])

Provider == SendWhole \/ SendHead \/ SendTail \/ SendEnd \/ SendError

-----------------------------------------------------------------------------
(* The hook.                                                               *)

Taken == pc = "wait" /\ pending = "done" /\ item' = None

\* The hook reads on, in the same step: nothing is awaited in between.
ReadOn == pc' = "wait" /\ pending' = "running"

\* mutant: the loop waits on without a new read
KeepWithoutRead ==
    /\ Taken /\ item.part \in {"whole", "head", "tail"} /\ Buffers(req)
    /\ buffered' = Append(buffered, item)
    /\ pending' = "none" /\ UNCHANGED pc
    /\ UNCHANGED <<req, message, cut, sent, half, sanitizer, queue, out>>

\* What a read returned is kept, or given to the client at once.
Keep ==
    /\ Taken /\ item.part \in {"whole", "head", "tail"} /\ Buffers(req)
    /\ buffered' = Append(buffered, item)
    /\ ReadOn
    /\ UNCHANGED <<req, message, cut, sent, half, sanitizer, queue, out>>

PassOn ==
    /\ Taken /\ item.part \in {"whole", "head", "tail"} /\ ~Buffers(req)
    /\ IF Sanitizes(req)
       THEN LET fed == Feed(sanitizer, item)
            IN  sanitizer' = [fed EXCEPT !.given = << >>] /\ queue' = fed.given
       ELSE UNCHANGED sanitizer /\ queue' = <<item>>
    /\ IF queue' = << >> THEN ReadOn ELSE pc' = "pass" /\ pending' = "none"
    /\ UNCHANGED <<req, message, cut, sent, half, buffered, out>>

\* Tried only while a stream is held back.
TimedOut ==
    /\ pc = "wait" /\ pending = "running" /\ Buffers(req)
    /\ IF EarlyAnswer(buffered, req) # NoMessage
       THEN /\ queue' = MadeMessage(EarlyAnswer(buffered, req))
            /\ pending' = "canceled" /\ pc' = "last"
       ELSE /\ Len(SelectSeq(out, LAMBDA e : e = Ping)) < MaxPings
            /\ queue' = <<Ping>>
            /\ pc' = "ping" /\ UNCHANGED pending
    /\ UNCHANGED <<req, message, cut, sent, half, item, buffered, sanitizer, out>>

Finish ==
    /\ Taken /\ item.part = "end" /\ pending' = "none"
    /\ queue' = IF ~Buffers(req) THEN Flush(sanitizer)
                ELSE IF LateAnswer(buffered, req) # NoMessage THEN MadeMessage(LateAnswer(buffered, req))
                ELSE Flush(Fed(buffered))
    /\ pc' = IF queue' = << >> THEN "ended" ELSE "last"
    /\ UNCHANGED <<req, message, cut, sent, half, buffered, sanitizer, out>>

Raise ==
    /\ Taken /\ item.part = "error" /\ pending' = "none"
    /\ pc' = "raised"
    /\ UNCHANGED <<req, message, cut, sent, half, buffered, sanitizer, queue, out>>

\* The client takes the next event.
Give ==
    /\ pc \in {"pass", "ping", "last"}
    /\ out' = Append(out, Head(queue)) /\ queue' = Tail(queue)
    /\ IF Len(queue) = 1 /\ pc = "pass" THEN ReadOn
       ELSE /\ pc' = IF Len(queue) > 1 THEN pc ELSE IF pc = "ping" THEN "wait" ELSE "ended"
            /\ UNCHANGED pending
    /\ UNCHANGED <<req, message, cut, sent, half, item, buffered, sanitizer>>

\* mutant: no finally clause
DisconnectLeavesRead ==
    /\ pc \in {"wait", "pass", "ping", "last"}
    /\ pc' = "closed" /\ queue' = << >>
    /\ UNCHANGED <<req, message, cut, sent, half, pending, item, buffered, sanitizer, out>>

\* The client goes away: the generator is closed where it is suspended, or
\* canceled where it waits, and its finally clause ends the read.
Disconnect ==
    /\ pc \in {"wait", "pass", "ping", "last"}
    /\ pc' = "closed" /\ queue' = << >> /\ item' = None
    /\ pending' = IF pending = "running" THEN "canceled"
                  ELSE IF pending = "done" THEN "none" ELSE pending
    /\ UNCHANGED <<req, message, cut, sent, half, buffered, sanitizer, out>>

Hook == Keep \/ PassOn \/ TimedOut \/ Finish \/ Raise

Next == Provider \/ Hook \/ Give \/ Disconnect

Spec == Init /\ [][Next]_vars

\* The event loop runs the hook, a provider that is read sends, ends or
\* breaks, and a client takes what it is offered or goes away.  That a read
\* takes too long is never certain.
Fairness ==
    /\ WF_item(Taken)    \* by Keep, PassOn, Finish, Raise or Disconnect
    /\ WF_vars(Provider) /\ WF_vars(Give)

FairSpec == Spec /\ Fairness

-----------------------------------------------------------------------------
(* Properties.                                                             *)

Ended == pc \in {"ended", "raised", "closed"}

Given == Picked(out, {j \in DOMAIN out : out[j] # Ping})
FramesIn(items) ==
    LET whole == Picked(items, {j \in DOMAIN items : items[j].part # "head"})
    IN  [j \in DOMAIN whole |-> whole[j].f]
GivenFrames == FramesIn(Given)

\* The frames of the answer that a client can make sense of.
InThinking(j) ==
    \E k \in 1..(j - 1) :
        /\ message[k].ev = "open" /\ message[k].b.k = "think" /\ message[k].i = message[j].i
        /\ \A l \in k..j : message[l] # Close(message[j].i)
Sound(j) == message[j].ev = "delta" /\ message[j].b.k = "think" => InThinking(j)
SoundFrames ==
    Picked(SubSeq(message, 1, sent), {j \in 1..sent : req.shape = "raw" \/ Sound(j)})

\* What the hook makes up is one message, from its start to its end.
Continues(f, g) ==
    CASE g.ev = "open"  -> f.ev \in {"start", "close"}
      [] g.ev = "delta" -> f = Open(g.i, g.b)
      [] g.ev = "close" -> f.ev = "delta" /\ f.i = g.i
      [] g.ev = "end"   -> f.ev = "close"
      [] OTHER          -> FALSE
OneMessage(fs) == fs[1].ev = "start" /\ \A j \in 2..Len(fs) : Continues(fs[j - 1], fs[j])

\* The client gets either the provider's own answer, every sound frame once and
\* in order, or one made up in its place, never parts of both and never an
\* error in the middle of what was held back; pings come only before the
\* answer.  A chunk that arrives while a read times out, while a ping is taken
\* or in two halves is neither lost nor repeated, and the pending read does not
\* outlive the hook (handler.py:220-260).
StreamIntegrity ==
    /\ \A j \in DOMAIN out : out[j] = Ping =>
           Buffers(req) /\ \A k \in 1..(j - 1) : out[k] = Ping
    /\ \/ /\ \A e \in Range(Given) : e.by = "provider"
          /\ IsPrefix(GivenFrames, SoundFrames)
          /\ pc = "ended" => GivenFrames = SoundFrames
       \/ /\ Buffers(req)
          /\ \A e \in Range(Given) : e.by = "hook"
          /\ OneMessage(GivenFrames)
          /\ pc = "ended" => Last(GivenFrames).ev = "end"
    /\ pc = "raised" /\ Buffers(req) => Given = << >>
    /\ Ended => pending # "running"

\* The calls that fs starts.
CallsIn(fs) ==
    LET opens == Picked(fs, {j \in DOMAIN fs : fs[j].ev = "open" /\ fs[j].b.k = "use"})
    IN  [j \in DOMAIN opens |-> opens[j].b]
CallsGiven == CallsIn(GivenFrames)
CallsSent == CallsIn(SubSeq(message, 1, sent))
CallsWritten == \E b \in {f.b : f \in {g \in Range(message) : g.ev = "delta"}} :
                    b.k \in {"text", "think"} /\ (Marks[b.t] # {} \/ b.t = "command")

\* The prompt wants an agent called, which goes before a Bash call of the plan.
AgentDue == "Agent" \in req.tools /\ req.agent = "call"

\* A reader sees a call by its start or its arguments, if it came in one piece.
EachSeen == \A j \in 1..sent : message[j].ev = "open" /\ message[j].b.k = "use" =>
                j \notin cut \/ (j < sent /\ j + 1 \notin cut)

\* However the frames are cut and whenever reads time out: while the prompt plans
\* a Bash or Read call the client is not answered without a call, and a single
\* call is the planned one unless the model wrote a call or a command as text or
\* the prompt wants an agent; and where nothing is planned the calls the model made
\* reach the client, all of them and unchanged, although text beside them looks
\* like a command (repair.py:2748-2915).
CallsAnswered ==
    pc = "ended" /\ Buffers(req) =>
        /\ Replaceable(req) =>
              /\ CallsGiven # << >>
              /\ Len(CallsGiven) = 1 /\ ~CallsWritten /\ ~AgentDue => AsPlanned(CallsGiven[1], req)
        /\ ~Replaceable(req) /\ ~AgentDue /\ EachSeen /\ CallsSent # << >> =>
              CallsGiven = CallsSent

\* Every stream comes to an end for the client, be it by an end or an error of
\* the provider, an early answer or its own leaving.
HookSettles == <>Ended
=============================================================================
