----------------------------- MODULE MCStreamHook -----------------------------
(* Eight kinds of request, eight answers. *)
EXTENDS StreamHook

MCMarks == [t \in {"prose", "command", "ack", "leaky", "final", "stray", "tagged"} |-> {}]
           @@ ("written" :> {[fmt |-> "json", tool |-> "Bash", step |-> 2, from |-> 1, to |-> 9],
                             [fmt |-> "intent", tool |-> "Bash", step |-> 2, from |-> 1, to |-> 9]})

Request(shape, tools, next, agent) ==
    [shape |-> shape, tools |-> tools, next |-> next, agent |-> agent, zai |-> FALSE]
Step(tool, step) == [tool |-> tool, step |-> step]

MCRequests == {
    Request("raw", {"Bash"}, NoStep, "none"),
    Request("messages", {}, NoStep, "none"),
    Request("messages", {}, NoStep, "final"),
    Request("messages", {"Bash"}, NoStep, "none"),
    Request("messages", {"Bash", "Read"}, Step("Bash", 1), "none"),
    Request("messages", {"Read"}, Step("Read", 1), "none"),
    Request("messages", {"Bash", "Agent"}, NoStep, "call"),
    Request("messages", {"Bash", "Agent"}, Step("Bash", 1), "call")}

Thinking(t) == [k |-> "think", t |-> t, big |-> FALSE]

MCMessages == {
    <<Text("prose")>>, <<Text("leaky")>>, <<Text("ack")>>, <<Text("written")>>,
    <<Thinking("ack"), Text("command")>>,
    <<Use("Read", 2, TRUE)>>,
    <<Text("command"), Use("Bash", 2, TRUE)>>,
    <<Use("Bash", 1, TRUE), Use("Read", 2, TRUE)>>}
=============================================================================
