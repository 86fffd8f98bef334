---------------------------- MODULE MCConversation ----------------------------
(* Routes that fall back to another provider, which takes images or gets them  *)
(* as text, and one without fallback; windows that a few long blocks fill.     *)
EXTENDS Conversation

MCKinds == {"prose", "command", "ack", "leaky", "final", "stray", "tagged", "note",
            "plan", "agent", "placeholder", "dropped", "omitted", "found"}
MCMarks == [t \in MCKinds |-> {}]
MCPlan == [t \in MCKinds |->
              IF t = "plan" THEN <<[tool |-> "Bash", step |-> 1], [tool |-> "Read", step |-> 2],
                               [tool |-> "Bash", step |-> 1]>>
              ELSE << >>]
MCTools == {"Bash", "Read", "Agent"}

MCWindow == ("anthropic" :> 3000 @@ "deepseek" :> 2500 @@ "zai" :> 2500)
MCRoutes == {<<"anthropic", "deepseek">>, <<"anthropic", "zai">>, <<"deepseek">>}

LongText == [k |-> "text", t |-> "prose", big |-> TRUE]
MCOpenings == {<<Text("plan")>>, <<Text("agent")>>, <<Text("prose"), [k |-> "image"]>>}
MCReplies == {
    <<[k |-> "think", t |-> "ack", big |-> FALSE], LongText>>,
    <<Use("Read", 9, FALSE)>>,
    <<Use("Read", 2, TRUE), Use("Bash", 1, TRUE)>>,
    <<Use("Bash", 8, TRUE), Use("Bash", 9, TRUE)>>}
=============================================================================
