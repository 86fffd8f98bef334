--------------------------- MODULE MCRouterFallback ---------------------------
(* A Claude group whose mirror is not configured, a group of two            *)
(* deployments, one of them local, and a group without a chain of its own.   *)
EXTENDS RouterFallback, TLC

MCDeployments == [claude |-> {"c1"}, mirror |-> {"c2"}, glm |-> {"g1", "g2"}, kimi |-> {"k1"}]
MCFallbacks == [claude |-> <<"mirror">>, mirror |-> << >>, glm |-> <<"claude", "kimi">>]
MCContextFallbacks == [claude |-> << >>, glm |-> <<"kimi">>]
MCDefaultFallbacks == <<"glm">>
MCPreferred == [x \in {"gemma-9b"} |-> <<"gemma", "scaleway/gemma-4", "or/gemma-4-26b-free">>]
MCLastResorts == <<"minimax-m3", "scaleway/gpt-oss", "mistral", "glm-5.3">>
MCEnabled == {{"c1", "g1", "g2", "k1"}}

Client(model, meta, body, system, prompt, want) ==
    [model |-> model, meta |-> meta, body |-> body, system |-> system, prompt |-> prompt, want |-> want]
MCClients == {
    Client("gemma-9b", "none", "none", TRUE, 30000, 8000),
    Client("kimi", "none", "claude", FALSE, 31000, 0)}

MCWindow == [c1 |-> 200000, c2 |-> 200000, g1 |-> 31000, g2 |-> 36000, k1 |-> 0]
MCParamMax == [c1 |-> 0, c2 |-> 0, g1 |-> 0, g2 |-> 16384, k1 |-> 0]
MCOutputCap == [c1 |-> 64000, c2 |-> 64000, g1 |-> 128000, g2 |-> 0, k1 |-> 7000]
MCRetries == [c1 |-> 0, c2 |-> 0, g1 |-> 1, g2 |-> 0, k1 |-> 0]
=============================================================================
