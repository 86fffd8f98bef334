---------------------------- MODULE RouterFallback ----------------------------
(***************************************************************************)
(* The gateway's router: how a request walks from a model group to its     *)
(* fallbacks, as the patches of sitecustomize.py make LiteLLM do it.       *)
(*                                                                         *)
(* Requests are tasks of one event loop, so they interleave where one      *)
(* awaits: between the choice of a deployment, which is also where the     *)
(* call is prepared and the breaker consulted, and the answer.  They share *)
(* the breaker, the list of deployments whose quota is spent.              *)
(*                                                                         *)
(* LiteLLM itself is external.  It retries a deployment's group, then      *)
(* takes the members of the group's chain one after the other, each with   *)
(* retries and, unless disabled, a chain of its own.                       *)
(***************************************************************************)
EXTENDS Integers, SequencesExt, FiniteSetsExt

CONSTANTS
    Requests,           \* the tasks that serve requests, one after the other
    Deployments,        \* the deployments of each model group of the catalog
    Local,              \* deployments at the host's own address
    Claude,             \* deployments with "anthropic" or "claude" in their names
    Anthropic,          \* deployments LiteLLM calls as "anthropic/..."
    Fallbacks,          \* the catalog's chains, by model group,
    ContextFallbacks,   \* those for a prompt that is too long,
    DefaultFallbacks,   \* and the chain of a group without one
    Primary,            \* the primary Claude groups
    CatchAll,           \* whether CCPROXY_CATCHALL_FALLBACK is set
    Preferred,          \* what it prefers for some unknown models
    LastResorts,        \* and its last candidates
    Enabled,            \* the sets of deployments an operator may configure
    Clients,            \* what may be asked, of the shape Asked
    SystemTokens,       \* the length of a system prompt
    Window, ParamMax, OutputCap,    \* by deployment; 0 where there is none
    Retries,            \* by deployment
    Ttls,               \* how long a deployment is skipped, by marker
    MaxFallbacks        \* LiteLLM's bound on the depth of a fallback

None == "none"
AllGroups == DOMAIN Deployments
AllDeployments == UNION {Deployments[g] : g \in AllGroups}

\* A request: the group the handoff carries, the one ccproxy's metadata and
\* the one the client's body names, whether the messages begin with a system
\* prompt, the tokens of the others, and max_tokens (0 if there is none).
Asked == [model : STRING, meta : STRING, body : STRING,
          system : BOOLEAN, prompt : Nat, want : Nat]

ASSUME RouterAssumption ==
    /\ SystemTokens \in Nat /\ Ttls \subseteq Nat
    /\ Clients \subseteq Asked
    /\ Enabled \subseteq SUBSET AllDeployments
    /\ \A g \in DOMAIN Fallbacks : Fallbacks[g] \in Seq(STRING)
    /\ \A g \in DOMAIN ContextFallbacks : ContextFallbacks[g] \in Seq(STRING)
    /\ DefaultFallbacks \in Seq(STRING)
    /\ \A d \in AllDeployments : Window[d] \in Nat /\ ParamMax[d] \in Nat /\ OutputCap[d] \in Nat
    /\ \A d \in Anthropic : Window[d] > 0      \* a Claude's is at least the default

VARIABLES
    available,  \* the deployments that were rendered
    breaker,    \* how long a deployment is still skipped, and its marker's time
    due,        \* how long the latest quota error asked for (history)
    req         \* what each task does

vars == <<available, breaker, due, req>>

-----------------------------------------------------------------------------
(* The rendered routes. *)

Routes == Enabled \cup {e \ Local : e \in Enabled}    \* the host's, the serverless copy's
GroupsOf(a) == {g \in AllGroups : Deployments[g] \cap a # {}}

\* The members of chain that are in groups: SelectSeq, as a recursive function.
Within(chain, groups) ==
    LET kept[n \in 0..Len(chain)] ==
          IF n = 0 THEN << >>
          ELSE IF chain[n] \in groups THEN Append(kept[n-1], chain[n])
          ELSE kept[n-1]
    IN  kept[Len(chain)]

PruneChains(chains, groups) ==
    [g \in DOMAIN chains \cap groups |-> Within(chains[g], groups)]

DefaultChain(a) == Within(DefaultFallbacks, GroupsOf(a))

\* The rendered chain of a group: a prompt that is too long has chains of its
\* own, and a group in no table has the default one.
Chains == [a \in Routes |-> [err \in {"window", "error"} |-> [g \in AllGroups |->
    LET own == PruneChains(IF err = "window" THEN ContextFallbacks ELSE Fallbacks, GroupsOf(a))
    IN  IF g \in DOMAIN own THEN own[g] ELSE DefaultChain(a)]]]

Groups == GroupsOf(available)
ChainOf(a, g, err) == Chains[a][IF err = "window" THEN "window" ELSE "error"][g]

-----------------------------------------------------------------------------
(* The root group. *)

RestoreClaudePrimary(c) ==
    CASE c.meta \in Primary -> c.meta
      [] c.meta \notin Primary /\ c.body \in Primary -> c.body
      [] OTHER -> None

CatchallCandidates(model) ==
    (IF model \in DOMAIN Preferred THEN Preferred[model] ELSE << >>) \o DefaultFallbacks \o LastResorts

ResolveCatchall(c) ==
    LET known == Within(CatchallCandidates(c.model), Groups)
    IN  IF ~CatchAll \/ c.model \in Groups THEN c.model
        ELSE Head(known \o LastResorts)

RootOf(c) ==
    IF RestoreClaudePrimary(c) # None THEN RestoreClaudePrimary(c) ELSE ResolveCatchall(c)

-----------------------------------------------------------------------------
(* The call of a deployment: the system prompt and max_tokens. *)

Tokens(q) == q.client.prompt + IF q.inPlace THEN SystemTokens ELSE 0

PositiveMin(a, b) == IF b = 0 THEN a ELSE Min({a, b})

Or(n, default) == IF n = 0 THEN default ELSE n

Clamped(d, tokens, want) ==
    LET room == Window[d] - tokens
        wanted == IF want = 0 THEN Or(ParamMax[d], 4096) ELSE want
    IN  CASE Window[d] = 0 -> want
          [] Window[d] # 0 /\ room < 1 -> Or(ParamMax[d], 1024)
          [] Window[d] # 0 /\ room >= 1 /\ wanted > room -> PositiveMin(room, ParamMax[d])
          [] OTHER -> want

MaxTokens(d, tokens, want) ==
    PositiveMin(Clamped(d, tokens, want), OutputCap[d])

\* Anthropic wants the system prompt beside the messages; it is moved where the
\* window of the deployment is known.
Moves(d) == d \in Anthropic /\ Window[d] > 0

\* mutant: the system prompt is taken out of the messages and dropped
LoseSystem(q, d) == [inPlace |-> q.inPlace /\ ~Moves(d), atTop |-> FALSE]

\* The later attempts share the messages it is taken out of.
MoveSystem(q, d) ==
    [inPlace |-> q.inPlace /\ ~Moves(d), atTop |-> q.inPlace /\ Moves(d)]

NoCall == [d |-> None, inPlace |-> FALSE, atTop |-> FALSE, max |-> 0, room |-> 0]

-----------------------------------------------------------------------------
(* The walk. *)

\* A group that is tried: its depth, whether a failure of it ends there, the
\* members of its chain still to be tried and the depth of the latest of them.
Frame(g, depth, off) ==
    [group |-> g, depth |-> depth, off |-> off, rest |-> << >>, last |-> depth]

NoClient == [model |-> None, meta |-> None, body |-> None, system |-> FALSE, prompt |-> 0, want |-> 0]
Idle == [pc |-> "idle", client |-> NoClient, stack |-> << >>, tries |-> 0, first |-> TRUE,
         hops |-> 0, inPlace |-> FALSE, popped |-> FALSE, call |-> NoCall]

\* mutant: every group has its own chain
NeverDisable(depth) == FALSE

\* Whether the members of a chain go without chains of their own.  The code
\* excepts a chain at depth 1 whose text starts with "claude-"; a chain is a
\* list, and its text starts with a bracket.
DisableFallbacks(depth) == depth >= 1

\* The group on top has failed for good: the next member of its chain, or
\* else of the chain the group itself is a member of.
Fail(q, err) ==
    LET top == Last(q.stack)
        chain == IF top.off \/ top.depth >= MaxFallbacks THEN << >>
                 ELSE Within(ChainOf(available, top.group, err), AllGroups \ {top.group})
        stack == [q.stack EXCEPT ![Len(q.stack)].rest = chain]
        open == {i \in DOMAIN stack : stack[i].rest # << >>}
        k == Max(open)
        next == Frame(Head(stack[k].rest), stack[k].last + 1, DisableFallbacks(stack[k].depth))
    IN  IF open = {} THEN Idle
        ELSE [q EXCEPT !.pc = "pick", !.tries = 0, !.first = TRUE, !.hops = @ + 1, !.call = NoCall,
                       !.stack = Append(SubSeq([stack EXCEPT ![k].rest = Tail(@), ![k].last = @ + 1], 1, k),
                                        next)]

\* mutant: a retry does not use up an attempt
RetryForever(q, n) == [q EXCEPT !.pc = "pick", !.tries = n, !.first = FALSE, !.call = NoCall]

Retry(q, n) == [q EXCEPT !.pc = "pick", !.tries = n - 1, !.first = FALSE, !.call = NoCall]

\* An attempt has failed.  The first failure of a group is put to
\* should_retry_this_error and brings the deployment's number of retries; what
\* LiteLLM makes of later ones is left open.
AfterError(q, d, err) ==
    IF q.first
    THEN {IF err = "error" /\ Retries[d] > 0 THEN Retry(q, Retries[d]) ELSE Fail(q, err)}
    ELSE {Fail(q, err)} \cup (IF q.tries > 0 THEN {Retry(q, q.tries)} ELSE {})

Closed == [left |-> 0, ttl |-> 0]
Open(ttl) == [left |-> ttl, ttl |-> ttl]
Passed(b) == IF b.left <= 1 THEN Closed ELSE [b EXCEPT !.left = @ - 1]

-----------------------------------------------------------------------------
Init ==
    /\ available \in Routes
    /\ breaker = [d \in AllDeployments |-> Closed]
    /\ due = [d \in AllDeployments |-> 0]
    /\ req = [r \in Requests |-> Idle]

\* A request for a group that was not rendered gets LiteLLM's 404.
Arrive(r) ==
    /\ req[r].pc = "idle"
    /\ \E c \in Clients :
        /\ RootOf(c) \in Groups
        /\ req' = [req EXCEPT ![r] = [Idle EXCEPT !.pc = "pick", !.client = c, !.hops = 1,
                                          !.inPlace = c.system,
                                          !.stack = <<Frame(RootOf(c), 0, FALSE)>>]]
    /\ UNCHANGED <<available, breaker, due>>

Candidates(q) == Deployments[Last(q.stack).group] \cap available

\* The breaker is open.  Its error names the marker: where LiteLLM hands it to
\* _set_deployment_num_retries_on_exception the breaker is set anew.
Skip(r) ==
    /\ req[r].pc = "pick"
    /\ \E d \in Candidates(req[r]) \ Claude :
        /\ breaker[d].left > 0
        /\ breaker' \in {breaker, [breaker EXCEPT ![d] = Open(@.ttl)]}
        /\ \E q \in AfterError(req[r], d, "skip") : req' = [req EXCEPT ![r] = q]
    /\ UNCHANGED <<available, due>>

\* The call to a deployment is prepared and goes out.
Called(q, d) ==
    LET system == MoveSystem(q, d)
        tokens == Tokens([q EXCEPT !.inPlace = system.inPlace])
    IN  [q EXCEPT !.pc = "calling", !.inPlace = system.inPlace,
                  !.popped = q.popped \/ system.atTop,
                  !.call = [d |-> d, inPlace |-> system.inPlace, atTop |-> system.atTop,
                            max |-> MaxTokens(d, tokens, q.client.want),
                            room |-> Window[d] - tokens]]

Call(r) ==
    /\ req[r].pc = "pick"
    /\ \E d \in Candidates(req[r]) :
        /\ d \in Claude \/ breaker[d].left = 0
        /\ req' = [req EXCEPT ![r] = Called(@, d)]
    /\ UNCHANGED <<available, breaker, due>>

Succeed(r) ==
    /\ req[r].pc = "calling"
    /\ req' = [req EXCEPT ![r] = Idle]
    /\ UNCHANGED <<available, breaker, due>>

\* mutant: a breaker that is open is left as it is
TripOnce(d, ttl) == IF d \in Claude \/ breaker[d].left > 0 THEN breaker ELSE [breaker EXCEPT ![d] = Open(ttl)]

Trip(d, ttl) == IF d \in Claude THEN breaker ELSE [breaker EXCEPT ![d] = Open(ttl)]

\* A hard quota error.
QuotaError(r) ==
    /\ req[r].pc = "calling"
    /\ LET d == req[r].call.d
       IN  \E ttl \in Ttls :
            /\ breaker' = Trip(d, ttl)
            /\ due' = [due EXCEPT ![d] = IF d \in Claude THEN 0 ELSE ttl]
            /\ \E q \in AfterError(req[r], d, "quota") : req' = [req EXCEPT ![r] = q]
    /\ UNCHANGED available

\* What exception_type makes of an error's text.
ExceptionType(text) == IF text = "context window" THEN "window" ELSE "error"

\* Any other error; a deployment's timeout is one.
OtherError(r) ==
    /\ req[r].pc = "calling"
    /\ \E err \in {ExceptionType(text) : text \in {"context window", "cato", "other"}} :
        \E q \in AfterError(req[r], req[r].call.d, err) : req' = [req EXCEPT ![r] = q]
    /\ UNCHANGED <<available, breaker, due>>

Tick ==
    /\ \E d \in AllDeployments : breaker[d] # Closed
    /\ breaker' = [d \in AllDeployments |-> Passed(breaker[d])]
    /\ due' = [d \in AllDeployments |-> Max({due[d] - 1, 0})]
    /\ UNCHANGED <<available, req>>

Answer(r) == Succeed(r) \/ QuotaError(r) \/ OtherError(r)
Step(r) == Skip(r) \/ Call(r) \/ Answer(r)

Next == Tick \/ \E r \in Requests : Arrive(r) \/ Step(r)

\* The loop runs a task that can run, and a provider answers or times out.
Fairness == \A r \in Requests : WF_vars(Step(r))

Spec == Init /\ [][Next]_vars /\ Fairness

-----------------------------------------------------------------------------
(* Properties. *)

\* A request tries its own group, that group's chain and, under each member,
\* that member's chain, and no group that was not rendered.  Chains name each
\* other, so without the bound the walk would be exponential in its depth.
ChainBound(a, g) == Max({Len(ChainOf(a, g, "error")), Len(ChainOf(a, g, "window"))})

\* The most that trying every member of chain takes.
HopsOf(a, chain) ==
    LET hops[n \in 0..Len(chain)] ==
          IF n = 0 THEN 0 ELSE hops[n-1] + 1 + ChainBound(a, chain[n])
    IN  hops[Len(chain)]

HopBound(a, g) ==
    1 + Max({HopsOf(a, ChainOf(a, g, "error")), HopsOf(a, ChainOf(a, g, "window"))})

HopsLimited ==
    \A r \in Requests : req[r].pc # "idle" =>
        /\ req[r].hops <= HopBound(available, req[r].stack[1].group)
        /\ Len(req[r].stack) <= 3
        /\ Last(req[r].stack).group \in Groups

\* A deployment whose quota is spent is not called again before the time of
\* its latest quota error is over, by no task and by no retry.
QuotaRespected ==
    [][\A r \in Requests :
        req'[r].pc = "calling" /\ req[r].pc # "calling" => due[req'[r].call.d] = 0]_vars

\* Every call that goes out asks for a number of tokens that the deployment
\* can give, carries the system prompt where that provider takes it, and
\* carries it at all unless an earlier attempt at Anthropic took it.
CallIntact ==
    \A r \in Requests : LET q == req[r] IN
        q.pc = "calling" =>
            /\ q.client.want > 0 => q.call.max > 0
            /\ OutputCap[q.call.d] > 0 => q.call.max <= OutputCap[q.call.d]
            /\ q.call.room >= 1 => q.call.max <= q.call.room
            /\ q.call.inPlace => q.call.d \notin Anthropic
            /\ q.client.system => q.call.inPlace \/ q.call.atTop \/ q.popped

\* Every request ends, however its providers fail.
RequestEnds == \A r \in Requests : req[r].pc # "idle" ~> req[r].pc = "idle"
=============================================================================
