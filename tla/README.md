# NexGate: a verification development

NexGate is a LiteLLM gateway with request-path callbacks, an A2A research agent
with durable tasks, and host tooling around both. This directory holds TLA+
models of it, the configurations under which TLC checks them, and proofs that
TLAPS checks. `PROJECT.json` lists components, runs, mutants, hazards, findings
and theorems, and maps every definition to the source lines it translates.


| module | models | checked by | proved in |
| --- | --- | --- | --- |
| `TaskRow` | a row of `research_a2a_tasks`, the statements over it | through the next two | through `A2AStoreProofs` |
| `A2AStore` | the transactions of `a2a_store.py` | run `store` | `A2AStoreProofs` |
| `TaskLifecycle` | abstract: what a client may rely on | `ImplementsLifecycle` of runs `store` and `service_safety` | refinement by `A2AStore` |
| `A2AService` | processes, workers, heartbeats, sweepers, handlers of `a2a_service.py` | runs `service_*` | `A2AServiceProofs`: all its safety properties, the refinement |
| `ResearchRun` | `research_cluster`, archive, capture and model as it sees them | run `research` | `ResearchProofs`: all its safety properties |
| `TavilySearch` | the round robin of `search_tavily.py` | run `search` | `ResearchProofs`: all its safety properties |
| `SearchHits` | abstract: what `ResearchRun` may assume of a search | `NewUrlsOnly` of run `search` | through `ResearchProofs` |
| `OAuthFailover` | credentials of the gateway, `ccshims/oauth.py` | run `oauth` | `GatewayProofs`: all its properties |
| `StreamAdapter` | the patched Anthropic stream wrapper and the guard of the first event, `sitecustomize.py` | run `stream` | `StreamAdapterProofs`: all its safety properties |
| `SpendArchive` | the spend log archiver, `archive-litellm-spend-logs.py` | run `spend_archive` | `GatewayProofs`: all its safety properties |
| `ReplyRepair` | what the hooks of `ccshims/repair.py` make of a reply in one piece | runs `stream_hook`, `conversation` | through `ConversationProofs`, `StreamHookProofs` |
| `StreamRepair` | the same for a stream: frames, sanitizer, readers of a buffered stream | runs `stream_hook`, `conversation` | through `ConversationProofs`, `StreamHookProofs` |
| `StreamHook` | the streaming hook of `ccshims/handler.py` between a provider and a client | run `stream_hook` | `StreamHookProofs`: all its safety properties |
| `RequestScrub` | what `ccshims/repair.py` takes out of a conversation, by provider | run `conversation` | through `ConversationProofs` |
| `Compression` | `claude_aware_compression.py` as operators on messages | run `conversation` | through `ConversationProofs` |
| `SequenceParts` | filters and sums of sequences, which all these use | with them | `SequenceProofs`: lemmas that four proof modules share |
| `Conversation` | a coding session through all hooks of the handler: composes the operators above | run `conversation` | `ConversationProofs`: all its safety properties |
| `RouterFallback` | the router's patches in `sitecustomize.py` and the rendering of routes | run `router_fallback` | `GatewayProofs`: its safety properties |

Modules whose names begin with `MC` only give the constants finite values.

## Inventory

### Research agent (`src/research_agent`)

**Task store** (`a2a_store.py`, migration `001_research_a2a_tasks.sql`).
State: one PostgreSQL row per message id: state, owner, run, lease deadline,
cancellation flag, artifact, error. Operations: reserve, claim, heartbeat,
complete, fail, cancel, acknowledge_cancellation, run_active, expire_leases;
each one READ COMMITTED transaction. claim and the operations of a run first take
the row (`SELECT ... FOR UPDATE`) and then read `clock_timestamp()`; cancel is two
UPDATE statements, reserve and the sweep are one.
Callers: every worker, heartbeat, sweeper and request handler of every process.
Hard: orders of commits, a clock that moves while a transaction waits,
cancellation against claim. Correct when: one run per task; nothing published
after a cancellation; leases exactly while working; expired leases fail closed;
a renewal never shortens a deadline; a cancel is recorded or moot.

**Service** (`a2a_service.py`). State: per process an unbounded in-memory queue,
one worker, a heartbeat while a run executes, a sweeper, the health flag.
Operations: the JSON-RPC handlers, `recover_pending` at start, `run_worker` and
`execute`, `_heartbeat`, `sweep_expired_leases`. Interaction: only through the
table. Hard: a crash between any two steps; store calls that raise, committed or
not; a research operation that outlives the coroutine that awaited it. Correct
when: research starts once; at most one operation begins after the run has been
taken away; a canceled task is quiet; an acknowledged task ends; health returns.

**Research run** (`research.py`). State: evidence records, URLs seen, budgets,
iteration. Awaits the archive, the model, the search and the source client with
a checkpoint in front of each, under one deadline. Hard: failures of every
operation, evidence lost while the model writes, retries over iterations.
Correct when: the source budget holds; the evidence of a result was in the
archive after the draft; no operation goes without its checkpoint; no URL is
fetched twice; the manifest counts what happened; it ends.

**Search adapter** (`search_tavily.py`): one call per query and a round robin.
**Source capture** (`sources.py`): one page with pinned addresses and a redirect
budget. **Evidence archive** (`capture.py`): content addressed, read after
write. **Model adapter** (`model_litellm.py`): one structured completion.
**Policy gates** (`policy.py`, `models.py`): predicates over drafts and evidence.

### Gateway callbacks (`src/runtime/config`)

**OAuth credentials** (`ccshims/oauth.py`, `scripts/sync-claude-oauth.py`).
State: two token caches and a cooldown deadline under one lock; a snapshot file
that the host replaces. Operations: choose a token for a request, report a
failure. Hard: a call takes the lock twice and looks at the file outside it;
failures arrive late. Correct when: tokens are current; a good file is never
refused; a burst arms one cooldown; a new login is tried at once.

**Anthropic stream adapter** (`sitecustomize.py` 1530-2385). State: per stream the
inner layer's block, held stop reason and queue, the outer layer's open, signed
and stopped blocks, its buffer and pending events, and the prefetched events of
the handler. Operations: pull an event, which may read chunks from the provider;
time out. Interaction: the router falls back when the handler raises. Hard:
chunks of any kind in any order, two queues behind each other, a stream that
stalls, breaks or ends anywhere. Correct when: blocks nest; everything arrives
once and in order; thinking is signed; a fallback finds a client that has seen
nothing; the handler settles.

**Streaming hook** (`ccshims/handler.py`). State per stream: the pending read, the
items read so far or the sanitizer's buffer, and where it is suspended.
Operations: read, time out, answer early, finish, be closed. Hard: a timeout
against an arriving chunk, a client that leaves at any suspension. Correct when:
the client gets the provider's sound events or one message made in their place;
no read outlives the hook; every stream ends.

**Reply and stream repair** (`ccshims/repair.py`). No state between requests: the
history is all it knows. Operations: scrub a conversation for a provider, read
the plan and its progress out of it, turn text into calls, replace or add
planned calls, take out malformed ones. Hard: repairs of one reply are the
history of the next request, and compression comes between. Correct when: every
provider accepts every request; planned calls come in order and no more often than
the plan has them; calls of the model arrive.

**Compression** (`claude_aware_compression.py`). State: a mark on the request.
Operations: one, of a series of passes. Hard: dropping messages and keeping
calls beside their results and roles alternating at once, over a history that grows.
Correct when: task and turn survive; the rest is below the target; what was sent
once is sent in the same form.

**Router** (`sitecustomize.py` 2982-3607, 3812-4083, `render-litellm-config.py`).
State: the breaker, shared by all requests; per request the place in the tree of
fallbacks, the shared list of messages, the attempts left. Hard: chains that
name each other, requests that interleave, one argument list for deployments
with different windows. Correct when: hops are bounded by the chains; a spent
deployment rests; each call has a budget and its system prompt; requests end.

**Telemetry** (`ccshims/tele.py`): a bounded queue, a drop counter, a rotating
writer. **Header and utility routing** (`hdr.py`, `utility.py`): stateless. **Other
LiteLLM patches** (the rest of `sitecustomize.py`): authentication, translations,
merging of Responses streams, import-time patches of third-party code.

### Host tooling

**Client wiring** (`bin/nexgate`): writes client settings, with backups, and
restores them. Hard: any order of install, update, restore and user edits.
**Spend archiver** (`archive-litellm-spend-logs.py`). State: a file lock, the table
and its index, one object per day, the run's list of days and its blob.
Operations: list, count, export, upload, clean the index, delete. Interaction:
the gateway writes rows meanwhile; statements execute in the database's
container whatever becomes of the run. Hard: a failure or a kill between any two
statements, rows that come late, a second runner. Correct when: no row is lost;
nothing recent is deleted; the index follows the rows; old rows leave.
**Budget clamp** (`runpod-daily-clamp.py`): a periodic
controller. Probes, smoke tests, the portable adapters of `src/gateway`, start
scripts, the demo server and the configuration data keep no state worth a model;
`PROJECT.json` says so one by one.

## How the models correspond to the code

### TaskRow, A2AStore, TaskLifecycle

A row is a record with the columns the code's conditions read; `"absent"` stands
for no row. Each statement is a pair of operators, its WHERE clause (`Claimable`,
`Fenced`, `Active`, `Acknowledgeable`, `Expired`, ...) and its SET clause
(`Claimed`, `Renewed`, `Finished`, ...), so that store and service use the same
row. `A2AStore` splits a transaction where another connection can come between:
`LockTask` waits for the row's lock and reads the clock; the statement that
follows reads the clock again for its fence, computes the new deadline from the
first reading, and commits (`Commit`), which drops the lock. `cancel` takes no lock
and is its two statements (`CancelSubmitted`, `CancelWorking`); `Rollback` is a
connection that fails in between. The clock moves between any two steps.
`granted` records which run `claim` gave to which owner: a caller of heartbeat,
complete, fail, acknowledge or run_active names a run that was given out, as in the
code, but may do so however late.

`TaskLifecycle` is the abstract specification: absent, submitted, working, and
one of three ends, with the requested cancellation, the bound submission and the
published run. Both detailed models refine it under `Visible`, the projection
`_snapshot` shows to clients.

### A2AService

One action per database call or await of the service. A transaction of the
store is one atomic row operation here, which `A2AStore` justifies. Time is
relative (a deadline is the time left; `Tick` brings all of them nearer), which
keeps the state space finite without a bound on time. `research_cluster` is seen
from outside: an operation begins after a checkpoint, ends, or is left behind in
its thread when the deadline or a crash ends the coroutine (`inflight`). Store
faults raise before or after the commit. Crashed processes come back as new ones
because `owner_id` is a fresh uuid.

### ResearchRun, TavilySearch, SearchHits

`stage` is the operation the coroutine is at and `gate` whether it still stands
at the checkpoint in front of it; `Deadline` can fire wherever it awaits
(`Waiting`). Pages change and redirect from one fetch to the next, the archive
loses contents (`Lose`), and every operation can raise; what the code catches
and what it does not is kept apart (`RetryOrFail`, the three outcomes of `Fetch`).
`archive` is the set of contents that are intact, so verification is membership.
A record's identity is its final URL and content, as in `host_record_from_capture`.
A search result is any member of `Hits`, and `TavilySearch` shows that the
adapter returns nothing else: the two compose through `SearchHits`. That list is
at most the capacity, so the run's own check of its length (`research.py:79`)
never fires and is not modelled. `OneOperationPerCheckpoint` is what `A2AService`
assumes of a run. Writing and reading back one page counts as one operation.

### OAuthFailover

Each thread is one call of `_anthropic_oauth_token_for_model` followed by its
request and, on failure, `_maybe_arm_anthropic_cooldown`. The steps are the looks
at the file (`Exists`, `Stat`, `Load`) and the regions under the lock (`Load`,
`Select`, `CapCooldown`, `CheckCooldown`, `Arm`). The file carries its
modification time; every write has a new one. `CCPROXY_ANTHROPIC_OAUTH_TOKEN_FILE`
is set, as the deployment does; without it and without a static token the code
goes on to a shell command, which is not modelled. The failure callback is
assumed to see the token the request went out with, as its tests do.

### StreamAdapter

A chunk is its kind and its number, and events carry the numbers of the chunks
whose text they hold, so that the properties can say where each piece went. The
inner layer (`StartMessage`, `Receive*`) reads a chunk only when both layers have
nothing to give (`Waiting`), because each pull returns as soon as there is an event;
`Process`, `Translate` and `Leftover` are the branches of `__anext__`. `Take` is the
outer layer with one event, through conversion, filter, parser and signature in
the order of `_asw_wrapped_anext`; what it does not return at once it gives later
(`GivePending`), past filter and signature, as the code does. `Emit` is the
handler while it prefetches, and the client after that. Whether thinking is
converted is fixed by the model of the stream (`convert`); what the recogniser
finds in a buffered text is any outcome (`Findings`), one call standing for several:
which pieces stay text, whether it builds a call, and which pieces the call has use
for. It takes what it matched out of the text in any case; `outer.lost` notes the pieces
that are then nowhere (`TakenOut`). Calls may be written in text, in reasoning and in
thinking, since the deltas of all three are text to the parser.

Outside and assumed: the order in which LiteLLM's stream wrapper gives chunks
(content, one finish, perhaps usage, the end, or an exception anywhere), its
translation of a chunk, and a time for the first chunk that is not switched off.
`holding_chunk` of the library is never set by the patched methods and is left
out. The synchronous methods are not used by the proxy.

### SpendArchive

One action per statement a run sends and per loop of `run`; `pending` holds the
days whose DELETE the server has accepted and not executed, which outlives the run
that sent it and which nothing holds up: a run may start, count and export beside it, as
the lock is all `main` asks for (`Launch`). `raced` is for the properties alone: it notes the
days whose rows such a DELETE took between a run's count and its export. The gateway inserts a row on any day from its start to `Lateness`
later, and the date advances. A failure or a kill (`Abort`) is possible at every
statement; an upload may have taken effect when it fails. The window of a day is a
set of rows, an object is the set of rows in it. `NextDayDawns` waits for nobody,
except that the date is bounded. Options, SQL text, `--dry-run` and VACUUM are left
out.

### ReplyRepair, StreamRepair, StreamHook

A text is a member of a small set and what the recognisers see in it is the
constant `Marks`: a format, a tool, a step of the plan and a place. A reply is a
sequence of blocks, and `RepairedReply` applies the passes of
`async_post_call_success_hook` in its order. `FramesOf` spells a reply as events;
the transport gives them whole or in two halves. `StreamHook` has one action per
resumption of the generator: `Keep`, `PassOn`, `Finish` and `Raise` take the result of
a read, `TimedOut` is `asyncio.wait` returning without one, `Give` is a `yield` that the
client takes, `Disconnect` the `finally` clause. What is done without an await in
between is one action, such as reading on after an item was kept (`ReadOn`). The
provider works only while a read is pending. `EarlyAnswer` and `LateAnswer` are the
readers in the order the hook asks them, on the items read so far.

### RequestScrub, Compression, Conversation

A message is a role and blocks; a block is its kind, whether it is long, and
which call it is or answers. Tokens are two numbers, for a long block and a short
one. The thresholds are the code's arithmetic on windows of a few thousand.
`Compressed` is `_compress`; the choices of messages that stay and go are
recursive functions over sets of positions. In `Conversation` the client's history
is the only memory. `Ask` is the hook before routing, `Attempt` the hook of a
deployment, both with scrub and compression (the gateway registers its callback
before the compression's, `sitecustomize.py:3714-3744`); the reply hooks are
`RepairedWhole`, `RepairedStream` and `RepairedNothing`. What the client does with a reply is external: it appends it,
runs its calls, and answers or says something new. Deployments may fail before
they answer, which is how the walk along the route is seen here; the walk itself
is `RouterFallback`. `made` is for the properties alone: it notes the calls of a reply that
are not the model's (`MadeIn`), where a call the model wrote as text counts as the
model's.

### RouterFallback

LiteLLM's walk is external and modelled from how the patches hook into it: a
request has a stack of groups with the members of their chains still to be tried
(`Frame`, `Fail`). `Call` is `_update_kwargs_with_deployment`, where the breaker is
looked at and (`Called`) the system prompt moved and `max_tokens` clamped, up to the
await of the provider; `Skip` is its error. `QuotaError` and `OtherError` are answers that fail:
they set the breaker, are mapped by `ExceptionType` and decide with `AfterError`
whether an attempt follows. What the library makes of an error after the first
retry is left open. Time is relative, as in `A2AService`. `Routes` are the two
catalogs the renderer writes.

## Runs

Every property of a passing run has a mutant in `PROJECT.json`: a plausible bug in
one definition under which the same run reports the property violated.

| run | instance | shows |
| --- | --- | --- |
| `store` | 1 task, 2 owners, 2 runs, 2 commitments, 3 connections, lease 2, clock to 5; symmetric | claims exclusive, deadlines, fences, cancellation, refinement of `TaskLifecycle` |
| `service_safety` | 1 task, 2 processes, 2 runs, 3 calls, lease 1, 1 store fault | one start per task, bounded overshoot, quiet cancellation, refinement |
| `service_liveness` | 1 task, 2 processes with 1 at a time, 2 calls, 1 fault; fair, no symmetry | no acknowledged task is forgotten; tasks end, health returns |
| `service_store_fault` | as above | finding: a store fault ends a task as failed research |
| `search` | 3 URLs, 2 queries, answers up to 2, capacity up to 3; fair | the round robin |
| `research` | 3 URLs, 2 contents, 5 requests, 2 queries, 2 iterations, 2 sources, 1 loss; fair | budgets, archived evidence, checkpoints, manifest, termination |
| `oauth` | 2 threads, 2 logins, 3 writes, clock to 2, cooldown 2, probe 1; symmetric | tokens are current, cooldown |
| `stream` | up to 3 chunks of 7 kinds before the finish, 5 kinds of text in three of them; fair | the streaming contract, delivery, signatures, fallback |
| `spend_archive` | 4 rows of 3 days, retention 1, rows up to 1 day late, 2 runners, 3 faults; fair | no row lost but in one window, nothing recent deleted, old rows leave |
| `stream_hook` | 8 kinds of request, 8 answers, 2 cuts, 2 pings; fair | one answer, whole; no read left over; every stream ends |
| `conversation` | 3 routes, 3 openings, 4 replies, 4 user turns, 2 messages kept, windows of 3000 and 2500 | requests are well formed, compression, plans in order, stable prefixes |
| `router_fallback` | 2 requests, 4 groups with 5 deployments, 2 lengths of a breaker; fair | bounded walks, spent deployments rest, token budgets, every request ends |

Why the bounds are enough. *store*: three connections are a claim, its rival and a
sweeper or canceler, which is every conflict two statements of one row can have
plus one waiting; a lease of 2 with a clock to 5 lets a lease be renewed once, be
renewed by a transaction that began earlier, and expire. *service*: two owners are
a process and its successor (or rival); two runs are a claim and an attempt to repeat it; three calls
are submit, repeated submit and cancel. One fault at any store call covers
every position of a single failure, not pairs of failures. *research*: two
iterations show everything carried from one to the next, two sources let the
budget be met in an iteration and across two, three seeds exceed it. *search*:
two answers of two over three URLs contain repeats, overlaps, exclusions
and a capacity that ends inside a round. *oauth*: two logins and three writes give
a rotation, a loss and a rewrite of the same login; two threads are all a race
over one cache needs. *stream*: three chunks, with the finish, the usage and the end behind
them, hold every switch from one kind of block to another and back, a call
between two texts, a written call that opens, closes and is followed by more,
one that opens and is never closed, and either of these in or around a block of
thinking; the proofs hold for any number of chunks.
*stream_hook*: the kinds of request are every
combination of tools, a planned step and an agent that takes another way through the
readers, a plan whose agent is due among them; two cut events are a cut
start and a cut argument of one call; two pings are one before and one after
another item. *conversation*: the routes fall back to another provider that takes images and has a smaller
window, to one that gets images as text, and to none; four user turns with two messages kept make
compression drop a message that an earlier turn had sent, twice, in a plan of three
steps, two of them the same command, whose calls the model also makes out of order; windows of three long
blocks are passed in the third turn. *router_fallback*: two requests are all a race
over one breaker needs; the chains name each other, one group has two
deployments and one no chain. *spend_archive*: two rows of one day let an object lack one of them, three days
with a retention of one give days before, at and behind the edge; three faults
are one in each of a run's phases or one in each of three runs. One kill leaves a DELETE
behind for the next run to meet, at any of its statements.

Deadlock checking is off where the system may really stop: client calls and the
pool of processes are finite (`A2AService*`), a search or a run returns
(`MCTavilySearch`, `MCResearchRun`), a stream ends (`MCStreamAdapter`,
`MCStreamHook`), a conversation has so many turns (`MCConversation`). It is on in
`store`, `oauth`, `router_fallback` and `spend_archive`, whose last day goes on.

## Fairness

- `A2AService!FairSpec`: time passes (`Tick`); a started process finishes its
  lifespan start-up and is restarted (`restart: unless-stopped` in the compose
  file); each serving process sweeps every 30 seconds; a worker's coroutine that
  is ready is run by its event loop; a request that was accepted is answered; and
  research ends, because `research_cluster` runs under `asyncio.timeout`
  (`research.py:50`). Nothing is assumed of clients, heartbeats, crashes, faults or
  interrupted threads.
- `ResearchRun!FairSpec`: the coroutine's own steps. Each operation it awaits has a
  timeout of its own or ends at the run's deadline; the deadline itself is not
  needed for termination and is under no fairness.
- `TavilySearch!FairSearchSpec`: the same for the search.
- `StreamAdapter!FairSpec`: the handler goes on pulling and its timer runs; the
  provider owes nothing.
- `StreamHook!FairSpec`: the event loop resumes the generator when a read is done
  (strictly: what was read is taken, or the client leaves), a provider that is read
  sends, ends or breaks, and a client takes what it is offered. That a read ever
  takes too long is not assumed. `MaxPings` bounds what is recorded.
- `RouterFallback`: the loop runs a request that can run, and a provider answers or
  times out. Nothing is assumed of time.
- `SpendArchive!FairArchiveSpec`: launchd starts the job every day, a run that was started
  makes its steps, and the server executes what was sent to it. Faults are bounded.

## Findings

One run ends in a violation, of a sentence the repository says of itself:
`service_store_fault`. `docs/ARCHITECTURE.md:165` promises that a transient store
failure is retried against the durable row. A store call that raises inside
`execute` is handled like failed research and ends the task
(`a2a_service.py:189-204`).

## Observed

Disagreements between the code and what it says of itself that are no runs of their own.
The models contain the steps, and a property that would fail for them names them
as its exception.

- `research.py:88` says a malformed hit must not abort the run. A redirect whose
  target does not parse raises a plain `ValueError` out of `urljoin`
  (`sources.py:137`), which nothing converts (`Fetch` followed by `Fail`).
- `sitecustomize.py:2383` says deltas of stopped blocks are filtered. The events of a
  parsed text call are made behind the filter and name block 0 whatever block is
  open, so the client may get deltas for a block that it has seen stopped, a second
  stop, and text after the message's delta. `StreamingContract` speaks of streams
  without such calls. The recogniser takes all it matched out of the text, also when it
  builds no call of it, as of a JSON body without `<invoke>` or an `<invoke>` without
  parameters (1161-1162, 1198-1211): that text is lost, and what goes out is the stop of
  block 0 and `tool_use` as the reason of a message without a call. `AllArrives` excepts
  the pieces taken out, and no others.
- `sitecustomize.py:2090` says a thinking block without a signature is rejected by the
  client. Thinking is text to the parser (1766-1770, 2222-2224), so a call that is
  written in the thinking of block 0, where that is not converted, stops the block from
  among the events that wait (2239, 2333-2336), which nothing signs. `SignedThinking` excepts
  a block 0 with such a call (`CallInFirstThinking`), and no other.
- The archiver calls itself idempotent and crash-safe (line 8). A DELETE outlives the
  run that sent it; a run started before it commits counts rows, exports nothing
  and replaces the full object by an empty one. The run reaches this: without the
  exception for `raced` days TLC finds `NoRowLost` violated. Both the run and the proof
  show that this window, after the next run's count and before its export, is the only
  one; the same DELETE at any other time loses nothing.

Of the router. A chain is a list, and the exception for text that begins with
`claude-` (`sitecustomize.py:3118`) looks at the list's text, so it never applies,
while every group at depth one still runs its own chain (comment 3105-3109: only
primary Claude groups do); `HopsLimited` states the bound that holds. The latest quota
error sets the breaker, also when its time is shorter (3146). A breaker's own error
names the marker it was set for (3346-3350), so wherever LiteLLM hands it to the
patched function the breaker is set anew. The system prompt is popped from a
list that later attempts share (3497): after an attempt at Anthropic another
provider gets none (`CallIntact` excepts exactly that). One tripped deployment of a
group fails the hop although another is healthy. The estimate of the prompt is
cached by the number of messages (3222).

Of conversations. Where the results of one message are spread over several
user messages compression may keep one and not the others: partners are followed
one step (`claude_aware_compression.py:747`), and neighbours of one role are dropped
with theirs. When completed calls of a plan have been dropped, the
plan starts again (`PlanInOrder` leaves compressed requests out). The streaming
readers take overlapping calls in one text twice, do not ask whether a planned
agent's reply was only an announcement, and do not see a call both of whose
events were cut; a truncated stream whose text looks like a command is run as
one. A slow provider's call is replaced by the planned one when a read times out
after two calls, or before any. A malformed call becomes a note while the stop reason
stays `tool_use`. Old images are dropped in a window that moves with the turn, against the
comment on byte stability (`claude_aware_compression.py:593`), and their removal
marks a request as compressed, so that a fallback with a smaller window gets it
as it is. A request that was not compressed before routing is compressed for a
fallback after its messages have been scrubbed, and neither `_drop_old_images`
(`claude_aware_compression.py:712`) nor `_shrink_to_byte_budget` (846) fills a message
that has nothing left. Where the fallback is another provider that takes images and has
the smaller window, a user's message whose only other block answered a malformed call
is then sent without content. Run `conversation` reaches it on the route
`<<"anthropic", "zai">>`, a fallback of the kind the renderer writes. `RequestWellFormed` excepts
such a message (`StrippedLate`): the deployment is a fallback to another provider, the
request was compressed for nobody before, and the message had images alone. `WellFormed`
proves that there is no other, for any routes.

Of sentences in the documentation. `docs/OMP-GATEWAY-DEBUGGING.md:98` says an unavailable configured
snapshot is rejected, but with the file missing and the static token set the
static token is returned (`oauth.py:170`); line 100 says a changed snapshot clears
the cooldown inherited from the previous credential, but a failure of that
credential which is reported after the change arms it again (`oauth.py:293-296`;
`NewLoginIsTried` is what holds). `--keep-days 0` takes away the archiver's
protection against late rows. An empty provider stream still yields a
`message_stop`, which the guard takes for a provider event, so its branch for a
stream that ends too early (`sitecustomize.py:1650`) is not reached; behind the first
event nothing bounds the wait for the next. Promised nowhere: a hit that cannot be
captured is searched and fetched again in the next iteration; the manifest
counts two model calls for an iteration whose plan failed; a call that read the
previous login and installs it after the new one clears the new one's cooldown.

## Proofs

Eight modules hold theorems. `A2AStoreProofs`, `A2AServiceProofs`, `StreamAdapterProofs`,
`StreamHookProofs` and `ConversationProofs` are each about the module whose name they
extend, `ResearchProofs` about `TavilySearch` and `ResearchRun`, `GatewayProofs` about
`OAuthFailover`, `RouterFallback` and `SpendArchive`, whose definitions differ in name
for that reason (`AuthSpec`, `Spec`, `ArchiveSpec`). `SequenceProofs` has the lemmas about
sequences, numbers and recursive functions that the last four of these share. Nothing is
assumed but the named assumptions of these modules, and what a theorem states. The
proofs hold for every value of the constants; the runs show the same properties
on small instances, and were made to show the inductive invariants before they
were proved.

`A2AStoreProofs` proves, for every set of tasks, owners, runs, commitments and
connections and for every lease and clock bound, the invariants and action
properties of run `store` and the refinement of `TaskLifecycle`. Assumptions:
`NullAssumption` (NULL is no owner, run, commitment or number) and
`StoreAssumption` (the lease is a positive number of seconds, the clock bound is a
natural number and NULL is no task).

The argument. None of the properties is inductive by itself; `IInv` joins

- `TypeOK` and `Coherent` rows: which columns are NULL in which state, which is what
  makes `LeasedExactlyWhileWorking` follow;
- `GrantSound`: a run that claim gave out is the run of its row, for good, and its
  owner holds the row while it works; one run per task needs it;
- `LockExclusive`: no two connections hold one row's lock;
- `DeadlineWithinReach`: a deadline is at most a lease away from now and from the
  reading of whoever holds the row. It is why a renewal computed from an
  older reading cannot shorten a deadline: the reading was taken under the lock;
- `TxnSound`: readings are in the past and callers own what they name;
- `CancelSound`: a cancel whose first statement found no submitted row will not
  find one later.

Every step is first shown to change single rows by statements (`StepChanges` with
`RowChange`), so that the lemmas about rows are proved once per statement and the
lemmas about transactions once per action. `NextIInv` joins them, `Invariance` is
the temporal theorem, and the properties follow from `IInv`; `Refinement` maps
each `RowChange` to a step of `TaskLifecycle` or to a stutter.

`GatewayProofs` proves `TypeOK`, `NoRowLost`, `ArchiveOnlyGrows` and `RetentionKept`
of the archiver for any rows, runners, retention, days and number of failures, under
`ArchiveAssumption` and one assumption about the surroundings, which the theorems state:
`Lateness <= KeepDays`. DELETEs of dead runs may execute at any time. The chain: the lock
makes a run the only one; the window of a day past the retention is closed to inserts, so
it holds all its rows or, once a DELETE has come, none, and an object of the day, if any, holds just
these (`ObjectExact`); a DELETE is on its way only for a day whose rows its object has
(`Deletable`); so what was exported is what the day holds or held, and lacks no row
of an earlier object unless the DELETE came between count and export (`BlobExact`,
`raced`). `RetentionKept` holds without that exception: the rows were in the object when they left.
`IndexFollowsRows` needs an invariant beside it (`IndexInv`): the days whose rows a
DELETE may remove, sent by a run or left by a dead one, have no entries any more
or the run has warned of them.

`A2AServiceProofs` proves `RunsOnce`, `QuietAfterEnd`, `NoLostWakeup` and the refinement of
`TaskLifecycle` for any tasks, processes, runs and calls, under `NullAssumption` and
`ServiceAssumption` (the lease and the number of replicas are positive, the faults
are counted, NULL is none of the values it stands beside). What a step may do
to a row (`RowChange`, `StepRows`) and to a worker (`Moves`, `StepWork`) is shown once for
all actions. The invariant then says where the claimant of a task is: who executes
a task is its only claimant and holds its run (`ExecSound`, `RunUnique`); before a
claim research was not started (`StartSound`); after the run has been taken away at
most the operation that had been admitted begins (`LateSound`); and an operation in
a thread is the claimant's, who is still in it, has timed out or has left
`execute`, so none is left where a cancellation is acknowledged (`FlightSound`).
`NoLostWakeup` is inductive beside this invariant (`AttendedStep`): a task that was
reported as submitted is in the queue of a process or with a worker that has yet to
claim it, or a process is starting or missing, and what a start reads from the
table it puts in its queue before it is up.

`ResearchProofs` proves `ResultIsBacked`, `OneOperationPerCheckpoint` and
`SourcesCounted` for any URLs, contents and requests and any bounds of the policy.
`IInv` goes along the coroutine, stage by stage: what was started since the last
checkpoint (`GateSound`), which calls and queries the manifest's counters stand for
(`CountSound`), that records are bounded and known by URL (`SourceSound`), and what
was read back from the archive since the draft (`ReadSound`).

It proves `NewUrlsOnly` and `RoundRobin` of the search for any URLs and any number of
queries: `known` is what was excluded or returned and nothing is returned twice
(`ResultSound`), no offered URL is lost before the capacity is used up
(`OfferedKept`), and in a round each category gives one URL while it has any
(`InStep`). The filter of excluded URLs is a recursive function (`Unexcluded`). The
library's induction theorems cannot be instantiated here, but its theorem that a
well-founded relation has minimal elements can: `UnexcludedType` looks at the least
position at which the filter would go wrong (`Least` of `SequenceProofs`).

`GatewayProofs` proves `AsTheFile`, `NeverExtended` and `NewLoginIsTried` of the credentials for any
number of threads. The cache of the snapshot is keyed by a time that was read before the
contents and without a lock over the two. It is sound for two reasons: an entry
under the file's present time has its present token (`EntryIsTheFile`), as a rename
brings a later time; an entry under a time that a call has in hand holds a
token the file held since that call began (`EntryWasSeen`).

`StreamAdapterProofs` proves `FallbackUnseen`, `StreamingContract`, `SignedThinking` and
`AllArrives` for streams of any length. `FallbackUnseen` is inductive by itself: events reach the
client through `Emit` alone. For the contract the invariant `Flow` follows what is on
its way, the events held back and the queue behind them (`Line`): which events these
can be in each state of the inner layer, and where a reader of the emitted events
then is, between two blocks or inside one of a known type (`Pipeline`). Whatever
leaves the line is then what the reader may see next. `Flow` holds while no text
opens a tool call, as the contract does. The signatures are proved for any text
and need another invariant, `SInv`: calls written as text bring events with
numbers of their own between those of the inner layer, so the blocks do not nest
any more. It says what of that reaches a block of thinking: before its stop only
what the provider last thought comes to a reader inside it (`Draining`), and what was
held back when it began closes no call (`TextSound`). So a call parsed there is written in
the thinking itself, which must be the first of the stream for its stop, of block 0, to
concern the open block (`SafeStop`); that is the exception `SignedThinking` states.

`AllArrives` is proved for any text as well, and says in the first order what an
equality of filtered and flattened sequences would: each piece of each chunk is
borne by an event that was given out or was taken out by the recogniser (`outer.lost`), and where no text opens a call by exactly
one, in the order of the chunks. Its invariant, `AInv`, uses the two others. `Kept` follows
each piece from the chunk to an event given out, an event on its way, text that
is held back, or the pieces taken out; `HeldSound` says that text is held back only while something that
releases it is still to come, so nothing is left over at the end of a complete stream;
`BlocksSound` that the inner layer writes only into a block nobody stopped, so
nothing is dropped for its number; `ReasonSound` follows the stop reason, which
the wrapper keeps until the usage has come. `NewestLast` gives the order: the piece of the newest chunk is
the last one of the queue.

`GatewayProofs` proves `CallIntact`, `QuotaRespected` and `HopsLimited` of the router for any
catalog, any number of requests and any depth of the walk, under `RouterAssumption`:
the lengths are natural numbers, the chains are sequences of names, what may be
configured is in the catalog, and a deployment of Anthropic has a window (in the
code the default of a Claude). The invariant,
`Sound`, says what the two leave out. A task whose client sent a system prompt has
it among its messages until an attempt took it out, through every retry and
fallback, since those change nothing but the walk (`RetrySound`, `FailSound`); so
preparing a call (`CallSound`, with `BudgetFits` for the tokens) makes it whole. An
open breaker has at least as much time left as the latest quota error asked for,
and the error it raises itself sets it anew for no less (`BreakerStepSound`); the
properties follow because a call goes out only where the breaker is closed.
`HopsLimited` has an invariant of its own (`WalkSound`): the shape of the stack
(`StackSound`: the root, a member of its chain, and a member of that one's chain,
which goes without a chain) and a potential, the hops that may still come (`Ahead`).
A failure takes at least one hop off it (`FailWalks`), since a filtered chain has no
more members, and costs no more, than the whole one (`WithinType`, `HopsWithin`). These
lemmas are inductions over data: `Within` and `HopsOf` are recursive functions, whose
existence (`Recursion`) and values come from `Induction`. `SequenceProofs` states these of sets
of numbers instead of predicates, and proves them from the library's theorem that a
well-founded relation has minimal elements.

`ConversationProofs` proves `PrefixStable`, `RequestWellFormed`, `CompressionKeeps` and
`PlanInOrder` for any routes and windows, anything a user or a model may write, whatever
the recognisers find in a text, and conversations of any length. Assumptions:
`ConversationAssumption` (routes are not empty and name models that have a window; what
users and models write are sequences of blocks), `PlanAssumption` (of every text a user may
write `Plan` says which calls it plans, of what the gateway writes for content it
took out that it plans none; a plan may repeat a call), `CompressionAssumption` (the numbers are natural and at
least one recent message is kept) and `MarksAssumption` (the recognisers know finitely many
marks). `IInv` joins

- `Shape`: the history is `Formed`. Roles alternate from a user's message on, each user
  message answers exactly the calls of the one before it (`Answered`), no two calls
  have one identifier (`Distinct`), and the identifiers are the client's (`Numbered`);
- `RequestIs`: while a request is under way the history does not change and
  the request is the history, scrubbed and compressed for the first deployment,
  with the mark if that changed anything;
- `SentIs`: a deployment was sent the request scrubbed for its provider, and compressed
  again only if nothing was done before routing;
- `SeenIs`: a provider for which results were noted is one for which the conversation
  is too long, and every result it was sent was cut.

The work is in the operators. A reply stays a sequence of blocks through every repair
(`RepairedReplyBody`, `WrittenBody`, `NothingBody`), so that delivery and the client's answer
extend a formed history (`RepliedFormed`, `AnsweredFormed`). The scrub keeps a history formed:
a malformed call and its result leave together (`ScrubbedFormed`). Of compression the
lemma is one about its shape. From a formed history of odd length the loop
keeps the first message and all from one on that answers no call (`KeptShape`). Two
neighbours can clash only at the gap between these (`Neighbours`), and the clash takes
the message behind it, so the rest is the first message and all from an even
position (`EnforcedShape`, `Thinned`), with texts cut and images gone (`Cut`, `Stripped`). That it is formed, taken
by the provider, light enough and ends as before follows from that shape. `PrefixStable`
needs that what is too long stays too long: one more message adds weight, and the
scrub of the others stays what it was (`OverGrown`, `ScrubbedGrown`). The sums and filters are recursive functions, whose values come
from `Recursion` and `Induction` as well.

`PlanInOrder` has an invariant of its own, `MadeIs`: each call the gateway put in
stands where `Reached`, the steps of the plan that the whole calls up to a message
complete, was one short of it, and moved `Reached` on (`InPlan`); a call of the
agent is the first since the text that asked for it (`FirstAgent`). Three things make
it inductive. The request says of the plans what the history says, unless messages were
taken away: a scrub and the passes of compression keep the whole calls in their order
(`ScrubbedCalls`, `CompressedSame`) and add no text that plans (`ScrubbedTexts`), so that
the gateway's count is `Reached` (`RequestPlans`). What a reply holds beside the model's own
calls is the next step, a command, or the planned agent, whichever pass or reader made
it (`RepliesInsert`). And `Reached` of a message does not change when the
conversation grows, and goes up by a call that is due (`ReachedGrown`, `ReachedNext`). The
property follows: the steps that were reached were called in their order
(`CompletedCalled`), and as `Reached` never falls, two calls put in for one plan stand for two
of its steps (`Earlier`), which bounds how often one is repeated (`NoMoreOften`).

`StreamHookProofs` proves `StreamIntegrity` and `CallsAnswered` for any requests and
answers, any number of frames cut in two, and timeouts and a client's leaving at any
time, under `HookAssumption` (an answer is a sequence of blocks, a request has one of the two
shapes) and `MarksAssumption`. `IInv` joins

- `Transport`: what was sent and whether half a frame was, how far it was read
  (`ReadSent`, `ReadHalf`), and that a read which is done returned just the next piece;
- `Typed`, `Control` and `PingsFirst`: what may be pending and queued where the
  hook is suspended, and that a stream held back has given nothing but pings;
- `HeldBack` and `Kept`: what was read so far is with the client and the queue, or
  among the items kept. For the sanitizer that is `Consistent`: the open thinking blocks it has
  noted are those of the frames it was fed, the half frame in its buffer is the one
  that was read, and what it let through are the sound ones in their order
  (`FeedConsistent`). For the readers, the readable items kept are the frames that
  arrived uncut;
- `Finished` and `BrokenOff`: what is still queued completes an answer, the provider's, of
  which then nothing was to be rewritten (`Complete`), or a message made up, and a stream
  that broke off gave the beginning of one.

A stream held back is read as a whole, so the work is in operators again. A message that is made up
is one message, in order and closed, with the blocks it was made of (`MadeIsMessage`).
The sanitizer folds over the items (`Fed`, `Joined`), whose values come from `Recursion`. For
`CallsAnswered` the calls the readers see in items that came uncut are the calls
that were sent (`CallsAre`, `SentCalls`, `SeenIsSent`, `TheCallSeen`); an answer made up from
them has the planned call in it, or one the model wrote, or the agent
(`AnswersAre`); and if none is made up, nothing planned was left to call (`NoAnswers`). Proving
this showed two faults in the property as it was stated. The agent goes before a Bash call of the
plan, so a plan does not say which call is made where an agent is due (`AgentDue`);
the runs had no such request, and `MCStreamHook` has one now. And a thinking
block can hold a call written as text as well (`CallsWritten`).

`WellFormed` has no hypothesis: it holds for any routes, those across providers included, with the one
exception the property states. A scrub leaves no message empty, and compression empties one only
of images; the scrub before an attempt fills what compression before routing emptied, so what is left is a fallback's
own, of a request that nothing was done to before. `Keeps` assumes `MinRecent >= 2`, where the
code's default is 6: with one, the user's last message may be all that is left beside the first, a
user's too, and alternation takes it.

`LeasedExactlyWhileWorking` and `ArchiveOnlyGrows` are proved and no longer among the
runs, whose number is kept to what has to be explored.

Model-checked only:

- liveness under fairness, and with it everything about ENABLED, which is out of the
  prover's reach;
- run `service_store_fault`, whose property is false.

## Plan

Written: store, service, research run, search, credentials, spend archiver, stream
adapter, streaming hook, reply repair, request scrub, compression, conversations,
router and route rendering. A project of this size keeps to a dozen runs and four or five
properties each, so further modules have to share a run. In this order:

1. Composition: `Conversation` behind `RouterFallback`, so that the breaker and the
   shared list of messages meet the mark of compression.
2. `ClientWiring` (`bin/nexgate`): install, update, restore and user edits over a
   settings file and its pruned backups; abstract specification: restore gives back
   what the user had.
3. `SavingsTelemetry`: queue, drop counter, rotation. `ApprovalGates`: the policy
   predicates. `DailyClamp`. The command of `oat_sources` in `OAuthFailover`.
4. The Responses stream and its merge (`sitecustomize.py` 538-621, 2737-2948).

## Not modelled

Text: prompts, schemas, URL syntax, what a recogniser sees in a text, headers,
rendering. Third-party behaviour beyond what the code relies on. The translations of
requests and replies in `sitecustomize.py` that keep no state. Telemetry, whose
records nobody reads back. Client wiring, the budget clamp and the policy gates, which
are planned. Stateless adapters, probes and start-up scripts. `PROJECT.json` gives the
reason for each component.
