----------------------------- MODULE ResearchRun ----------------------------
(***************************************************************************)
(* research_cluster: one bounded research run.  It verifies the seed       *)
(* evidence, then, for a bounded number of iterations, plans queries,      *)
(* searches, captures the hits into the archive, and asks the model for a  *)
(* draft; the first valid draft is returned with evidence that was read    *)
(* back from the archive after the draft was written.  A checkpoint stands *)
(* in front of every operation on the outside world and raises when the    *)
(* run was canceled or taken over; a deadline covers the whole run.        *)
(*                                                                         *)
(* The web answers differently from one fetch to the next, and the archive *)
(* may lose content at any time.                                           *)
(***************************************************************************)
EXTENDS SearchHits, FiniteSets, SequencesExt

CONSTANTS
  Content,        \* page contents (their digests address the archive)
  Requests,       \* what a run is called with: seed records and authority ids
  MaxIterations,  \* policy.max_iterations
  MaxLosses       \* bound of the model: contents the archive loses

VARIABLES
  stage,      \* the operation the coroutine is at, or done
  gate,       \* it is at the checkpoint in front of that operation
  seeds,      \* seed records still to verify
  authority,  \* request.authority_evidence_ids
  iteration,
  query,      \* queries of this iteration that were sent
  hits,       \* the rest of the for loop over the search's result
  page,       \* the captured page that is to be archived
  records,    \* evidence records, one per id
  seen,       \* URLs of the records
  used,       \* queries_used
  unverified, \* records the final loop has still to verify
  archive,    \* contents the archive holds intact
  losses,
  outcome,    \* none, result, failed, canceled or timeout
  manifest,   \* queries and model calls as the result reports them
  sent,       \* history: queries sent, over all iterations
  calls,      \* history: model calls made
  opened,     \* history: operations since the last checkpoint
  read,       \* history: contents read back since the model last answered
  captures    \* history: how often each URL was fetched and archived

request == <<seeds, authority>>
search == <<query, hits, page, used>>
evidence == <<records, seen>>
storage == <<archive, losses>>
ending == <<outcome, manifest>>
history == <<sent, calls, opened, read, captures>>

vars == <<stage, gate, request, iteration, search, evidence, unverified,
          storage, ending, history>>

\* An evidence record; its id hashes where it was found and what was there.
Record == [url : Url, final : Url, content : Content]
Id(r) == <<r.final, r.content>>
Ids(rs) == {Id(r) : r \in rs}

NoPage == [url |-> "none"]
NoManifest == [queries |-> 0, calls |-> 0]

Operation == {"seed", "plan", "search", "query", "fetch", "put", "synthesize",
              "verify"}
ASSUME RunAssumption ==
  /\ Queries \in Nat \ {0}
  /\ MaxIterations \in Nat \ {0}
  /\ MaxSources \in Nat \ {0}
  /\ MaxLosses \in Nat
  /\ Requests \subseteq [seeds : Seq(Record), authority : SUBSET (Url \X Content)]

Init ==
  /\ stage = "seed" /\ gate = TRUE
  /\ \E r \in Requests : seeds = r.seeds /\ authority = r.authority
  /\ iteration = 0 /\ query = 0 /\ hits = <<>> /\ page = NoPage /\ used = 0
  /\ records = {} /\ seen = {} /\ unverified = {}
  /\ archive \in SUBSET {seeds[i].content : i \in DOMAIN seeds}
  /\ losses = 0
  /\ outcome = "none" /\ manifest = NoManifest
  /\ sent = 0 /\ calls = 0 /\ opened = 0 /\ read = {}
  /\ captures = [u \in Url |-> 0]

-----------------------------------------------------------------------------
(* Control.                                                                *)

At(s) == stage = s /\ ~gate

\* mutant: the page is archived without asking again
GatedUnlessPut(s) == s \notin {"hits", "put"}

\* The head of the for loop is the only stage without a checkpoint.
Gated(s) == s # "hits"

GoTo(s) ==
  /\ stage' = s /\ gate' = Gated(s)
  /\ UNCHANGED ending

Fail ==
  /\ stage' = "done" /\ gate' = FALSE
  /\ outcome' = "failed"
  /\ UNCHANGED manifest

\* An operation on the outside world was started.
Opens == opened' = opened + 1

RetriesLeft == iteration < MaxIterations

\* `continue` after a plan or draft that is not valid, or `raise`.
RetryOrFail ==
  IF RetriesLeft
    THEN GoTo("plan") /\ iteration' = iteration + 1
    ELSE Fail /\ iteration' = iteration

\* The loops over the seeds and over the final records may have ended.
CheckpointDue ==
  /\ gate
  /\ stage = "seed" => seeds # <<>> /\ Id(Head(seeds)) \notin Ids(records)
  /\ stage = "verify" => unverified # {}

\* The coroutine awaits something: where its deadline can reach it.
Waiting == CheckpointDue \/ (~gate /\ stage \in Operation \ {"search"})

\* The run is still active.
Checkpoint ==
  /\ CheckpointDue
  /\ gate' = FALSE
  /\ opened' = 0
  /\ UNCHANGED <<stage, request, iteration, search, evidence, unverified,
                 storage, ending, sent, calls, read, captures>>

\* The checkpoint cancels the coroutine, or its store call raises.
CheckpointRaises ==
  /\ CheckpointDue
  /\ stage' = "done" /\ gate' = FALSE
  /\ outcome' \in {"canceled", "failed"}
  /\ UNCHANGED <<request, iteration, search, evidence, unverified, storage,
                 manifest, history>>

\* The run's deadline passes, whatever it waits for.
Deadline ==
  /\ Waiting
  /\ stage' = "done" /\ gate' = FALSE
  /\ outcome' = "timeout"
  /\ UNCHANGED <<request, iteration, search, evidence, unverified, storage,
                 manifest, history>>

-----------------------------------------------------------------------------
\* mutant: only where the page was found in the end is remembered
FinalUrlOnly(p) == {p.final}

UrlsOf(p) == {p.url, p.final}

(* The seed evidence.                                                      *)

\* The archive's answer to verify: the content is there, or the run fails.
VerifySeed ==
  /\ At("seed")
  /\ Opens
  /\ LET r == Head(seeds) IN
     \/ /\ r.content \in archive
        /\ records' = records \cup {r}
        /\ read' = read \cup {r.content}
        /\ seeds' = Tail(seeds)
        /\ GoTo("seed")
     \/ /\ Fail
        /\ UNCHANGED <<records, read, seeds>>
  /\ UNCHANGED <<authority, iteration, search, seen, unverified, storage, sent,
                 calls, captures>>

DuplicateSeed ==
  /\ stage = "seed" /\ gate
  /\ seeds # <<>> /\ Id(Head(seeds)) \in Ids(records)
  /\ Fail
  /\ UNCHANGED <<request, iteration, search, evidence, unverified, storage,
                 history>>

\* mutant: the seeds are not counted against the budget
SeedsFitAlways == TRUE

SeedsFit == Cardinality(records) <= MaxSources

SeedsVerified ==
  /\ stage = "seed" /\ gate /\ seeds = <<>>
  /\ IF ~SeedsFit THEN Fail /\ iteration' = iteration
     ELSE IF ~(authority \subseteq Ids(records))
            THEN Fail /\ iteration' = iteration
            ELSE GoTo("plan") /\ iteration' = 1
  /\ seen' = UNION {UrlsOf(r) : r \in records}
  /\ UNCHANGED <<request, search, records, unverified, storage, history>>

-----------------------------------------------------------------------------
(* Planning and searching.                                                 *)

\* The model returns a query plan, or something that is none.
Plan ==
  /\ At("plan")
  /\ Opens
  /\ calls' = calls + 1
  /\ read' = {}
  /\ \/ GoTo("search") /\ iteration' = iteration
     \/ RetryOrFail
  /\ query' = 0
  /\ UNCHANGED <<request, hits, page, used, evidence, unverified, storage,
                 sent, captures>>

\* search.search is called: it has its own checkpoint before each query.
EnterSearch ==
  /\ At("search")
  /\ GoTo("query")
  /\ UNCHANGED <<request, iteration, search, evidence, unverified, storage,
                 history>>

UsedSoFar == used + Queries

\* One query; the last one's answer completes the result.  An exception of
\* the adapter is not caught.
SendQuery ==
  /\ At("query")
  /\ Opens
  /\ sent' = sent + 1
  /\ \/ /\ query + 1 < Queries
        /\ query' = query + 1
        /\ GoTo("query")
        /\ UNCHANGED <<hits, used>>
     \/ /\ query + 1 = Queries
        /\ hits' \in Hits(Url, MaxSources - Cardinality(records), seen)
        /\ query' = query + 1 /\ used' = UsedSoFar
        /\ GoTo("hits")
     \/ /\ Fail
        /\ UNCHANGED <<query, hits, used>>
  /\ UNCHANGED <<request, iteration, page, evidence, unverified, storage,
                 calls, read, captures>>

-----------------------------------------------------------------------------
(* Capturing.                                                              *)

\* The head of the for loop: hits known by now are skipped, as are all once
\* the budget is used up.
NextHit ==
  /\ stage = "hits"
  /\ IF hits = <<>> THEN GoTo("synthesize") /\ hits' = hits
     ELSE IF Head(hits) \in seen \/ Cardinality(records) >= MaxSources
            THEN hits' = Tail(hits) /\ UNCHANGED <<stage, gate, ending>>
            ELSE hits' = hits /\ GoTo("fetch")
  /\ UNCHANGED <<request, iteration, query, page, used, evidence, unverified,
                 storage, history>>

\* mutant: a hit that could not be captured is tried again at once
SameHit == hits

\* `continue` of the for loop over the hits.
NextHits == Tail(hits)

\* The page, perhaps after redirects; or a violation of the source policy,
\* which skips the hit; or an exception of another kind (a redirect target
\* that does not parse), which ends the run.
Fetch ==
  /\ At("fetch")
  /\ Opens
  /\ \/ \E f \in Url, c \in Content :
          /\ page' = [url |-> Head(hits), final |-> f, content |-> c]
          /\ GoTo("put") /\ hits' = hits
     \/ hits' = NextHits /\ page' = page /\ GoTo("hits")
     \/ Fail /\ UNCHANGED <<hits, page>>
  /\ UNCHANGED <<request, iteration, query, used, evidence, unverified,
                 storage, sent, calls, read, captures>>

\* A record replaces the one with its id.
RecordsWith(p) == {r \in records : Id(r) # Id(p)} \cup {p}

\* Write, read back and record; what raises here ends the run.
Put ==
  /\ At("put")
  /\ Opens
  /\ \/ /\ archive' = archive \cup {page.content}
        /\ read' = read \cup {page.content}
        /\ records' = RecordsWith(page)
        /\ seen' = seen \cup UrlsOf(page)
        /\ captures' = [captures EXCEPT ![page.url] = @ + 1]
        /\ hits' = Tail(hits)
        /\ GoTo("hits")
     \/ /\ archive' \in {archive, archive \cup {page.content}}
        /\ Fail
        /\ UNCHANGED <<read, records, seen, captures, hits>>
  /\ page' = NoPage
  /\ UNCHANGED <<request, iteration, query, used, unverified, losses, sent,
                 calls>>

-----------------------------------------------------------------------------
(* Drafting and returning.                                                 *)

\* mutant: the authority evidence was verified at the start already
ToVerifyNew == {r \in records : Id(r) \notin authority}

ToVerify == records

\* The model drafts; a draft is valid only if it cites evidence there is.
Synthesize ==
  /\ At("synthesize")
  /\ Opens
  /\ calls' = calls + 1
  /\ read' = {}
  /\ \/ /\ records # {}
        /\ GoTo("verify") /\ unverified' = ToVerify
        /\ iteration' = iteration
     \/ RetryOrFail /\ unverified' = {}
  /\ UNCHANGED <<request, search, evidence, storage, sent, captures>>

VerifyRecord ==
  /\ At("verify")
  /\ Opens
  /\ \E r \in unverified :
       \/ /\ r.content \in archive
          /\ read' = read \cup {r.content}
          /\ unverified' = unverified \ {r}
          /\ GoTo("verify")
       \/ Fail /\ UNCHANGED <<read, unverified>>
  /\ UNCHANGED <<request, iteration, search, evidence, storage, sent, calls,
                 captures>>

\* The result, unless it is over the byte ceiling.
Return ==
  /\ stage = "verify" /\ gate /\ unverified = {}
  /\ \/ /\ stage' = "done" /\ gate' = FALSE
        /\ outcome' = "result"
        /\ manifest' = [queries |-> used, calls |-> 2 * iteration]
     \/ Fail
  /\ UNCHANGED <<request, iteration, search, evidence, unverified, storage,
                 history>>

-----------------------------------------------------------------------------
(* The archive.                                                            *)

\* A content is deleted or corrupted.
Lose ==
  /\ losses < MaxLosses
  /\ losses' = losses + 1
  /\ \E c \in archive : archive' = archive \ {c}
  /\ UNCHANGED <<stage, gate, request, iteration, search, evidence,
                 unverified, ending, history>>

-----------------------------------------------------------------------------
Run ==
  \/ Checkpoint \/ CheckpointRaises
  \/ DuplicateSeed \/ VerifySeed \/ SeedsVerified
  \/ Plan \/ EnterSearch \/ SendQuery
  \/ NextHit \/ Fetch \/ Put
  \/ Synthesize \/ VerifyRecord \/ Return

Next == Run \/ Deadline \/ Lose

Spec == Init /\ [][Next]_vars

\* The event loop resumes the coroutine: every operation it waits for ends
\* by itself or at the run's deadline.
FairSpec == Spec /\ WF_vars(Run)

-----------------------------------------------------------------------------
(* Properties.                                                             *)

\* What a result says is so.  Its evidence was read back from the archive
\* after the model wrote the draft that cites it, seeds included, although the
\* archive may lose content while the model is writing (research.py:105-107);
\* its manifest reports exactly the queries that were sent, over all
\* iterations, and no fewer model calls than were made.
ResultIsBacked ==
  outcome = "result" =>
    /\ {r.content : r \in records} \subseteq read
    /\ manifest.queries = sent
    /\ calls <= manifest.calls

\* At most one call of the archive, the model, the search or the source client
\* begins between two checkpoints, so that a run that was canceled or taken
\* over starts at most the one it was about to: the assumption A2AService makes.
OneOperationPerCheckpoint == opened <= 1

\* Sources are counted right: from the first iteration on the run never holds
\* more evidence than the policy allows, over seeds, hits, redirects to one page
\* and iterations (research.py:59, 76, 82); and a URL is fetched into the archive
\* at most once in a run, in whichever iteration the search brings it up again,
\* and never when a seed or a redirect led to it before (research.py:63, 82, 95).
SourcesCounted ==
  [][/\ iteration' > 0 => Cardinality(records') <= MaxSources
     /\ \A u \in Url : captures'[u] # captures[u] =>
          captures[u] = 0 /\ \A r \in records : u \notin {r.url, r.final}]_vars

\* Every run ends.
RunEnds == <>(stage = "done")
=============================================================================
