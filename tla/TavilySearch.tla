---------------------------- MODULE TavilySearch ----------------------------
(***************************************************************************)
(* TavilySearch.search: one API call per query, then a round robin that    *)
(* takes one new URL of each query's answer per round until the capacity   *)
(* of the run is used up or no answer has anything left.                   *)
(***************************************************************************)
EXTENDS SearchHits, SequencesExt

CONSTANT MaxResults  \* bound of an answer: min(policy.max_sources, 20)

ASSUME SearchAssumption ==
  /\ Queries \in Nat \ {0}
  /\ MaxResults \in Nat
  /\ MaxSources \in Nat

VARIABLES
  phase,       \* query, merge, done (returned) or raised
  capacity,    \* remaining_sources
  excluded,    \* excluded_urls
  categories,  \* one answer per query so far, without excluded URLs
  turn,        \* the category the for loop is at; Queries + 1 between rounds
  known,       \* seen: excluded and returned URLs
  urls,        \* the result
  offered,     \* history: the new URLs of all answers
  taken        \* history: how many URLs each category has given

searchVars == <<phase, capacity, excluded, categories, turn, known, urls,
                offered, taken>>

Category == 1..Queries

SearchInit ==
  /\ phase = "query"
  /\ capacity \in 0..MaxSources
  /\ excluded \in SUBSET Url
  /\ categories = <<>>
  /\ turn = Queries + 1
  /\ known = excluded
  /\ urls = <<>>
  /\ offered = {}
  /\ taken = [c \in Category |-> 0]

-----------------------------------------------------------------------------
(* The queries.  The checkpoint, the call and the checks of its answer may *)
(* each raise, which ends the search.                                      *)

Asked(n) == n = Queries

\* results without the URLs of excluded: SelectSeq, as a recursive function
Unexcluded(results) ==
  LET kept[n \in 0..Len(results)] ==
        IF n = 0 THEN <<>>
        ELSE IF results[n] \in excluded THEN kept[n-1]
        ELSE Append(kept[n-1], results[n])
  IN kept[Len(results)]

Answer ==
  /\ phase = "query"
  /\ \E results \in BoundedSeq(Url, MaxResults) :
       LET category == Unexcluded(results) IN
       /\ categories' = Append(categories, category)
       /\ offered' = offered \cup ToSet(category)
  /\ phase' = IF Asked(Len(categories')) THEN "merge" ELSE "query"
  /\ UNCHANGED <<capacity, excluded, turn, known, urls, taken>>

Raise ==
  /\ phase = "query"
  /\ phase' = "raised"
  /\ UNCHANGED <<capacity, excluded, categories, turn, known, urls, offered,
                 taken>>

-----------------------------------------------------------------------------
(* The merge.                                                              *)

\* category without the URLs at its front that are already known
Fresh(category) ==
  LET new == {i \in DOMAIN category : category[i] \notin known} IN
  IF new = {} THEN <<>>
  ELSE SubSeq(category, CHOOSE i \in new : \A j \in new : i <= j, Len(category))

\* mutant: the list of categories instead of what they hold
AnyCategory == Len(categories) > 0

AnyLeft == \E c \in Category : categories[c] # <<>>

\* The test of the outer loop.
Round ==
  /\ phase = "merge" /\ turn = Queries + 1
  /\ IF Len(urls) < capacity /\ AnyLeft
       THEN turn' = 1 /\ phase' = phase
       ELSE phase' = "done" /\ turn' = turn
  /\ UNCHANGED <<capacity, excluded, categories, known, urls, offered, taken>>

\* mutant: the capacity is tested between rounds only
GivesWithoutRoom(fresh) == fresh # <<>>

Gives(fresh) == fresh # <<>> /\ Len(urls) < capacity

\* mutant: while instead of if, one category at a time
NextTurnGreedy == IF Gives(Fresh(categories[turn])) THEN turn ELSE turn + 1

NextTurn == turn + 1

\* One category's visit: skip what is known, take one URL if there is room.
Visit ==
  /\ phase = "merge" /\ turn \in Category
  /\ LET fresh == Fresh(categories[turn]) IN
       IF Gives(fresh)
         THEN /\ categories' = [categories EXCEPT ![turn] = Tail(fresh)]
              /\ known' = known \cup {Head(fresh)}
              /\ urls' = Append(urls, Head(fresh))
              /\ taken' = [taken EXCEPT ![turn] = @ + 1]
         ELSE /\ categories' = [categories EXCEPT ![turn] = fresh]
              /\ UNCHANGED <<known, urls, taken>>
  /\ turn' = NextTurn
  /\ UNCHANGED <<phase, capacity, excluded, offered>>

SearchNext == Answer \/ Raise \/ Round \/ Visit

SearchSpec == SearchInit /\ [][SearchNext]_searchVars

\* The coroutine runs on: the calls have deadlines, the merge never waits.
FairSearchSpec == SearchSpec /\ WF_searchVars(SearchNext)

-----------------------------------------------------------------------------
(* What the search promises.                                               *)

\* search returns no URL twice, none it was told to leave out, and never
\* more than the capacity, although one answer may repeat a URL, two answers
\* may share one, and the capacity may run out in the middle of a round
\* (search_tavily.py:47-57).
NewUrlsOnly == urls \in Hits(Url, capacity, excluded)

\* Room is left only when every new URL of every answer was returned: no
\* URL is dropped because another category had it at its front, or because
\* the loop's test saw one category empty.
NothingWithheld ==
  phase = "done" => Len(urls) = capacity \/ offered \subseteq ToSet(urls)

\* "One new URL per category per round": a category is two URLs ahead of
\* another only when the other one has nothing new left.
Balanced ==
  \A c, d \in Category :
    phase \in {"merge", "done"} /\ taken[c] > taken[d] + 1
      => ToSet(categories[d]) \subseteq known

\* The result is what a round robin over the answers owes: complete, and so
\* balanced that no query crowds out the contrary or correction query of the
\* same plan (search_tavily.py:47-58).
RoundRobin == NothingWithheld /\ Balanced

\* The merge ends: answers that hold only known URLs cannot keep the loop
\* going, although its test asks whether they are empty.
SearchEnds == <>(phase \in {"done", "raised"})

=============================================================================
