---------------------------- MODULE KeywordSearch ----------------------------
(***************************************************************************)
(* The search for announcements by keyword: the form of the official       *)
(* search is sent once per term and category, with one retry each, the     *)
(* site search adds what it finds, and what was found is stored item by    *)
(* item, all within one deadline (ingest of crawlers/search.py).  An item  *)
(* is its address; its order is that of its date.  The deadline may pass   *)
(* between any two steps, and during a request.                            *)
(***************************************************************************)
EXTENDS Integers, Sequences, FiniteSets, Lists

CONSTANTS
  Items,          \* the items, the newest first and the undated last
  Undated,        \* those without a date
  Queries,        \* how many pairs of a term and a category are searched
  ItemLimit,      \* item_limit
  HasSiteSearcher \* is there a site searcher?

ASSUME KeywordAssumption ==
  /\ Items \in Seq({Items[i] : i \in DOMAIN Items})
  /\ Undated \subseteq {Items[i] : i \in DOMAIN Items} /\ ItemLimit \in Nat
  /\ \A i, j \in DOMAIN Items : Items[i] \in Undated /\ i < j => Items[j] \in Undated
  /\ Queries \in Nat \ {0} /\ HasSiteSearcher \in BOOLEAN

VARIABLES
  stage,      \* what is done next
  timeUp,     \* the deadline is over
  query,
  attempt,    \* of the query; it loads the form again when that was lost
  found,      \* canonical urls of results
  successes,  \* successful_searches
  failures,   \* summary.failed > 0
  toStore,    \* the items still to be stored
  ingested,   \* ingested_urls
  reported,   \* the warning and the canonical_urls of the result
  unanswered  \* history: a query, or a page relevant to it, that was not
              \* answered for good (not what the site search left unread
              \* because its own time was up)

searches    == <<query, attempt, found, successes, failures, unanswered>>
keywordVars == <<stage, timeUp, searches, toStore, ingested, reported>>

AllItems == {Items[i] : i \in DOMAIN Items}
NotYet   == [warning |-> "none", scoped |-> FALSE]
Count    == failures' = TRUE

KeywordInit ==
  /\ stage = "form" /\ timeUp \in BOOLEAN
  /\ query = 1 /\ attempt = 1
  /\ found = {} /\ successes = 0 /\ failures = FALSE /\ unanswered = FALSE
  /\ toStore = <<>> /\ ingested = {} /\ reported = NotYet

\* A request is refused when time is up, and may fail or end it.
MayFail == timeUp' \in {timeUp, TRUE}

\* _load_form, before the first query: without a form no query is sent.
LoadForm ==
  /\ stage = "form" /\ MayFail
  /\ \/ /\ ~timeUp
        /\ stage' = "query"
        /\ UNCHANGED <<failures, unanswered>>
     \/ /\ stage' = "site"
        /\ Count /\ unanswered' = TRUE
  /\ UNCHANGED <<query, attempt, found, successes, toStore, ingested, reported>>

NextQuery == /\ query' = query + 1
             /\ attempt' = 1
             /\ stage' = IF query = Queries THEN "site" ELSE "query"

\* One attempt that succeeds.  The form is loaded again when the last one was
\* lost, and the answer holds the next.
Answered ==
  /\ stage = "query" /\ ~timeUp /\ MayFail
  /\ \E S \in SUBSET AllItems : found' = found \cup S
  /\ successes' = successes + 1
  /\ NextQuery
  /\ UNCHANGED <<failures, unanswered, toStore, ingested, reported>>

\* The query is counted as failed when both attempts raised.
CountFailure == Count

\* One attempt that raises.
Unanswered ==
  /\ stage = "query" /\ MayFail
  /\ \/ /\ attempt = 1
        /\ attempt' = 2
        /\ UNCHANGED <<stage, query, failures, unanswered>>
     \/ /\ attempt = 2
        /\ CountFailure
        /\ unanswered' = TRUE
        /\ NextQuery
  /\ UNCHANGED <<found, successes, toStore, ingested, reported>>

\* The deadline leaves the attempts of a query early, and nothing is counted.
GivenUp ==
  /\ stage = "query"
  /\ timeUp' = TRUE
  /\ unanswered' = TRUE
  /\ NextQuery
  /\ UNCHANGED <<found, successes, failures, toStore, ingested, reported>>

Upto(s, n) == SubSeq(s, 1, IF Len(s) < n THEN Len(s) ELSE n)

\* The newest of what was found, each once.
Selected(S) == Upto(Among(Items, S), ItemLimit)

\* The site search, left out when time is up: pages with a date, some of them
\* relevant but not read; or an error.
SiteSearch ==
  /\ stage = "site" /\ MayFail
  /\ \/ /\ ~HasSiteSearcher \/ timeUp
        /\ UNCHANGED <<found, successes, failures, unanswered>>
     \/ /\ HasSiteSearcher /\ ~timeUp
        /\ \E S \in SUBSET (AllItems \ Undated), read \in BOOLEAN, missed \in BOOLEAN :
             /\ S # {} => read
             /\ found' = found \cup S
             /\ successes' = successes + (IF read THEN 1 ELSE 0)
             /\ failures' = (failures \/ missed)
             /\ unanswered' = (unanswered \/ missed)
     \/ /\ HasSiteSearcher /\ ~timeUp
        /\ Count /\ unanswered' = TRUE
        /\ UNCHANGED <<found, successes>>
  /\ toStore' = Selected(found')
  /\ stage' = "store"
  /\ UNCHANGED <<query, attempt, ingested, reported>>

\* One item: without a date it is left out; its detail may be missing, its
\* summary is kept then; upsert may raise.
Store ==
  /\ stage = "store" /\ toStore # <<>> /\ ~timeUp /\ MayFail
  /\ \/ /\ Head(toStore) \notin Undated
        /\ ingested' = ingested \cup {Head(toStore)}
        /\ UNCHANGED failures
     \/ Count /\ UNCHANGED ingested
  /\ toStore' = Tail(toStore)
  /\ UNCHANGED <<stage, query, attempt, found, successes, unanswered,
                 reported>>

\* Mutant: the time that is up ends the loop without a word.
CutOffFailureNot == UNCHANGED failures

\* The rest of the items is counted as one failure.
CutOffFailure == Count

CutOffStore ==
  /\ stage = "store" /\ toStore # <<>> /\ timeUp
  /\ CutOffFailure
  /\ toStore' = <<>>
  /\ UNCHANGED <<stage, timeUp, query, attempt, found, successes,
                 unanswered, ingested, reported>>

\* Without one successful search nothing restricts the second reading.
Report ==
  /\ stage = "store" /\ toStore = <<>>
  /\ stage' = "done"
  /\ reported' = [warning |-> IF successes = 0 THEN "failed"
                              ELSE IF failures THEN "partial" ELSE "none",
                  scoped  |-> successes > 0]
  /\ UNCHANGED <<timeUp, searches, toStore, ingested>>

KeywordEnded == stage = "done" /\ UNCHANGED keywordVars

KeywordNext ==
  \/ LoadForm \/ Answered \/ Unanswered \/ GivenUp \/ SiteSearch
  \/ Store \/ CutOffStore \/ Report \/ KeywordEnded

KeywordSpec == KeywordInit /\ [][KeywordNext]_keywordVars

-----------------------------------------------------------------------------
\* A search by keyword without a warning has stored everything it was to store,
\* at whatever step its time ran out; and while there was time, every query
\* was answered, none was given up after its retry (crawlers/search.py:227-236,
\* :287-290, :325-331).
SilentIsStored ==
  stage = "done" /\ reported.warning = "none" =>
    /\ \A i \in DOMAIN Selected(found) : Selected(found)[i] \in ingested
    /\ ~timeUp => ~unanswered

\* An empty set of addresses without a warning says that the official search
\* succeeded and had no result (docs/superpowers/specs/
\* 2026-07-13-keyword-announcement-relevance-design.md:35).
EmptyIsAnswered ==
  stage = "done" /\ reported = [warning |-> "none", scoped |-> TRUE] /\ ingested = {} =>
    ~unanswered

=============================================================================
