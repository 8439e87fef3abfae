------------------------------ MODULE LiveCrawl ------------------------------
(***************************************************************************)
(* One live search of the web site: a best-first crawl within four budgets *)
(* (pages, candidates, depth, pages of one host) and a deadline, the       *)
(* diagnostics it leaves, and the storing of what it found within the same *)
(* deadline (_search_uncached, ingest and _warning_for of                  *)
(* crawlers/site_search.py).  Scores are small numbers; the score of a     *)
(* link depends on the page it was found on.  The deadline is the flag     *)
(* expired, which may be raised between any two steps.                     *)
(***************************************************************************)
EXTENDS Integers, FiniteSets, Sequences

CONSTANTS
  WebPages, Hosts,
  HostOf,          \* [WebPages -> Hosts]
  Crawlable,       \* allowed by the host list and the adapter
  NotQueued,
  MapItems,        \* candidates of the site map, a sequence
  Seeds,           \* seed_urls as candidates
  Found,           \* what the official search finds
  Links,           \* [WebPages -> Seq(candidates without depth)]
  PageScore,       \* [WebPages -> Nat], the score of a page once read
  Blank,           \* pages without a body
  MaxPages, MaxCandidates, MaxDepth, MaxPerHost,
  Threshold, High, EnoughResults, WarningMargin

Candidate == [url : WebPages, score : Nat, depth : Nat]
Link      == [url : WebPages, score : Nat]

ASSUME CrawlAssumption ==
  /\ IsFiniteSet(WebPages)
  /\ HostOf \in [WebPages -> Hosts]
  /\ NotQueued \notin Nat
  /\ {MapItems, Seeds, Found} \subseteq Seq(Candidate)
  /\ Links \in [WebPages -> Seq(Link)]
  /\ Crawlable \subseteq WebPages
  /\ PageScore \in [WebPages -> Nat]
  /\ Blank \subseteq WebPages
  /\ {MaxPages, MaxCandidates, MaxDepth, MaxPerHost} \subseteq Nat
  /\ {Threshold, High, EnoughResults, WarningMargin} \subseteq Nat

VARIABLES
  place,
  expired,      \* the deadline of the search is over
  frontier,     \* heap, queued_scores, discovered_urls, visited, skipped count
  pages,        \* the pages that were read
  failed,       \* fetch_failure_scores, with their urls
  unattempted,  \* timed_out_scores, with their urls
  timedOut,     \* query_timed_out
  relevant,     \* the result
  fate,         \* what ingest did with a page of the result
  present,      \* pages whose present text is in the database
  warning

crawl     == <<frontier, pages, failed, unattempted>>
ingest    == <<fate, present, warning>>
crawlVars == <<place, expired, crawl, timedOut, relevant, ingest>>

NoCrawlWarning == "none"
CrawlWarnings  == {NoCrawlWarning, "partial", "failure"}
Scored == [url : WebPages, score : Nat]
Fates  == {"none", "todo", "empty", "kept", "ready", "saved", "failed"}

Visited    == frontier.visited
QueuedUrls == {u \in WebPages : frontier.queued[u] # NotQueued}
Queued     == {[url |-> u, score |-> frontier.queued[u]] : u \in QueuedUrls}
OnHost(s, h) == Cardinality({u \in s.visited : HostOf[u] = h})
Best(S) == CHOOSE m \in S : \A n \in S : n <= m

\* Mutant: a better score is noted without a new entry in the heap.
EnqueueUnpushed(s, c) ==
  LET again == s.queued[c.url] # NotQueued IN
  IF \/ c.url \in s.visited
     \/ c.url \notin Crawlable
     \/ again /\ s.queued[c.url] >= c.score
     \/ c.url \notin s.discovered /\ Cardinality(s.discovered) >= MaxCandidates
    THEN [s EXCEPT !.skipped = @ + 1]
    ELSE [s EXCEPT !.discovered = @ \cup {c.url},
                   !.queued[c.url] = c.score,
                   !.heap = IF again THEN @
                            ELSE @ \cup {[url |-> c.url, score |-> c.score,
                                          depth |-> c.depth, seq |-> s.seq]},
                   !.seq = @ + 1]

\* enqueue: a queued candidate is queued again only with a better score.
Enqueue(s, c) ==
  LET again == s.queued[c.url] # NotQueued IN
  IF \/ c.url \in s.visited
     \/ c.url \notin Crawlable
     \/ again /\ s.queued[c.url] >= c.score
     \/ c.url \notin s.discovered /\ Cardinality(s.discovered) >= MaxCandidates
    THEN [s EXCEPT !.skipped = @ + 1]
    ELSE [s EXCEPT !.discovered = @ \cup {c.url},
                   !.queued[c.url] = c.score,
                   !.heap = @ \cup {[url |-> c.url, score |-> c.score,
                                     depth |-> c.depth, seq |-> s.seq]},
                   !.seq = @ + 1,
                   !.skipped = IF again THEN @ + 1 ELSE @]

EnqueueAll(s, cs) ==
  LET after[i \in 0 .. Len(cs)] == IF i = 0 THEN s ELSE Enqueue(after[i - 1], cs[i])
  IN  after[Len(cs)]

\* heapq: the best score, the oldest of equals.
IsBest(e) ==
  \A f \in frontier.heap \ {e} :
    e.score > f.score \/ (e.score = f.score /\ e.seq < f.seq)

CrawlInit ==
  /\ place = "map"
  /\ expired = FALSE
  /\ frontier = [heap |-> {}, queued |-> [u \in WebPages |-> NotQueued], discovered |-> {},
                 visited |-> {}, seq |-> 0, skipped |-> 0]
  /\ pages = {} /\ failed = {} /\ unattempted = {} /\ timedOut = FALSE
  /\ relevant = {}
  /\ present \in SUBSET (WebPages \ Blank)
  /\ fate = [u \in WebPages |-> "none"]
  /\ warning = NoCrawlWarning

\* The candidates of the site map, none when the lookup fails or times out,
\* and the seeds; with enough good candidates the official search is left out.
LoadMap ==
  /\ place = "map"
  /\ \/ /\ ~expired
        /\ frontier' = EnqueueAll(frontier, MapItems \o Seeds)
        /\ place' \in {"loop", "discover"}
     \/ /\ frontier' = EnqueueAll(frontier, Seeds)
        /\ place' = "discover"
  /\ UNCHANGED <<expired, pages, failed, unattempted, timedOut, relevant, ingest>>

\* The official search, which fails or is cut off after some of its items.
Discover ==
  /\ place = "discover"
  /\ \E n \in 0 .. (IF expired THEN 0 ELSE Len(Found)) :
       frontier' = EnqueueAll(frontier, SubSeq(Found, 1, n))
  /\ expired' \in {expired, TRUE}
  /\ timedOut' = expired'
  /\ place' = "loop"
  /\ UNCHANGED <<pages, failed, unattempted, relevant, ingest>>

More == frontier.heap # {} /\ Cardinality(Visited) < MaxPages

EndCrawl ==
  /\ place = "loop"
  /\ ~More
  /\ place' = "score"
  /\ UNCHANGED <<expired, crawl, timedOut, relevant, ingest>>

\* The deadline is over at the head of the loop.
CutOff ==
  /\ place = "loop"
  /\ More
  /\ expired
  /\ timedOut' = TRUE
  /\ unattempted' = unattempted \cup Queued
  /\ place' = "score"
  /\ UNCHANGED <<expired, frontier, pages, failed, relevant, ingest>>

Popped(e) == [frontier EXCEPT !.heap = @ \ {e}, !.queued[e.url] = NotQueued]

\* An entry that a better one of the same url has replaced.
Replaced(e) == frontier.queued[e.url] # NotQueued /\ e.score < frontier.queued[e.url]

MayVisit(e) ==
  /\ e.url \notin Visited
  /\ OnHost(frontier, HostOf[e.url]) < MaxPerHost

\* An entry that was replaced, visited, or whose host has had its share.
PassOver ==
  /\ place = "loop"
  /\ More
  /\ ~expired
  /\ \E e \in frontier.heap :
       /\ IsBest(e)
       /\ ~MayVisit(e) \/ Replaced(e)
       /\ frontier' = IF Replaced(e) THEN [frontier EXCEPT !.heap = @ \ {e}]
                                     ELSE [Popped(e) EXCEPT !.skipped = @ + 1]
  /\ UNCHANGED <<place, expired, pages, failed, unattempted, timedOut, relevant, ingest>>

\* What is left unattempted when the fetch of e runs out of time.
Missed(e, s) == {[url |-> e.url, score |-> e.score]} \cup
                {[url |-> u, score |-> s.queued[u]] :
                   u \in {v \in WebPages : s.queued[v] # NotQueued}}

\* The early end: enough good pages, and nothing relevant is queued.
Sated(read, s) ==
  /\ Cardinality(read) >= EnoughResults
  /\ Cardinality({u \in read : PageScore[u] >= High}) >= EnoughResults
  /\ \A e \in s.heap : e.score < Threshold

Taken(e) == [Popped(e) EXCEPT !.visited = @ \cup {e.url}]

LinksFrom(e) ==
  [i \in DOMAIN Links[e.url] |->
     [url |-> Links[e.url][i].url, score |-> Links[e.url][i].score, depth |-> e.depth + 1]]

Linked(e) == IF e.depth < MaxDepth THEN EnqueueAll(Taken(e), LinksFrom(e)) ELSE Taken(e)

\* The page of e is read, with its links, or fails, or outlasts the deadline.
Fetch(e) ==
  \/ /\ frontier' = Linked(e)
     /\ pages' = pages \cup {e.url}
     /\ place' = IF Sated(pages', frontier') THEN "score" ELSE "loop"
     /\ UNCHANGED <<expired, failed, unattempted, timedOut>>
  \/ /\ frontier' = Taken(e)
     /\ failed' = failed \cup {[url |-> e.url, score |-> e.score]}
     /\ UNCHANGED <<place, expired, pages, unattempted, timedOut>>
  \/ /\ frontier' = Taken(e)
     /\ expired' = TRUE
     /\ timedOut' = TRUE
     /\ unattempted' = unattempted \cup Missed(e, Taken(e))
     /\ place' = "score"
     /\ UNCHANGED <<pages, failed>>

Visit ==
  /\ place = "loop"
  /\ More
  /\ ~expired
  /\ \E e \in frontier.heap : IsBest(e) /\ MayVisit(e) /\ ~Replaced(e) /\ Fetch(e)
  /\ UNCHANGED <<relevant, ingest>>

\* score_pages: out of time, the preliminary scores stand, which are not told
\* from the final ones here.  Left out are the listings a search within a
\* scope admits whatever their score (site_search.py:658-662), and the pages
\* beyond the limit of the result, which count for the warning but are not
\* passed on to be stored (:696): relevant is what is passed on.
Score ==
  /\ place = "score"
  /\ timedOut' = (timedOut \/ expired)
  /\ relevant' = {u \in pages : PageScore[u] >= Threshold}
  /\ fate' = [u \in WebPages |-> IF u \in relevant' THEN "todo" ELSE "none"]
  /\ place' = "prepare"
  /\ UNCHANGED <<expired, crawl, present, warning>>

RelevantFailed == {f \in failed : f.score >= Threshold}
Enough(found) == /\ Cardinality(found) >= EnoughResults
                 /\ \E u \in found : PageScore[u] >= High

\* Mutant: what the deadline left unattempted is not weighed.
WarningWithoutTime(late) ==
  LET top == Best({PageScore[u] : u \in relevant} \cup {0}) IN
  IF relevant = {}
    THEN IF RelevantFailed # {} \/ late THEN "failure" ELSE NoCrawlWarning
    ELSE IF ~Enough(relevant) /\ \E f \in RelevantFailed : f.score > top + WarningMargin
           THEN "partial"
           ELSE NoCrawlWarning

\* _warning_for of the diagnostics; late is query_timed_out.
WarningFor(late) ==
  LET top == Best({PageScore[u] : u \in relevant} \cup {0}) IN
  IF relevant = {}
    THEN IF RelevantFailed # {} \/ late THEN "failure" ELSE NoCrawlWarning
    ELSE IF /\ ~Enough(relevant)
            /\ \/ \E f \in RelevantFailed : f.score > top + WarningMargin
               \/ late /\ \E f \in unattempted : f.score > top + WarningMargin
           THEN "partial"
           ELSE NoCrawlWarning

With(f) == {u \in WebPages : fate[u] = f}

\* Out of time before anything is saved: an early return with the warning.
GiveUp ==
  /\ expired
  /\ \/ place = "prepare" /\ With("todo") # {}
     \/ place = "embed"
  /\ timedOut' = TRUE
  /\ warning' = WarningFor(TRUE)
  /\ place' = "done"
  /\ UNCHANGED <<expired, crawl, relevant, fate, present>>

\* Mutant: a page without a body counts as stored.
FatesOfBlankKept(u) == IF u \in Blank \cup present THEN {"kept", "failed"}
                                               ELSE {"ready", "failed"}

\* What may become of a page: empty, stored with this text already, ready to
\* be embedded; anything else is an error.
FatesOf(u) == CASE u \in Blank  -> {"empty", "failed"}
                [] u \in present -> {"kept", "failed"}
                [] OTHER        -> {"ready", "failed"}

Prepare ==
  /\ place = "prepare"
  /\ ~expired
  /\ \E u \in With("todo") : \E f \in FatesOf(u) : fate' = [fate EXCEPT ![u] = f]
  /\ UNCHANGED <<place, expired, crawl, timedOut, relevant, present, warning>>

EndPrepare ==
  /\ place = "prepare"
  /\ With("todo") = {}
  /\ place' = "embed"
  /\ UNCHANGED <<expired, crawl, timedOut, relevant, ingest>>

\* The embeddings of all pages, in batches; an error loses them all.
Embed ==
  /\ place = "embed"
  /\ ~expired
  /\ \/ /\ place' = "save"
        /\ UNCHANGED <<fate, warning>>
     \/ /\ With("ready") # {}
        /\ fate' = [u \in WebPages |-> IF fate[u] = "ready" THEN "failed" ELSE fate[u]]
        /\ warning' = "failure"
        /\ place' = "done"
  /\ UNCHANGED <<expired, crawl, timedOut, relevant, present>>

\* One page is saved, or its save fails.
Save ==
  /\ place = "save"
  /\ ~expired
  /\ \E u \in With("ready") :
       \/ /\ fate' = [fate EXCEPT ![u] = "saved"]
          /\ present' = present \cup {u}
       \/ /\ fate' = [fate EXCEPT ![u] = "failed"]
          /\ present' = present
  /\ UNCHANGED <<place, expired, crawl, timedOut, relevant, warning>>

\* Errors of single pages outweigh the diagnostics of the crawl.
FinalWarning(late) ==
  IF With("failed") = {} THEN WarningFor(late)
  ELSE IF With("saved") \cup With("kept") \cup With("empty") = {} THEN "failure"
  ELSE "partial"

\* All pages were tried, or the deadline ended the saving.
EndIngest ==
  /\ place = "save"
  /\ expired \/ With("ready") = {}
  /\ \/ /\ With("ready") = {}
        /\ timedOut' = timedOut
     \/ /\ expired
        /\ timedOut' = TRUE
  /\ warning' = FinalWarning(timedOut')
  /\ place' = "done"
  /\ UNCHANGED <<expired, crawl, relevant, fate, present>>

Expire == /\ ~expired /\ place # "done"
          /\ expired' = TRUE
          /\ UNCHANGED <<place, crawl, timedOut, relevant, ingest>>

Done == place = "done" /\ UNCHANGED crawlVars

CrawlNext ==
  \/ LoadMap \/ Discover \/ EndCrawl \/ CutOff \/ PassOver \/ Visit \/ Score
  \/ GiveUp \/ Prepare \/ EndPrepare \/ Embed \/ Save \/ EndIngest
  \/ Expire \/ Done

CrawlSpec == CrawlInit /\ [][CrawlNext]_crawlVars

-----------------------------------------------------------------------------
CrawlTypeOK ==
  /\ place \in {"map", "discover", "loop", "score", "prepare", "embed", "save", "done"}
  /\ frontier.queued \in [WebPages -> Nat \cup {NotQueued}]
  /\ pages \subseteq Visited
  /\ failed \subseteq Scored /\ unattempted \subseteq Scored
  /\ relevant \subseteq pages
  /\ fate \in [WebPages -> Fates]
  /\ warning \in CrawlWarnings

\* No candidate is lost: every url that was discovered is visited, queued with
\* an entry of its present score in the heap, or of a host that has had its
\* share; a better score that replaces an entry does not lose the url
\* (site_search.py:406-423, :545-547).
NoneLost ==
  /\ \A u \in frontier.discovered :
       \/ u \in Visited
       \/ u \in QueuedUrls
       \/ OnHost(frontier, HostOf[u]) >= MaxPerHost
  /\ \A u \in QueuedUrls :
       \E e \in frontier.heap : e.url = u /\ e.score = frontier.queued[u]

\* Neither the budgets nor the results ended the crawl: its time did.
EndedByTime == More /\ ~Sated(pages, frontier)

\* An answer without a warning is not missing anything it knows to be better:
\* when the crawl found too little, every candidate that time or an error kept
\* it from reading is worth no more than its best page and the margin, and
\* when it found nothing, time did not run out (site_search.py:1132-1161).
\* What a budget left in the queue is not counted as missed, also when time
\* runs out afterwards, in the scoring (site_search.py:632-645).
NoSilentMiss ==
  place = "done" /\ warning = NoCrawlWarning /\ ~Enough(relevant) =>
    LET top == Best({PageScore[u] : u \in relevant} \cup {0})
        missed == RelevantFailed \cup
                  (IF timedOut THEN unattempted ELSE {}) \cup
                  (IF timedOut /\ EndedByTime THEN Queued ELSE {})
    IN IF relevant = {} THEN ~timedOut /\ RelevantFailed = {}
       ELSE \A f \in missed : f.score <= top + WarningMargin

\* A result that calls itself complete has every page of it in the database,
\* and one that neither warns nor says that time ran out lost no text
\* (site_search.py:822, :927-934).
CompleteIsStored ==
  place = "done" =>
    /\ (relevant \subseteq With("kept") \cup With("saved") => relevant \subseteq present)
    /\ (warning = NoCrawlWarning /\ ~timedOut => relevant \ Blank \subseteq present)

=============================================================================
