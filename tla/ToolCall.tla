------------------------------ MODULE ToolCall ------------------------------
(***************************************************************************)
(* One search tool call of the chat service: the freshness check that may  *)
(* precede it (_refresh_announcement_call of rag/service.py) and           *)
(* _search_announcements and _search_documents of rag/tools.py, which read *)
(* the database, ask the completeness policy, and return what they read,   *)
(* schedule a refresh, or search the web site live and read again.  The    *)
(* crawl workers change the pages between any two of these steps.          *)
(***************************************************************************)
EXTENDS Completeness

CONSTANTS
    Url,            \* pages a call may find
    Sources,        \* announcement sources of the configuration
    ListingOf,      \* [Sources -> listing page of the source]
    HasSiteSearch,  \* the site search is configured
    DatabaseResults,\* database_min_results
    DatabaseScore,  \* database_min_score
    MaxLive,        \* live_fallback_max_seconds
    MaxChanges      \* bound on the steps of the crawl workers

ASSUME CallAssumption ==
    /\ HasSiteSearch \in BOOLEAN
    /\ {DatabaseResults, DatabaseScore, MaxLive, MaxChanges} \subseteq Nat
    /\ DOMAIN ListingOf = Sources
    /\ IsFiniteSet(Url)

VARIABLES
    mode,       \* rollout_mode: "off", "shadow" or "enforce"; never changes
    call,       \* the arguments, and what the unit resolver says of them
    hit,        \* [Url -> how well the page matches the query]
    row,        \* [Url -> the columns of the page]
    stored,     \* pages with a document or an announcement
    replaced,   \* pages whose text changed since it was last read
    recent,     \* sources whose last refresh is recent
    mapped,     \* pages of the site map that may be crawled
    due,        \* pages and sources made due by this call
    left,       \* seconds left of the request's deadline
    changes,
    pc,
    ready,      \* snapshot_ready
    cached,     \* what the first reading returned
    verdict,    \* the action decided, "none" before or without the policy
    live,       \* the result of the live search
    evidence,
    warnings    \* of the call, as the answer collects them

world    == <<row, stored, replaced, recent, mapped>>
request  == <<mode, call, hit>>
progress == <<ready, cached, verdict, live>>
answer   == <<evidence, warnings>>
vars     == <<request, world, due, left, changes, pc, progress, answer>>

NoWarning == "none"
Warnings  == {"refreshFailed", "searchPartial", "searchFailed",
              "sitePartial", "siteFailed", "scheduled"}
Redundant == {"searchPartial", "searchFailed", "sitePartial", "siteFailed"}

NoLive == [complete |-> FALSE, urls |-> {}, scope |-> "none",
           warning |-> NoWarning, found |-> FALSE]

Calls ==
    [tool : {"documents"}, unit : {"none", "ambiguous", "scoped"},
     homepage : BOOLEAN, query : {"topic"}, newest : {FALSE}]
      \cup
    [tool : {"announcements"}, unit : {"none", "unknown", "listing", "scoped"},
     homepage : {FALSE}, query : {"none", "generic", "topic"},
     newest : BOOLEAN]

\* What may be scheduled, and the evidence made from the configuration.
Pages    == Url \cup {ListingOf[s] : s \in Sources}
Homepage == [url |-> "homepage", score |-> 3, long |-> FALSE]

\* How well a page matches; a "short" match is good, but of a short text.
Matches == {"none", "weak", "short", "strong"}

Evidence == [url : Url, score : 1..3, long : BOOLEAN]

TypeOK ==
    /\ mode \in {"off", "shadow", "enforce"} /\ call \in Calls
    /\ row \in [Url -> Rows(Url)] /\ stored \subseteq Url
    /\ replaced \subseteq Url /\ recent \subseteq Sources
    /\ mapped \subseteq Pages /\ due \subseteq Pages \cup Sources
    /\ left \in Nat /\ changes \in 0..MaxChanges
    /\ verdict \in Actions \cup {"none"}
    /\ pc \in {"preflight", "resolve", "read", "decide", "act", "legacy",
              "ingestPages", "ingestKeyword", "ingestUnit", "reread",
              "done", "failed"}
    /\ cached \subseteq Evidence /\ evidence \subseteq Evidence \cup {Homepage}
    /\ warnings \subseteq Warnings

-----------------------------------------------------------------------------
(* Reading the request and the clock *)

Documents == call.tool = "documents"
Enforcing == mode = "enforce"
Scoped    == call.unit \in {"listing", "scoped"}

\* A ready snapshot leaves the announcement call a deadline that is over;
\* without the site search there is no deadline, which the policy reads as 0.
Remaining == IF ready \/ ~HasSiteSearch THEN 0 ELSE left
Expired   == HasSiteSearch /\ Remaining = 0

Intent ==
    IF Documents THEN (IF Scoped THEN "scoped" ELSE "topic")
    ELSE IF call.query = "generic" THEN "latest"
    ELSE IF call.query = "topic" /\ ~Scoped THEN "keyword"
    ELSE "announcement"

\* The sources the facts consider: those of the unit, or all.
Considered == IF Scoped THEN {s \in Sources : s = "unit"} ELSE Sources

\* A listing without a query gives every announcement the same score.
Match(u) == IF ~Documents /\ call.query # "topic" THEN "listed" ELSE hit[u]

Hit(u) == [url   |-> u,
           score |-> CASE Match(u) = "weak"   -> 1
                       [] Match(u) = "listed" -> 2
                       [] OTHER               -> 3,
           long  |-> Match(u) # "short"]

\* The retrieval queries; announcements are filtered by the unit asked for.
Retrieved(S) ==
    {Hit(u) : u \in {v \in stored \cap S :
        /\ Match(v) # "none"
        /\ ~Documents /\ Scoped => row[v].ofUnit}}

RowsOf(ev) == {row[u] : u \in Urls(ev)}

InSiteMap(u) == row[u].ingestion # "none"

-----------------------------------------------------------------------------
(* The crawl workers, and time *)

\* Actions of others may fall between any two steps of the call.
Running == pc \notin {"done", "failed"}

Meanwhile == Running /\ changes < MaxChanges /\ changes' = changes + 1

CrawlStarts(u) ==
    /\ Meanwhile /\ ~row[u].leased /\ InSiteMap(u)
    /\ row' = [row EXCEPT ![u].leased = TRUE]
    /\ UNCHANGED <<request, stored, replaced, recent, mapped, due, left, pc,
                   progress, answer>>

\* The page is fetched: it is fresh, and its new text waits for ingestion.
Fetched(r, changed) ==
    [r EXCEPT !.leased = FALSE, !.age = "fresh",
              !.ingestion = IF changed THEN "pending" ELSE r.ingestion,
              !.sync = r.sync /\ ~changed]

CrawlEnds(u) ==
    /\ Meanwhile /\ row[u].leased
    /\ \E changed \in BOOLEAN : row' = [row EXCEPT ![u] = Fetched(row[u], changed)]
    /\ UNCHANGED <<request, stored, replaced, recent, mapped, due, left, pc,
                   progress, answer>>

\* The text the row waits for becomes the current document, or fails to.
IngestionEnds(u) ==
    /\ Meanwhile /\ row[u].ingestion = "pending"
    /\ \/ /\ row' = [row EXCEPT ![u] =
                       [row[u] EXCEPT !.ingestion = "success", !.sync = TRUE]]
          /\ stored' = stored \cup {u}
          /\ replaced' = replaced \cup {u}
       \/ /\ row' = [row EXCEPT ![u].ingestion = "failed"]
          /\ UNCHANGED <<stored, replaced>>
    /\ UNCHANGED <<request, recent, mapped, due, left, pc, progress, answer>>

Tick ==
    /\ Running /\ left > 0
    /\ left' = left - 1
    /\ UNCHANGED <<request, world, due, changes, pc, progress, answer>>

-----------------------------------------------------------------------------
(* Ending the call *)

\* _without_redundant_latest_warning, on the warning of the tool.
Kept(w) == IF w = NoWarning \/ (ready /\ w \in Redundant) THEN {} ELSE {w}

Finish(ev, w) ==
    /\ pc' = "done"
    /\ evidence' = ev
    /\ warnings' = warnings \cup Kept(w)
    /\ UNCHANGED <<request, world, due, left, changes, progress>>

\* execute returns an error to the model, which is no warning of the answer.
Fail ==
    /\ pc' = "failed"
    /\ UNCHANGED <<request, world, due, left, changes, progress, answer>>

\* _document_search_fallback_warning
Fallback(ev) == IF ev = {} THEN "siteFailed" ELSE "sitePartial"

-----------------------------------------------------------------------------
(* Before the tool: the freshness of an authoritative listing *)

PreflightSource ==
    IF Documents THEN "none"
    ELSE IF call.unit = "listing"
           THEN (IF Enforcing THEN "unit" ELSE "none")
    ELSE IF call.unit = "none" /\ call.newest /\ call.query # "topic"
           THEN "overview" ELSE "none"

\* ensure_fresh: the listing of the source is the snapshot, or it failed.
Refreshed(s) ==
    /\ recent' = recent \cup {s}
    /\ row' = [u \in Url |->
                 IF row[u].current
                   THEN [row[u] EXCEPT !.age = "fresh", !.warned = FALSE]
                   ELSE row[u]]

Preflight ==
    /\ pc = "preflight"
    /\ pc' = "resolve"
    /\ \/ /\ PreflightSource = "none"
          /\ UNCHANGED <<row, recent, ready, warnings>>
       \/ /\ PreflightSource # "none"
          /\ Refreshed(PreflightSource)
          /\ ready' = TRUE
          /\ UNCHANGED warnings
       \/ /\ PreflightSource # "none"
          /\ warnings' = {"refreshFailed"}
          /\ UNCHANGED <<row, recent, ready>>
    /\ UNCHANGED <<request, stored, replaced, mapped, due, left, changes,
                   cached, verdict, live, evidence>>

\* Unknown and ambiguous units, and units without a verified site, end the
\* call; the homepage of a unit is answered from the configuration.
Resolve ==
    /\ pc = "resolve"
    /\ \/ /\ call.unit \in {"unknown", "ambiguous"}
          /\ Fail
       \/ /\ Documents /\ call.unit = "scoped" /\ call.homepage
          /\ Finish({Homepage}, NoWarning)
       \/ /\ call.unit \notin {"unknown", "ambiguous"}
          /\ ~(Documents /\ call.unit = "scoped" /\ call.homepage)
          /\ pc' = IF Documents \/ mode # "off" THEN "read" ELSE "legacy"
          /\ UNCHANGED <<request, world, due, left, changes, progress, answer>>

-----------------------------------------------------------------------------
(* The first reading and the decision *)

\* Documents are read within the deadline, announcements are not.
Read ==
    /\ pc = "read"
    /\ \/ Fail
       \/ /\ Documents /\ HasSiteSearch /\ Expired
          /\ Finish({}, "siteFailed")
       \/ /\ Documents /\ ~HasSiteSearch
          /\ Finish(Retrieved(Url), NoWarning)
       \/ /\ ~Documents \/ (HasSiteSearch /\ ~Expired)
          /\ cached' = Retrieved(Url)
          /\ replaced' = {}
          /\ pc' = IF mode = "off" THEN "legacy" ELSE "decide"
          /\ UNCHANGED <<request, row, stored, recent, mapped, due, left,
                         changes, ready, verdict, live, answer>>

\* A deadline that is over makes the facts query raise before it is sent.
QueryFails == Expired

SourceRows ==
    {[name |-> s, page |-> ListingOf[s], recent |-> s \in recent]
       : s \in Considered}

FactsNow ==
    IF Documents
      THEN DocumentFacts(cached, RowsOf(cached), Scoped)
      ELSE AnnouncementFacts(cached, RowsOf(cached), SourceRows, Scoped)

\* The facts are of the pages as they are now; any query may also fail.
DecideCall ==
    /\ pc = "decide"
    /\ \E facts \in {NoFacts(cached)}
                      \cup {f \in {FactsNow} : ~QueryFails} :
         LET action == Decide(facts, Intent, Remaining)
         IN  verdict' = IF Enforcing THEN action ELSE "none"
    /\ pc' = IF Enforcing THEN "act" ELSE "legacy"
    /\ UNCHANGED <<request, world, due, left, changes, ready, cached, live,
                   answer>>

-----------------------------------------------------------------------------
(* Acting on the decision *)

UseDb == pc = "act" /\ verdict = "useDb" /\ Finish(cached, NoWarning)

UseDbIncomplete ==
    /\ pc = "act" /\ verdict = "incomplete"
    /\ Finish(cached, IF Documents THEN Fallback(cached) ELSE "sitePartial")

Targets       == Urls(cached) \cup (IF Documents THEN {}
                                    ELSE {ListingOf[s] : s \in Considered})
TargetSources == IF Documents THEN {} ELSE Considered

\* The conditional update skips a page that is leased, of another unit or
\* not in the map.
Accepted == {u \in Targets \cap mapped :
               u \in Url => /\ InSiteMap(u) /\ ~row[u].leased
                            /\ Scoped => row[u].ofUnit}

\* Pages, then sources, each in a transaction of its own; either may raise.
Schedule ==
    /\ pc = "act" /\ verdict = "schedule"
    /\ LET tried == MaySchedule(Targets, TargetSources, Expired)
       IN  \E srcs \in SUBSET TargetSources, raised \in {"no", "pages", "sources"} :
             LET duePages   == IF tried /\ raised # "pages" THEN Accepted ELSE {}
                 dueSources == IF tried /\ raised = "no" THEN srcs ELSE {}
                 promised   == tried /\ Promised(Targets, TargetSources, duePages,
                                                dueSources, raised # "no")
             IN  /\ due' = duePages \cup dueSources
                 /\ warnings' = warnings \cup
                      Kept(IF promised THEN "scheduled" ELSE "sitePartial")
    /\ evidence' = cached
    /\ pc' = "done"
    /\ UNCHANGED <<request, world, left, changes, progress>>

\* The bounded fallback works within a cap on what is left.
GoLive ==
    /\ pc = "act" /\ verdict = "live"
    /\ left' = IF left < MaxLive THEN left ELSE MaxLive
    /\ pc' = IF Documents THEN "ingestPages"
             ELSE IF call.unit = "scoped" THEN "ingestUnit" ELSE "ingestKeyword"
    /\ UNCHANGED <<request, world, due, changes, progress, answer>>

\* Announcements without a deadline have no live search to wait for.
NoDeadline ==
    /\ pc = "act" /\ verdict = "live" /\ ~Documents /\ ~HasSiteSearch
    /\ Finish(cached, "siteFailed")

-----------------------------------------------------------------------------
(* Without a decision: the way each tool worked before the policy *)

\* should_search_live: the long ones above the score of this check.
Reliable == {e \in cached : e.score >= DatabaseScore /\ e.long}

LegacyDocuments ==
    /\ pc = "legacy" /\ Documents
    /\ \/ /\ Cardinality(Reliable) >= DatabaseResults
          /\ Finish(cached, NoWarning)
       \/ /\ Cardinality(Reliable) < DatabaseResults
          /\ pc' = "ingestPages"
          /\ UNCHANGED <<request, world, due, left, changes, progress, answer>>

\* A newest question without a topic; a generic one is made newest.
WantsOverview ==
    call.unit = "none" /\ call.query \in {"none", "generic"}
                       /\ (call.newest \/ call.query = "generic")

\* A listing, or the overview for a newest question, is refreshed and its
\* snapshot read, whatever the refresh answered; keywords are searched for.
LegacyAnnouncements ==
    /\ pc = "legacy" /\ ~Documents
    /\ IF call.unit = "listing" \/ WantsOverview
         THEN /\ \E snapshot \in SUBSET stored, ok \in BOOLEAN :
                   /\ live' = [NoLive EXCEPT !.urls = snapshot,
                                 !.scope = "snapshot", !.complete = ok,
                                 !.warning = IF ok THEN @ ELSE "refreshFailed"]
                   /\ IF ok THEN Refreshed(IF Scoped THEN "unit" ELSE "overview")
                            ELSE UNCHANGED <<row, recent>>
              /\ pc' = "reread"
         ELSE /\ pc' = IF call.unit = "scoped" THEN "ingestUnit"
                       ELSE IF call.query = "topic" THEN "ingestKeyword"
                       ELSE "reread"
              /\ UNCHANGED <<row, recent, live>>
    /\ UNCHANGED <<request, stored, replaced, mapped, due, left, changes,
                   ready, cached, verdict, answer>>

-----------------------------------------------------------------------------
(* The live searches: what they stored and what they say of it *)

Saved(S) ==
    /\ stored' = stored \cup S
    /\ replaced' = replaced \cup S
    /\ UNCHANGED <<row, recent, mapped>>

LiveEnds(r) ==
    /\ live' = r
    /\ Saved(r.urls)
    /\ pc' = "reread"
    /\ UNCHANGED <<request, due, left, changes, ready, cached, verdict, answer>>

\* ingest: cut off, or some of the pages it found were stored.
PageResults ==
    {[complete |-> whole /\ (found => S # {}), urls |-> S, scope |-> "pages",
      warning |-> w, found |-> found]
       : whole \in BOOLEAN, found \in BOOLEAN, S \in SUBSET Url,
         w \in {NoWarning, "sitePartial", "siteFailed"}}

IngestPages ==
    /\ pc = "ingestPages"
    /\ \/ Finish(cached, Fallback(cached))
       \/ /\ ~Expired
          /\ \E r \in PageResults : (r.urls # {} => r.found) /\ LiveEnds(r)

\* The official search by keyword: no page at all is a scope of none.  What
\* raised, and the rest of the items when time is up, is counted and warned of.
KeywordResults ==
    {[NoLive EXCEPT !.scope = "all", !.warning = "searchFailed"]} \cup
    {[complete |-> c, urls |-> S, scope |-> "pages",
      warning |-> IF c THEN NoWarning ELSE "searchPartial", found |-> FALSE]
       : S \in SUBSET Url, c \in BOOLEAN}

\* The deadline ended a query, or the site search, and nothing was found until
\* then, so that nothing is left to store and to count.
SilentCutOff == [NoLive EXCEPT !.scope = "pages"]

IngestKeyword ==
    /\ pc = "ingestKeyword"
    /\ \/ /\ verdict = "live" /\ Finish(cached, "siteFailed")
       \/ /\ verdict # "live"
          /\ LiveEnds([NoLive EXCEPT !.scope = "all",
                                     !.warning = "searchFailed"])
       \/ \E r \in KeywordResults : LiveEnds(r)
       \/ verdict = "live" /\ Expired /\ LiveEnds(SilentCutOff)

\* search_unit_announcements: it stores its details in one transaction.
UnitResults ==
    {[complete |-> c, urls |-> S, scope |-> "pages",
      warning |-> IF c THEN NoWarning
                  ELSE IF S = {} THEN "siteFailed" ELSE "sitePartial",
      found |-> FALSE]
       : S \in SUBSET Url, c \in BOOLEAN}

IngestUnit ==
    /\ pc = "ingestUnit"
    /\ \/ /\ HasSiteSearch
          /\ \E r \in UnitResults : LiveEnds(r)
       \/ LiveEnds([NoLive EXCEPT !.scope = "all", !.warning = "siteFailed"])

-----------------------------------------------------------------------------
(* The second reading *)

\* Mutant: a search that timed out is not told from a complete one.
PageWarningWhole(ev, reread) ==
    IF reread /\ ev = {} /\ cached # {} THEN "sitePartial"
    ELSE IF ~reread /\ live.found THEN Fallback(cached)
    ELSE live.warning

\* _document_search_warning
PageWarning(ev, reread) ==
    LET final == IF reread /\ ev # {} THEN ev ELSE cached
    IN  IF ~live.complete THEN Fallback(final)
        ELSE IF reread /\ ev = {} /\ cached # {} THEN "sitePartial"
        ELSE IF ~reread /\ live.found THEN Fallback(cached)
        ELSE IF live.found /\ final = {} THEN "siteFailed"
        ELSE live.warning

\* The new text of a page may no longer match the query.
Again == {Retrieved(Url \ lost) : lost \in SUBSET replaced}

\* Mutant: the second reading is the answer even when it found nothing.
RereadDocumentsOnly ==
    /\ pc = "reread" /\ Documents
    /\ \/ Finish(cached, PageWarning(cached, FALSE))
       \/ ~Expired /\ \E ev \in Again : Finish(ev, PageWarning(ev, TRUE))

\* Documents found before are kept when nothing can be read after the
\* search, or the second reading is out of time.
RereadDocuments ==
    /\ pc = "reread" /\ Documents
    /\ \/ Finish(cached, PageWarning(cached, FALSE))
       \/ /\ ~Expired
          /\ \E ev \in Again :
               Finish(IF ev # {} THEN ev ELSE cached, PageWarning(ev, TRUE))

\* Announcements are read within the pages of the search, of its snapshot,
\* or without a restriction.
InScope == CASE live.scope = "snapshot" -> {Hit(u) : u \in stored \cap live.urls}
             [] live.scope = "pages"    -> {e \in {Hit(u) : u \in stored \cap live.urls} :
                                              Scoped => row[e.url].ofUnit}
             [] OTHER                   -> Retrieved(Url)

RereadAnnouncements ==
    /\ pc = "reread" /\ ~Documents
    /\ LET ev      == InScope
           unit    == call.unit = "scoped"
           bounded == verdict = "live" /\ ~unit
       IN  \/ ~bounded /\ Fail
           \/ bounded /\ Finish(cached, "siteFailed")
           \/ bounded /\ Finish(IF ev = {} THEN cached ELSE ev, live.warning)
           \/ unit /\ live.urls # {} /\
                Finish(ev, IF ev = {} THEN "siteFailed" ELSE live.warning)
           \/ unit /\ live.urls = {} /\ Finish(Retrieved(Url), live.warning)
           \/ ~unit /\ ~bounded /\ Finish(ev, live.warning)

-----------------------------------------------------------------------------
Step ==
    \/ Preflight \/ Resolve \/ Read \/ DecideCall
    \/ UseDb \/ UseDbIncomplete \/ Schedule \/ GoLive \/ NoDeadline
    \/ LegacyDocuments \/ LegacyAnnouncements
    \/ IngestPages \/ IngestKeyword \/ IngestUnit
    \/ RereadDocuments \/ RereadAnnouncements

Others == \E u \in Url : CrawlStarts(u) \/ CrawlEnds(u) \/ IngestionEnds(u)

Ended == ~Running /\ UNCHANGED vars

Next == Step \/ Tick \/ Others \/ Ended

\* A call for any site map: a page of it may be stored or not, in any state.
Init ==
    /\ mode \in {"off", "shadow", "enforce"} /\ call \in Calls
    /\ hit \in [Url -> Matches]
    /\ row \in [Url -> Rows(Url)] /\ \A u \in Url : row[u].url = u
    /\ stored = {u \in Url : row[u].current} /\ replaced = {}
    /\ recent \subseteq Sources /\ mapped \subseteq Pages /\ due = {}
    /\ left \in Nat /\ changes = 0
    /\ pc = "preflight" /\ ready = FALSE /\ cached = {} /\ verdict = "none"
    /\ live = NoLive /\ evidence = {} /\ warnings = {}

Spec == Init /\ [][Next]_vars

-----------------------------------------------------------------------------
(* Properties *)

(* An answer without a warning, while the policy is enforced, rests on a   *)
(* listing refreshed for this call, on facts that were sufficient, or on a *)
(* live search that was complete.  There is one exception: a search by     *)
(* keyword that the deadline cut off before it found anything warns of     *)
(* nothing, and the evidence that was not sufficient is the answer         *)
(* (crawlers/search.py:231-240 and 326-331, rag/tools.py:905).  No other   *)
(* cut-off, failure or shortfall of the steps between is silent.           *)
CutOffUnnoticed ==
    /\ ~Documents /\ call.unit # "scoped" /\ verdict = "live"
    /\ left = 0 /\ live.urls = {}
    /\ evidence = cached

SilentIsVerified ==
    pc = "done" /\ Enforcing /\ warnings = {} /\ evidence # {Homepage}
      => \/ ready
         \/ verdict = "useDb"
         \/ verdict = "live" /\ live.complete
         \/ CutOffUnnoticed
         \/ Documents /\ ~HasSiteSearch

(* What the database gave is not lost to a live search that finds nothing, *)
(* fails or runs out of time: in a call for documents, and in one for      *)
(* announcements while the policy is enforced.  The search of one unit may *)
(* answer with what it stored alone (tools.py:975-995), and in the other   *)
(* modes the announcements read first are not part of the answer.          *)
FoundIsKept ==
    pc = "done" /\ cached # {} /\ (Documents \/ (Enforcing /\ call.unit # "scoped"))
      => evidence # {}

(* The database alone is trusted only when, at that moment, every current  *)
(* page of the evidence is fresh, not being fetched, and ingested as it is *)
(* if it is in the site map, and there is such a page.                     *)
Settled(r) ==
    /\ r.age = "fresh" /\ ~r.leased
    /\ r.ingestion \in {"success", "none"}
    /\ ~Documents => r.announcement \in {"success", "none", "incomplete"}

TrustedIsSettled ==
    [][verdict' = "useDb" /\ verdict # "useDb" =>
         LET cur == {r \in RowsOf(cached) : r.current}
         IN  cur # {} /\ \A r \in cur : Settled(r)]_vars

(* A refresh the answer promises was accepted for every page and source it *)
(* is about, also when a page was claimed since the decision or the second *)
(* of the two transactions failed.                                         *)
PromisedIsDue ==
    [][("scheduled" \in warnings' \ warnings) =>
         Targets \cup TargetSources \subseteq due']_vars

=============================================================================
