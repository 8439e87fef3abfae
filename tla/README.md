# TLA+ models of the NPTU campus assistant

The assistant answers questions about a university from a PostgreSQL database
that background workers fill by crawling its web sites. This directory holds
TLA+ modules for the parts of it where processes meet in the database, and for
the live searches and decisions of one chat request, the TLC configurations that
check them, and proofs that the TLA+ proof system checks. Source paths are
relative to the repository; `P` is `src/services/api/src/nptu_assistant`.

## Inventory

| Component | State | Operations | Meets | Hard because |
|---|---|---|---|---|
| Page crawl lease: `P/db/crawl_scheduler.py`, `P/crawlers/crawl_scheduler.py`, `P/crawlers/incremental_crawler.py` | the crawl and lease columns of `site_pages`; `site_crawl_attempts`; the immutable claim of a worker | `claim_due`, `renew`, `complete`, `fail`, `schedule_pages`; the steps of a crawl | every worker, chat requests, administrators, through the rows | leases expire under a worker; a worker crawls outside transactions and writes back; crashes; retries; batches settled as a whole |
| Concurrent claims | row locks, snapshots | one `UPDATE ... FOR UPDATE SKIP LOCKED` | the claims of other workers | the cap of a host is counted in a snapshot |
| Page ingestion: `P/crawlers/crawl_ingestion.py`, `SqlDocumentRepository` in `P/db/repositories.py` | the ingestion columns and lease of `site_pages`; `documents` | begin, embed, save, complete, fail; the same for announcements | the crawl lease of the page | five transactions; embeddings are slow; a hash that is stored but not ingested; pages that revert |
| Source refresh: `P/crawlers/refresh.py`, `P/crawlers/service.py`, `SqlAnnouncementRepository` | `sources`; an advisory lock; `_last_success` in each process | `ensure_fresh`, commit, merge, due signal, mark | API processes, command line, page crawls, chat requests | crawls of different ages commit; a partial listing; a lock that lives as long as a connection; memory against row |
| Site map and frontier: `P/db/site_map.py`, `P/crawlers/site_map.py` | `site_pages`, `site_links` | `persist_fetched_page`, `upsert_page`, bounded links | workers, live search, imports | caps counted under advisory locks; row locks before and after them |
| Live site search: `P/crawlers/site_search.py`, `site_search_cache.py` | two caches, an advisory lock; the heap and the diagnostics of one search | `search`, `ingest`, `search_unit_announcements` | processes that search for the same; the site map; the database | single flight with time-outs, expiry, failures; four budgets and one deadline |
| Keyword search: `P/crawlers/search.py` | one request | `ingest` | the live site search | retries and cut-offs in one loop |
| Crawl worker control: `P/api/crawl_admin.py` | pending schedules, one active run, stop and wake events | `schedule`, `run_once`, `run_loop`, `stop` | HTTP threads and the event loop | lost wake-ups, a stop in between |
| Completeness policy: `P/rag/completeness*.py` | none | facts, `decide`, schedule of refreshes | retrieval, the page lease, the sources | a large decision table over rows that move |
| Chat orchestration: `P/rag/service.py`, `P/rag/tools.py` | one request | the preflight refresh, two search tools, a bounded tool loop | all the above | deadlines, fallbacks, warnings that must not get lost |
| Conversations: `P/rag/conversation.py` | `conversations`, events | load, save, delete | concurrent turns | expiry and deletion during a turn |
| Schedule policy (in `P/crawlers/crawl_scheduler.py`); rate limiter: `P/core/rate_limit.py`; retrieval, parsing, discovery, HTTP, providers, batch ingestion, wiring, the browser extension | little | reading, arithmetic, I/O | | text and numbers rather than control |

What makes each component correct:

- **Crawl lease**: at most one worker believes and is believed to own a page;
  what a stale worker does is without effect; the attempt rows are a faithful
  audit trail; a page that is due is crawled; a batch ends; the cap of a host.
- **Ingestion**: what is recorded as ingested has a document; the current
  document is that of the recorded version; late work is refused; nothing that
  failed is forgotten.
- **Source refresh**: snapshots do not go back; due means crawled; fresh means
  young; a partial listing does not count.
- **Frontier**: the caps hold for concurrent writers, and every writer ends.
- **Live search**: no entry of a cache outlives its time, one search at a time,
  nobody waits for ever; no candidate is lost, and what was missed is told.
- **Worker control**: an accepted schedule is run and no wake-up is lost.
- **Policy and tools**: the database alone is trusted only when it is settled;
  a refresh that is promised was accepted; evidence that was found is kept.
- **Conversations**: an answered turn is lost only with its conversation, and a
  deleted conversation does not come back.

## Modules

### `CrawlLease` and `CrawlLease_proofs`

One row per page, one record per claim. A lease token is the pair of a page and
the ordinal of its claim: `holder[p] = n` stands for "the token of claim `n` is
in the row"; the owner column is `claim[p][n].worker`. `row`, `lease` and
`outcome` are columns; `claim`, `phase`, `seen` and `result` are the memory of
the workers and disappear when one crashes. Page contents are the version
numbers of an external site.

| Action | Code |
|---|---|
| `ClaimDue` | `claim_due` with `due_pages_statement`: candidates, host rank, slots, limit, the update, the attempt rows |
| `RenewBefore...` | the four renewals of a crawl (`_renew_claim`, `renew`) |
| `Fetch`, `Persist`, `Ingest`, `Raise` | `_crawl_one` and `_handle_html_response`; `persist_fetched_page` and its fence; the `except` clause |
| `SettleRenew`, `Complete`, `Fail` | `_complete_claim`, `complete`, `fail`, once all claims of a batch have a result; `Committed`: the answer of the commit may be lost, and `_with_db_retry` tries again |
| `Abandon` | the process dies, or an error escapes `run_once`, or a claim was committed, its answer lost and the claim tried again |
| `Schedule` | `schedule_pages` |
| `LiveFetched`, `LiveFailed` | what a chat request that searches the live site writes to the row, without a lease |
| `Tick`, `Edit` | the clock; the web site |

Every action is one transaction or one step without the database, so TLC
interleaves workers between any two transactions. Delays of the schedule policy
are a set of values. The pages are indexable HTML pages within the crawl depth,
allowed by the host lists (the others never pass the `WHERE` of a claim or are
closed before they are fetched). The optional `lease_runner` of the crawler is
not wired by any entry point and left out, as are explicit targets, which take
no lease. The test `schedule_pages` makes of the ingestion lease is left out. The
rows of linked pages that `persist_fetched_page` writes in the same transaction
are in `Frontier`, and that it makes a linked page an announcement page in
`PageIngestion`. A renewal that is tried again after its commit renews once more.

### `HostClaim` and `Workers_proofs`

`ClaimDue` is atomic in `CrawlLease`; the statement it stands for is not. This
module splits it as READ COMMITTED does: `Select` ranks in a snapshot, `Lock`
takes the row locks that are free, `Update` evaluates the `WHERE` of the update
again on the rows as they are, with the `checked_at` of the start. `Rollback`
loses the statement, `Finish` is the end of a crawl. Its proofs are in
`Workers_proofs`, with those of `Frontier` and `WorkerControl`.

### `PageIngestion` and `PageIngestion_proofs`

One page from fetch to document. The life of the crawl lease is reduced to a
flag `live` that a claim sets and an expiry clears. The ingestion lease takes
its expiry from the crawl lease when it begins, and a crawl does not renew while
it ingests, so that one flag serves both. A token carries the name of its worker
and becomes `Stale` when the worker claims again. Transactions of
`SqlDocumentRepository` are actions; the branches of `begin_ingestion` are the
disjuncts of `Enter`. A fault (`Raise`, `Crash`, an early `Expire`, an item that
fails) is counted and bounded; `Raise` also covers a transaction that was
committed and whose answer was lost.

Whether a page is an announcement page is said in two places, and the module
keeps them apart. `isAnnouncement` is the `page_type` of the row, chosen by the
crawl that found the page; a crawl of the page itself never changes it, the crawl
of another page (`Reclassify`) or a chat request (`LiveStore`) may make it one.
It decides what `needs_ingestion`, `begin_ingestion` and `complete_ingestion` ask
of the row. `Notices` are the versions whose parsed role is LISTING or DETAIL;
the role decides whether announcements are stored (`PersistAnnouncements`), which
fails for good where no source is configured (`allowlisted`).

### `SourceRefresh` and `SourceRefresh_proofs`

One announcement source. Each process is a coordinator with its own lock, so it
has one call at a time; `at` is where that call is, or what it returned.
`Check` and `Recheck` are the two checks of `ensure_fresh`, `Acquire` the
advisory try-lock, `Fetch`, `Commit` and `Merge` the crawl, `Return` the end of
the lease and of the call. `takenAt`, the time the crawl of the stored snapshot
began, is what the row does not keep when its watermark is cleared or raised by
others: it records history and no guard reads it. `Drop` is the loss of the
connection that holds the lock, which the crawl does not notice. `Signal` is
`schedule_announcement_sources`, `MarkIncremental` the mark of a page crawl,
`Command` a crawl on command. `record_source_refresh` is unreachable with
`CrawlerService`, which either persists the snapshot itself or reports it as
partial.

### `PageLease` and `LeaseRefinement`

`PageLease` is what the lease promises, without clocks, workers or rows: a page
is granted to one claim at a time (`Grant`, `Lapse`), its content changes only
while it is granted and never goes back (`Write`), and each claim gets one
verdict (`Settle`, `Lose`). `LeaseRefinement` maps `CrawlLease` to it: the
current claim is that of a live lease, the verdicts are the outcomes of the
attempt rows, the content is the stored version. `KeepsThePromise` says that
every step of `CrawlLease` is a step of `PageLease` or a stutter (for
`LiveSearch = FALSE`: a chat request that stores a page takes no lease); the
proof is in `CrawlLease_proofs`.

### `Frontier`

Transactions that store a fetched page: `LockSource` (the row, its terminal
state), `LockKey` (the advisory locks, global first, then the hosts by name),
`SelectLinks` (the state rows and the caps, in the order of the links),
`LockRow` (`INSERT ... ON CONFLICT DO UPDATE` takes one row after the other),
`Commit` or `Abort`. Locks are functions from rows and keys to writers, so that
`WaitsFor` is the wait-for relation, and `BreakDeadlock` the detector of
PostgreSQL. `Discover` is `upsert_page`, which takes no advisory lock, `Requeue`
whatever makes a stored page pending again. `seeded` is history. `KeptOf` is the
list of the links a transaction keeps, a recursive function over the links of
the page that was fetched.

### `SearchFlight` and `SearchFlight_proofs`

Requests for one and the same question: `ReadL1`, `ReadL2`, `CopyToL1` are the
layered cache, `Acquire` the advisory lock, `Wait` the polling loop, `SearchSite`
to `StoreL2` the search, `Break`, `LoseLock` and `Crash` the failures. Of a
result only the moment it was made and its completeness count. `late` of an
entry in memory is the delay between the read of the table and the copy.

### `LiveCrawl`, `UnitSearch`, `KeywordSearch`

One search each; their proofs and those of `ToolCall` are in `LiveSearch_proofs`. `LiveCrawl` is the best-first crawl of `_search_uncached`
(`LoadMap`, `Discover`, `Visit`, `PassOver`, `CutOff`), its diagnostics
(`Score`), the storing of its pages (`Prepare`, `Embed`, `Save`, `GiveUp`) and
the warning it ends with. `UnitSearch` is `search_unit_announcements`: pairing
and fetching the items of a listing, the candidates with a date and a body, one
merge, the report. `KeywordSearch` is `KeywordAnnouncementIngestor.ingest`: the
form, two attempts per query, the site searcher, the stores, the report. In all
three the deadline is a flag that may be raised between any two steps and during
a request; scores are small numbers, and texts are left out but for being empty.
`Score` has one score per page where the code has a preliminary and a final one,
and leaves out the listings that a search within a scope admits whatever their
score and the pages beyond the limit of the result.

### `Completeness` and `ToolCall`

`Completeness` holds the facts (`DocumentFacts`, `AnnouncementFacts`), the
decision (`Decide`, with one operator per group of guards) and the schedule of a
refresh (`MaySchedule`, `Promised`) as operators over the rows of the query; an
age is "fresh", "soft" or "hard", a hash in sync or not, and the ingestion status
"none" that of an announcement without a row in the site map. `ToolCall` is one
call of a search tool that uses them: `Preflight` (the refresh before a call for
the latest announcements), `Read`, `DecideCall`, `UseDb`, `Schedule`, `GoLive`,
the legacy paths of the modes "off" and "shadow", the three live searches by
their results (`PageResults`, `KeywordResults` with `SilentCutOff`, `UnitResults`),
the second reading, the warnings. Workers claim, store and ingest pages between any two of
its steps (`CrawlStarts`, `CrawlEnds`, `IngestionEnds`), and `Tick` spends the
deadline.

### `ChatTurn` and `ChatTurn_proofs`

`ChatService.answer` between load and save: `FindConversation` and
`LoadConversation` (with the purge of what expired), `CallTool` and `FailTurn`
in bounded rounds, `BuildResponse`, `LockConversation` and `SaveTurn`, with
`DeleteConversation` and the clock at any point in between. The events of a turn
are one record.

### `WorkerControl`

`run_loop` with its two events: `TakeSchedule`, `StartPeriodic`, `LeaveTop`,
`PlanWait`, `EndWait`, `ClearWake`, and `EndRun` for the thread of a run.
`ScheduleRun` queues a run under the lock of the controller and `Wake` sets the
event afterwards, through `call_soon_threadsafe`. Only the loop calls
`run_once`, so that its answer "busy" is not reached.

### `Lists` and `Lists_proofs`

`Among` is `[x for x in s if x in S]`, which `Frontier` and `KeywordSearch` use.
It is a recursive function and no operator, so that what it gives can be proved:
`Lists_proofs` has the induction over numbers that such functions need.

## Runs

TLC checks one module per run. `MCTransactions`, `MCProgress` and `MCLiveSearch`
each join modules that do not share state: the constant variable `part`, chosen
by the initial state, says which of them moves, and the others stand. A behaviour
of such a module is a behaviour of one of its parts, and a property of a part
means what it means for that part alone.

| Configuration | Shows | Bounds |
|---|---|---|
| `MCCrawlLeaseFencing` | `TypeOK`, `LiveLeaseIsRunning`, `GoneIsConfirmed`, `StoredNeverRegresses`, `AttemptClosedOnce`, `KeepsThePromise` | one page, two workers, three claims, leases of two ticks in four, two versions: a third claim is the least that meets two stale ones |
| `MCCrawlLeaseHost` | `HostCapHeld` for claims that do not overlap; `OnlyHolderPostpones` | two pages of one host with a cap of one, two workers, one claim of each page, two ticks (a lease lasts one), schedules, and chat writes of one of the pages |
| `MCTransactions` | claims: `LiveLeaseNotStolen`, `OnlyDueIsClaimed` | three pages, two on one host, two workers with two statements each |
| | stores: `FrontierWithinCaps` | two writers, three pages with links to eight in all, four hosts, a total of two and one per host: both caps fill, from one host and from two |
| | searches: `OneSearch`, `CachedIsYoung`, `SearchedOnce` | three requests in two processes, a time to live of two in three moments, a timeout of one, one failure: one request waits on a holder in its process and one in another |
| | turns: `LostOnlyIfDeleted`, `DeletedStaysDeleted` | two requests, two conversations, one round of tools, a lifetime of one |
| `MCProgress` | claims: `DueIsClaimed`, `ClaimsEnd` | one page, two workers, two claims, four clock readings, crashes at any step |
| | loop: `NoSleepOverDue`, `ScheduleIsRun` | two administrators, an interval of two, schedules up to a time after the last tick |
| | stores: `WritersEnd` | two writers, two pages that link to each other, three hosts |
| | searches: `AllLeave` | a request in each of two processes, one failure |
| `MCPageIngestion` | `CurrentIsIngested`, `VersionsFollowRow`, `SuccessIsIngested`, `EventuallyCurrent` | two workers, three versions, of which the second is blank and the third a notice, two faults; an announcement page with a source and chat writes, one just found without a source, or another page, which may become an announcement page |
| `MCSourceRefresh` | `SignalIsAnswered`, `FreshIsYoung`, `RefreshedIsStored`, `SnapshotNeverRegresses`, `DueIsRefreshed` | two processes, one also on command, three ticks with an interval of two, two listings; a fault with a due signal or a mark, or a lost lock with a mark |
| `MCLiveSearch` | call: `SilentIsVerified`, `FoundIsKept`, `TrustedIsSettled`, `PromisedIsDue` | two pages, one of eight kinds, two sources, one step of the workers, two seconds of deadline; every tool, mode, scope and wording |
| | crawl: `NoneLost`, `NoSilentMiss`, `CompleteIsStored` | six pages on two hosts, budgets of four pages, five candidates, depth two, two pages per host: each budget is met, and a page is found again with a better and a worse score |
| | keyword: `SilentIsStored` | three items, one undated, two queries, a limit of two |
| | unit: `UnitCompleteIsStored` | four announcements, three on the listing, one undated unless paired, one empty, a limit of two |

The clock, claims, versions, faults, drops and signals are bounded by constants
named `Max...`; each bound is large enough that the hazard its run is about
occurs, which the mutants show: for every property of a passing run a plausible
bug in a mapped definition (an operator next to it, commented `Mutant`) makes
TLC find a violation under the same bounds. Workers and writers are symmetric;
symmetry is used for safety and action properties only, never in a run with a
liveness property. Deadlock is checked in `MCPageIngestion`, `MCSourceRefresh`
and `MCLiveSearch`; the other models stop at the bounds of their clocks and
claims, where the code would go on.

Of the type invariants only that of `CrawlLease` is in a run. The others are
proved: `TypeCorrect` of `HostClaim`, `PageIngestion`, `SourceRefresh`,
`SearchFlight` and `ChatTurn`, and the parts `FrontierTypeOK`, `WorkerTypeOK` and
`CrawlTypeOK` of `FrontierCaps`, `NoOversleep` and `CrawlInvariant`; the runs
spend their time on the other properties.

Violations, each a disagreement between the code and what its documents,
comments or tests say (quoted in `PROJECT.json`):

| Configuration | Property | What happens |
|---|---|---|
| `MCCrawlLeaseSchedule` | `ScheduleSparesLiveLease` | a schedule compares leases with a future `run_at` and queues a page that is being crawled |
| `MCCrawlLeaseRenewed` | `RefusedOnlyWhenLost` | a page fetched under a renewed, live lease is refused because its claim's first expiry has passed |
| `MCPageIngestionRevert` | `CurrentIsIngested` | a page that goes back to an earlier version keeps the later document current |
| `MCLiveSearchEmpty` | `EmptyIsAnswered` | a keyword search gives one query up at its deadline and reports success without a result |
| `MCTransactionsDeadlock` | `WritersDoNotDeadlock` | two writers whose pages link to each other wait for each other's row; one is aborted, and its page counts as failed |

Restrictions that the properties carry:

- `StoredNeverRegresses`, `GoneIsConfirmed`, `KeepsThePromise` and
  `VersionsFollowRow` hold without chat writes: those take no lease and may
  store an older version or reset the failure count; `EventuallyCurrent` and
  `SuccessIsIngested` show what is left of that.
- `SuccessIsIngested` asks for settled announcements when the version is a notice
  and the page was an announcement page when its ingestion began;
  `EventuallyCurrent` when the page serves a notice and has a source. What the
  other pages do is below.
- `HostCapHeld` is about claims that do not overlap; for those that do it is false
  (see below), and no property bounds by how much.
- `SignalIsAnswered` holds without drops and marks. `SnapshotNeverRegresses`,
  `FreshIsYoung` and `RefreshedIsStored` hold without drops and signals in one
  behaviour (`InOrder`): a signal clears the watermark, and a crawl that lost its
  lock is then not recognised as late. `FreshIsYoung` and `RefreshedIsStored` also
  leave out marks, which move the watermark past a snapshot nobody took.
- `CurrentIsIngested` and `EventuallyCurrent` hold for sites that do not go back
  to an earlier version (`Reverts = FALSE`).
- `ClaimsEnd` and `DueIsClaimed` are checked with one page: the liveness of two is
  beyond what TLC can search in the time of a run. Batches of several pages are in
  the model and in the proofs, which hold for any batch, but in no run: the two
  pages of `MCCrawlLeaseHost` share a cap of one.
- `FrontierWithinCaps` counts the pages that were found by links: pages that
  `upsert_page` enters without a lock, and stored pages that become pending
  again, may push the frontier over its caps, but let nothing new in.
- `OneSearch` leaves out searches whose lock went away with its connection, and
  `CachedIsYoung` grants a copy the delay of its own making.
- `SilentIsStored` speaks of unanswered queries only while there was time.
- `SilentIsVerified` has one exception, which is what the code does
  (`CutOffUnnoticed`): a keyword search that its deadline cut off before it found
  anything ends without a warning, and the evidence that was found insufficient
  is the answer (`search.py:231-240` and `:326-331`, `tools.py:905`).
- `FoundIsKept` is about calls for documents, and about calls for announcements
  while the policy is enforced, but for those of one unit: the search of a unit
  may answer with what it stored alone (`tools.py:975-995`), and in the other
  modes the announcements that were read first are no part of the answer.
- `NoSilentMiss` counts the queue as missed only when time ended the crawl
  (`EndedByTime`). What a budget left in the queue is not missed, also when time
  runs out later, in the scoring: `timed_out` is then set, but the warning is that
  of a crawl that its budgets ended (`site_search.py:632-645`).

Other behaviours of the code that the modules have, or that were met on the way,
and no run states:

- Claims that overlap (`HostClaim`) may lease more pages of a host than its cap:
  the counts of their snapshots are not tested again by the update.
- A process whose own `_last_success` is recent answers "fresh" to a watermark
  that a due signal has cleared; the second check of `ensure_fresh` comes before
  the lock, so that a source may be crawled twice in a row.
- `mark_incremental_source_success` advances the success time of a source without
  a listing (`repositories.py:943`; `MarkIncremental`), where `docs/architecture.md:41`
  has the snapshot and its time in one transaction. A full crawl that began before
  the mark is then dropped as stale, and still reported as persisted.
- The facts of the policy are read by URL after the evidence: a text that was
  replaced in between is trusted on the facts of its successor.
- With a fresh snapshot the deadline of the call is zero, so that the query for
  the facts always fails and its warning is dropped as redundant.
- The pages a refresh is scheduled for include the listings of sources: one
  without a row makes the schedule "incomplete". Announcements found for a unit
  never advance a snapshot, so that such questions go live each time.
- A site search whose time-out failed no relevant page ends without a warning; so
  may an ingestion that timed out, though its result says so.
- An announcement page that serves no notice is recorded as ingested with its
  announcements pending for ever, and its crawls are successes; one without a
  source fails at every crawl. Both are fetched without conditions and ingested
  again each time, embeddings included, though the document exists. A page that
  becomes an announcement page during its crawl is
  left to the next one.
- A page of another type that serves a notice has given its ingestion lease up
  when it comes to the announcements, which are refused for want of it (or for
  want of a source): the crawl fails after its document was recorded. The next
  crawl finds the document and is a success, without the announcements.
- Failures of the discovery and of the site map are not in `failed_count`, so
  that a degraded result is cached; the page cache and the result cache together
  keep a page for up to twice the time to live.
- An error of the database in the acquisition of the single flight fails the
  search; the test for stale heap entries (`site_search.py:545`) never holds.
- `save_turn` does not test `expires_at`, and may prolong a conversation that has
  expired and is not yet purged; `load_or_create` raises when its row goes
  between its read and its update.
- Schedules live in the memory of the process and end with it; a run that raises
  is not tried again; a stream of schedules postpones the periodic refresh.
- The advisory locks of the hosts are redundant under the global one.

## Fairness

- `CrawlLease`: weak fairness of claiming (`run_loop` polls for ever), of the
  steps of each claim (requests and transactions have time-outs, so each returns
  or raises) and of the clock. Crashes, edits, schedules and chat requests are
  owed to nobody.
- `WorkerControl`: weak fairness of the loop, of the clock and of `Wake` (the
  thread that queued a schedule goes on). Nobody has to schedule or stop.
- `Frontier`: strong fairness of each writer, since PostgreSQL serves the queue
  of a lock in order, so that a writer whose lock becomes free again and again
  gets it; weak fairness of `BreakDeadlock`, for the detector runs after
  `deadlock_timeout`. Errors are owed to nobody.
- `SearchFlight`: weak fairness of each request (a crawl is bounded by its
  deadline, the waiting loop by its own) and of the clock; none of acquiring the
  lock as such, and none of failures.
- `PageIngestion!FairSpec`: some worker claims whenever one can (the page is due
  again after a bounded delay), workers take their steps, and the lease of a
  dead worker runs out. Faults are bounded in number, edits by the model.
- `SourceRefresh!FairSpec`: each process takes its steps
  (`AnnouncementRefreshScheduler.run` calls `ensure_fresh` every minute). No
  fairness of faults, signals, marks or commands.

In `MCProgress` the fairness of each part is stated for the steps of that part;
where a part stands its actions are disabled, and the fairness asks nothing.

## Proofs

Every safety invariant and every action property that a passing run checks is a
theorem of the specification, for all values of the constants. A run checks a
property on a small instance first; every strengthening below was an invariant
of such a run before it was proved.

What the proofs assume of the constants is the named assumption of each module
(`ConstantsAssumption`, `TableAssumption` and `AbsentAssumption`,
`FrontierAssumption`, `WorkerAssumption`, `FlightAssumption`, `ChatAssumption`,
`CallAssumption`, `CrawlAssumption`, `UnitAssumption`, `KeywordAssumption`): sets of
pages, workers and hosts that are finite where they are counted, bounds that are
numbers, and model values outside the sets they stand outside of. TLC evaluates
them in every run. Two hypotheses are in theorems and not in assumptions, since
the properties are false without them and the runs show it or the restrictions
above say so: `LiveSearch = FALSE` (`FenceCorrect`, `NoLostUpdate`,
`GoneConfirmed`, `LeaseImplementsPromise`: chat requests take no lease) and
`Reverts = FALSE` (`CurrentIngested`: `MCPageIngestionRevert` has the
counterexample).

### `CrawlLease_proofs`

- `TypeCorrect`: `Spec => []TypeOK`.
- `LiveLease`: a live lease belongs to the last claim and its attempt is running.
  With `TypeOK` the invariant is inductive: a claim makes a new last attempt, a
  renewal needs ownership, `MarkLost` closes an attempt only when its lease is not
  live, and settling clears the lease in the step that closes the attempt.
- `AuditTrail`: `AttemptClosedOnce`, from the same invariant: an attempt is closed
  only by its owner, whose attempt is still running. A worker that settles again
  because it did not learn of its commit finds the lease gone and its attempt
  closed, and leaves both as they are.
- `FenceCorrect`: `FenceInv` says of the holder of a live lease that nobody has
  changed the stored version or the failure count since its claim except itself,
  and that what it has seen is no older than what is stored. `NoLostUpdate`
  (`StoredNeverRegresses`) and `GoneConfirmed` (`GoneIsConfirmed`) follow. Neither
  can be proved from types alone: both compare the memory of a worker with a row
  that others write.
- `HostCap`: `HostCapHeld`, for claims that do not overlap. The cap alone is not
  inductive, because a page that was retired with its lease and is found again
  would add a lease to its host: `CapInv` adds that only active pages are leased.
  The step of a claim is a counting argument. The candidates of a host are in a
  strict order; a claim takes those that fewer than the free slots come before,
  and these are no more than the slots (the last of them has all the others
  before it).
- `HolderPostpones`: `OnlyHolderPostpones`, an action property that needs types
  only, with one case per writer of the due time.
- `LeaseImplementsPromise`: the refinement of `PageLease`. Each step of
  `CrawlLease` is a `Grant` (a claim, of each page it takes), a `Lapse` (time
  passes the expiry), a `Write` (the persist of the holder, not older by
  `FenceInv`), a verdict (`Settle` or `Lose`, on an attempt that is open by
  `LiveLeaseIsRunning`), or changes nothing that `PageLease` can see.

### `Workers_proofs`

- `HostClaim`: `TypeCorrect`, `NoTheft` (`LiveLeaseNotStolen`) and `OnlyDue`
  (`OnlyDueIsClaimed`). The invariant adds to the types that a statement was
  started in the past (`ReadInThePast`): the `WHERE` of the update tests the row
  against the time of the start, and an expiry that was over then is over now.
- `Frontier`: `FrontierCaps`. `FrontierWithinCaps` speaks of pages in the table,
  but a writer adds pages one row at a time, on the strength of counts it made
  before: `FrontierInv` says that what waits and what any one writer is about to
  add to it are together within the caps, and that a writer that is about to add
  anything holds the global lock, up to its commit. That a transaction keeps no
  more links than fit is an induction over the links of the page (`KeptOf`).
- `WorkerControl`: `NoOversleep`. `NoSleepOverDue` needs the queue to be in the
  order of due times, so that the time-out of the wait, which is that of the head
  of the queue, covers all that is behind it. That an insertion keeps the order
  rests on `DownClosed`: what is due no later than a new run is a prefix of the
  queue.

### `PageIngestion_proofs`

- `TypeCorrect`, and `FetchedIsVersion`: a worker past its fetch has a version.
- `RowIsFollowed` (`VersionsFollowRow`) and `SuccessSearchable`
  (`SuccessIsIngested`) from `OwnerIsRight`: what the owner of the crawl lease
  knows at each of its steps (the row has the version it ingests; no ingestion is
  needed; what it saved is the current document; what it will report is
  searchable) stays true until it settles the claim, because every other write is
  refused for want of the lease or the ingestion token. This is where a stalled
  worker would do harm, and neither property is inductive without it. Two more
  facts are needed because a page may become an announcement page at any moment:
  it never stops being one, and the announcements of other pages have no status
  (`OnlyAnnouncements`).
- `CurrentIngested` (`CurrentIsIngested`) from `OrderInv`, for sites that do not
  go back: the current document is the newest, nothing is newer than the site, and
  while the owner replaces the document the row is not recorded as ingested.

### `SourceRefresh_proofs`

- `TypeCorrect`, `SnapshotOrder` (`SnapshotNeverRegresses`), `SignalAnswered`
  (`SignalIsAnswered`), `FreshSnapshots` (`FreshIsYoung`) and `RefreshedSnapshots`
  (`RefreshedIsStored`). The row does not keep when its snapshot was taken, so that
  all four need to know what the watermark says of it: as long as no lock was
  lost, a crawl holds it and began after the snapshot and after the last signal
  (`CrawlIsLocked`); without signals the watermark leads the snapshot
  (`WatermarkLeads`); without marks it is that of the snapshot, or cleared
  (`WatermarkTaken`); and what a process takes for its own success is in the row or
  was replaced by a later one (`SuccessIsTaken`).

### `SearchFlight_proofs`

- `TypeCorrect`, `OneSearchAtATime` (`OneSearch`: a request past the lock holds it,
  or lost it with its connection), `CachedYoung` (`CachedIsYoung`: the row of the
  table has the expiry of its making, a reading keeps the moment it was made at,
  and a copy in memory is late by no more than its `late`), and `SearchOnce`
  (`SearchedOnce`: the row is what was written last, so that the second reading,
  after the lock, finds it).

### `ChatTurn_proofs`

- `TypeCorrect`, `LostIfDeleted` (`LostOnlyIfDeleted`) and `DeletedForGood`
  (`DeletedStaysDeleted`). A request remembers a conversation that others may
  delete, purge or write in the meantime: until it locks the row, the row is there
  with the lifetime the load gave it, or it may be gone (`LoadedLasts`); from the
  lock to the commit it is as the request counted it (`LockedStands`).

### `LiveSearch_proofs`

- `CrawlInvariant`, the invariant of a best-first crawl, and from it
  `CandidatesKept` (`NoneLost`), `MissesAreTold` (`NoSilentMiss`) and
  `CompleteStored` (`CompleteIsStored`). Every discovered page is visited, queued
  with its best score, or over the limit of its host; every relevant page has a
  fate once the stage that decides it is over; what is in the queue when time ends
  the crawl is recorded. The attempt to prove `NoSilentMiss` as it was first
  stated failed, and TLC then found the reason with a budget of two pages: see the
  restrictions above.
- `UnitStored` (`UnitCompleteIsStored`): an item that is passed over is noted, and
  what is stored is what is selected of the details when the listing has ended.
- `KeywordStored` (`SilentIsStored`): what was selected is stored, still to be
  stored, or counted as a failure; a query without an answer is a failure, or time
  was up.
- `ToolInvariant`, and from it `SilenceVerified` (`SilentIsVerified`),
  `EvidenceKept` (`FoundIsKept`), `TrustSettled` (`TrustedIsSettled`) and
  `PromiseDue` (`PromisedIsDue`). The step that a call has reached tells the
  decision that was taken; a live search without a warning was complete when the
  evidence is read again, or followed a refreshed listing, or is the keyword search
  that was cut off with nothing found (`CutOffSilently`); and workers change the rows between any two steps, so
  that nothing about a row may be carried over from an earlier reading but that
  the page is stored. `TrustSettled` is a statement about the table of `Decide`,
  for all facts.

### `Lists_proofs`

`NatSetInduction` is induction over the numbers for the members of a set. The
induction theorems of the library take an operator as a parameter, which the
provers cannot instantiate; this one takes a set, and is proved from the
well-foundedness of the inclusion of intervals. With it the recursive functions
of the models (`Among`, `Frontier!KeptOf`, `LiveCrawl!EnqueueAll`) can be
reasoned about: `AmongRec` and `AmongType` are what the others need of `Among`.

### Only model-checked

Liveness under fairness, which the prover does not support: `ClaimsEnd`,
`DueIsClaimed`, `ScheduleIsRun`, `WritersEnd`, `AllLeave`, `EventuallyCurrent`,
`DueIsRefreshed`. The five violations are counterexamples of TLC.

## Plan

All parts that are planned are modelled, checked and, for safety, proved. What is
left is to say more about the operators the proofs rest on:

1. `Among` keeps the order and the members of a list, and what `Selected` of the
   keyword search gives is no longer than its limit;
2. `Decide` for all facts: which groups of guards exclude each other, and that no
   facts lead to trust in one mode and to a live search without a reason in the
   other;
3. the types of `ToolCall`, `UnitSearch` and `KeywordSearch`, of which the
   invariants above have what they need;
4. the overlap of claims: how far the leases of a host may exceed its cap when `n`
   statements overlap (`HostClaim` has no such bound yet);
5. abstract specifications for the single flight and for the conversations, of
   the kind of `PageLease`, and their refinement.

Recursion is written as recursive functions or with the folds of the community
modules; no module declares a recursive operator.

## Not modelled

- The delays of the schedule policy and the rate limiter: arithmetic without
  interleavings that matter, in reach of unit tests.
- Parsing, discovery, scoring, ranking and retrieval SQL: texts and weights.
- HTTP, model providers, wiring, command line, the browser extension: I/O and
  plumbing; their failures are failures of the steps that use them.
- The batch ingestion of official documents: one sequential command.
- The rows of announcements and of chunks: a listing or a document is a version
  number; the order in which a partial listing and a page crawl write the same
  announcement is not fixed by the code, so that there is nothing to check.
- `import_existing_urls` and `sync` of the site map: run on command, each page
  in a transaction as `Discover`.
