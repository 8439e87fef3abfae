----------------------------- MODULE CrawlLease -----------------------------
(***************************************************************************)
(* The durable page-crawl lease: several crawl workers share the table     *)
(* site_pages, claim due pages under an expiring lease, crawl them outside *)
(* any transaction and write the outcome back only while the lease is      *)
(* still theirs (db/crawl_scheduler.py, crawlers/crawl_scheduler.py,       *)
(* crawlers/incremental_crawler.py and the state-writing half of           *)
(* db/site_map.py).  Chat requests that search the live site write the     *)
(* same rows without a lease.                                              *)
(*                                                                         *)
(* Every action is one database transaction, or one step of a worker that  *)
(* touches no database.  A lease token (a uuid in the code) is the pair of *)
(* a page p and the ordinal n of its claim, so holder[p] = n says that the *)
(* token of the n-th claim is in the row of p; the owner column is         *)
(* claim[p][n].worker.  Page contents are version numbers of the site.     *)
(***************************************************************************)
EXTENDS Integers, FiniteSets

CONSTANTS
  Pages,           \* indexable HTML pages within the crawl depth
  Workers,         \* crawl worker processes
  Hosts,
  HostOf,          \* [Pages -> Hosts]
  Priority,        \* [Pages -> Nat], crawl_priority
  IdOrder,         \* [Pages -> Nat], order of the primary keys
  LinkDiscovered,  \* pages whose discovery source ranks lowest (internal_link)
  NoWorker,
  LeaseDuration,
  Delays,          \* what the schedule policy may add to the clock
  ActiveCap,       \* FrontierPolicy.per_host_active_cap
  DueCap,          \* FrontierPolicy.per_host_due_cap
  BatchLimit,      \* limit of claim_due
  NotFoundAfter,   \* AdaptiveScheduleConfig.not_found_permanent_after
  ScheduleAhead,   \* how far ahead an administrator may set run_at
  LiveSearch,      \* do chat requests write the site map?
  MaxNow,          \* bound on the clock
  MaxAttempts,     \* bound on the claims of one page
  MaxVersion       \* bound on the edits of one page

ASSUME ConstantsAssumption ==
  /\ HostOf \in [Pages -> Hosts]
  /\ Priority \in [Pages -> Nat]
  /\ IdOrder \in [Pages -> Nat]
  /\ LinkDiscovered \subseteq Pages
  /\ NoWorker \notin Workers
  /\ LeaseDuration \in Nat \ {0}
  /\ Delays \subseteq Nat
  /\ ActiveCap \in Nat \ {0}
  /\ DueCap \in Nat \ {0}
  /\ BatchLimit \in Nat \ {0}
  /\ NotFoundAfter \in Nat \ {0}
  /\ ScheduleAhead \in Nat
  /\ LiveSearch \in BOOLEAN
  /\ MaxNow \in Nat
  /\ MaxAttempts \in Nat
  /\ MaxVersion \in Nat \ {0}

\* site_pages is a table, of which the id is the primary key.
ASSUME TableAssumption ==
  /\ IsFiniteSet(Pages)
  /\ \A p, q \in Pages : IdOrder[p] = IdOrder[q] => p = q

VARIABLES
  now,        \* the clock the processes read
  site,       \* version of each page on the web site
  status,     \* crawl_status
  active,     \* is_active
  dueAt,      \* next_crawl_at, Never for NULL
  failures,   \* failure_count
  stored,     \* content_hash: the version last written, 0 for NULL
  attempts,   \* number of claims ever made of a page
  holder,     \* crawl_lease_token, 0 for NULL
  expires,    \* crawl_lease_expires_at, 0 for NULL
  outcome,    \* site_crawl_attempts.outcome, per page and claim
  claim,      \* the immutable CrawlClaim a worker holds
  phase,      \* where the worker is with a claim
  seen,       \* version of the page in the response
  result      \* IncrementalCrawlResult, as far as completion looks at it

row    == <<status, active, dueAt, failures, stored>>
lease  == <<attempts, holder, expires>>
memory == <<claim, phase, seen, result>>
vars   == <<now, site, row, lease, outcome, memory>>

Never    == -1
Attempts == 1..MaxAttempts

Statuses == {"discovered", "queued", "fetching", "success", "unchanged",
             "failed", "blocked", "excluded"}
Closed   == {"blocked", "excluded"}

Finished == {"success", "failed_transient", "blocked", "excluded"}
Outcomes == Finished \cup {"unissued", "running", "lease_lost"}

(* How a crawl can fail, by what AdaptiveSchedulePolicy tells apart:       *)
(* 401 and 403, 404 and 410, another 4xx (415 for a page that is not       *)
(* HTML), and everything that is retried, a lost lease among it.           *)
HttpFailures == {"refused", "missing", "client", "transient"}
Failures     == HttpFailures \cup {"lost"}
Results  == Failures \cup {"none", "changed", "unchanged"}

Phases   == {"gone", "claimed", "fetch", "html", "parsed", "persist",
             "stored", "ingest", "result", "settle"}

ClaimRecords == [worker   : Workers \cup {NoWorker},
                 expires  : Nat,
                 failures : Nat,
                 hash     : Nat]

NoClaim == [worker |-> NoWorker, expires |-> 0, failures |-> 0, hash |-> 0]

-----------------------------------------------------------------------------
(* Who holds what                                                          *)

Live(p) == holder[p] # 0 /\ expires[p] > now

\* The predicate of _owned_lease.
Owned(p, n) == holder[p] = n /\ expires[p] > now

Batch(w) == {c \in Pages \X Attempts : claim[c[1]][c[2]].worker = w}

-----------------------------------------------------------------------------
(* Which pages a claim takes                                               *)

\* Mutant: pages being fetched instead of pages under a lease.
BusyPagesFetching(p) == {q \in Pages : /\ HostOf[q] = HostOf[p]
                                       /\ q # p
                                       /\ active[q]
                                       /\ status[q] = "fetching"}

\* active_count: other active pages of the host under a live lease.
BusyPages(p) == {q \in Pages : /\ HostOf[q] = HostOf[p]
                               /\ q # p
                               /\ active[q]
                               /\ Live(q)}

\* Mutant: a lease is free only once its holder has cleared it.
CandidatesUnleased(urls) ==
  {p \in urls : /\ active[p]
                /\ status[p] \notin Closed
                /\ dueAt[p] # Never
                /\ dueAt[p] <= now
                /\ holder[p] = 0
                /\ Cardinality(BusyPages(p)) < ActiveCap}

\* Mutant: the lease of the page itself is not looked at.
CandidatesLeased(urls) ==
  {p \in urls : /\ active[p]
                /\ status[p] \notin Closed
                /\ dueAt[p] # Never
                /\ dueAt[p] <= now
                /\ Cardinality(BusyPages(p)) < ActiveCap}

Candidates(urls) ==
  {p \in urls : /\ active[p]
                /\ status[p] \notin Closed
                /\ dueAt[p] # Never
                /\ dueAt[p] <= now
                /\ ~Live(p)
                /\ Cardinality(BusyPages(p)) < ActiveCap}

\* The ORDER BY of the window function, for pages of one depth.
Before(p, q) ==
  \/ Priority[p] > Priority[q]
  \/ /\ Priority[p] = Priority[q]
     /\ \/ dueAt[p] < dueAt[q]
        \/ /\ dueAt[p] = dueAt[q]
           /\ \/ failures[p] < failures[q]
              \/ failures[p] = failures[q] /\ IdOrder[p] < IdOrder[q]

HostRank(p, C) ==
  1 + Cardinality({q \in C : HostOf[q] = HostOf[p] /\ Before(q, p)})

HostSlots(p) == LET free == ActiveCap - Cardinality(BusyPages(p))
                IN  IF free < DueCap THEN free ELSE DueCap

\* due_pages_statement: host-fair ranking, then the limit.
Due(urls) ==
  LET C == Candidates(urls)
      R == {p \in C : HostRank(p, C) <= HostSlots(p)}
      Ahead(p) == {q \in R : \/ HostRank(q, C) < HostRank(p, C)
                             \/ /\ HostRank(q, C) = HostRank(p, C)
                                /\ Before(q, p)}
  IN  {p \in R : Cardinality(Ahead(p)) < BatchLimit}

\* f with the entry of the next claim of every page p of S set to value[p].
Issue(f, S, value) ==
  [p \in Pages |-> IF p \in S
                   THEN [f[p] EXCEPT ![attempts[p] + 1] = value[p]]
                   ELSE f[p]]

On(f, S, v) == [p \in Pages |-> IF p \in S THEN v ELSE f[p]]

ClaimDue(w) ==
  /\ Batch(w) = {}
  /\ \E urls \in SUBSET Pages :
       LET S == Due(urls) IN
         /\ S # {}
         /\ \A p \in S : attempts[p] < MaxAttempts
         /\ attempts' = [p \in Pages |-> attempts[p] + IF p \in S THEN 1 ELSE 0]
         /\ holder' = [p \in Pages |->
                         IF p \in S THEN attempts[p] + 1 ELSE holder[p]]
         /\ expires' = On(expires, S, now + LeaseDuration)
         /\ status' = On(status, S, "fetching")
         /\ outcome' = Issue(outcome, S, [p \in Pages |-> "running"])
         /\ claim' = Issue(claim, S,
                           [p \in Pages |-> [worker   |-> w,
                                             expires  |-> now + LeaseDuration,
                                             failures |-> failures[p],
                                             hash     |-> stored[p]]])
         /\ phase' = Issue(phase, S, [p \in Pages |-> "claimed"])
  /\ UNCHANGED <<now, site, active, dueAt, failures, stored, seen, result>>

-----------------------------------------------------------------------------
(* Keeping and losing a lease                                              *)

\* Mutant: the latest running attempt of the page, whatever its token.
MarkLostLatest(p, n) ==
  outcome' = [outcome EXCEPT ![p][attempts[p]] =
                IF @ = "running" /\ ~Owned(p, n) THEN "lease_lost" ELSE @]

\* Mutant: an attempt that is closed is closed again.
MarkLostAgain(p, n) ==
  outcome' = [outcome EXCEPT ![p][n] = IF Owned(p, n) THEN @ ELSE "lease_lost"]

\* _mark_lease_lost: only a running attempt, and only when that exact lease
\* is no longer live.
MarkLost(p, n) ==
  outcome' = [outcome EXCEPT ![p][n] =
                IF @ = "running" /\ ~Owned(p, n) THEN "lease_lost" ELSE @]

Goto(p, n, next) == phase' = [phase EXCEPT ![p][n] = next]

\* The worker is done with a claim and drops what it knew of it.
Forget(p, n) ==
  /\ Goto(p, n, "gone")
  /\ claim' = [claim EXCEPT ![p][n] = NoClaim]
  /\ seen' = [seen EXCEPT ![p][n] = 0]
  /\ result' = [result EXCEPT ![p][n] = "none"]

Report(p, n, res) ==
  /\ result' = [result EXCEPT ![p][n] = res]
  /\ Goto(p, n, "result")

\* The four points of a crawl at which the worker renews before it goes on;
\* a lost lease ends the crawl with LEASE_LOST.
RenewAndGo(p, n, from, to) ==
  /\ phase[p][n] = from
  /\ \/ /\ Owned(p, n)
        /\ expires' = [expires EXCEPT ![p] = now + LeaseDuration]
        /\ Goto(p, n, to)
        /\ UNCHANGED <<outcome, result>>
     \/ /\ ~Owned(p, n)
        /\ MarkLost(p, n)
        /\ Report(p, n, "lost")
        /\ UNCHANGED expires
  /\ UNCHANGED <<now, site, row, attempts, holder, claim, seen>>

RenewBeforeFetch(p, n)   == RenewAndGo(p, n, "claimed", "fetch")
RenewBeforeParse(p, n)   == RenewAndGo(p, n, "html", "parsed")
RenewBeforePersist(p, n) == RenewAndGo(p, n, "parsed", "persist")
RenewBeforeIngest(p, n)  == RenewAndGo(p, n, "stored", "ingest")

-----------------------------------------------------------------------------
(* Crawling one claimed page                                               *)

\* HTTP, outside any transaction.  A 304 needs validators, that is, a
\* version stored when the claim was made that the site still serves.
Fetch(p, n) ==
  /\ phase[p][n] = "fetch"
  /\ \/ /\ seen' = [seen EXCEPT ![p][n] = site[p]]
        /\ Goto(p, n, "html")
        /\ UNCHANGED result
     \/ /\ claim[p][n].hash = site[p]
        /\ Report(p, n, "unchanged")
        /\ UNCHANGED seen
     \/ /\ \E failure \in HttpFailures : Report(p, n, failure)
        /\ UNCHANGED seen
  /\ UNCHANGED <<now, site, row, lease, outcome, claim>>

\* Mutant: the page is leased, to whomever.
MayPersistLeased(p, n) == Live(p)

\* persist_fetched_page under a lease.  The write is refused unless the row
\* carries the worker's live lease and the expiry of the claim itself, which
\* a renewal does not move, is still ahead.  The same transaction inserts the
\* pages it links to and completes the rows of those that are known
\* (site_map.py:250 and 1313-1323), which touches no column of this module
\* but a next_crawl_at that is NULL: see Frontier, and PageIngestion for the
\* page_type.
MayPersist(p, n) == Owned(p, n) /\ claim[p][n].expires > now

Persist(p, n) ==
  /\ phase[p][n] = "persist"
  /\ \/ /\ MayPersist(p, n)
        /\ status' = [status EXCEPT ![p] =
                        IF stored[p] # seen[p][n] THEN "success" ELSE "unchanged"]
        /\ failures' = [failures EXCEPT ![p] = 0]
        /\ stored' = [stored EXCEPT ![p] = seen[p][n]]
        /\ IF claim[p][n].hash # seen[p][n]
           THEN /\ result' = [result EXCEPT ![p][n] = "changed"]
                /\ Goto(p, n, "stored")
           ELSE /\ result' = [result EXCEPT ![p][n] = "unchanged"]
                /\ Goto(p, n, "stored") \/ Goto(p, n, "result")
     \/ /\ ~MayPersist(p, n)
        /\ Report(p, n, "lost")
        /\ UNCHANGED <<status, failures, stored>>
  /\ UNCHANGED <<now, site, active, dueAt, lease, outcome, claim, seen>>

\* CrawlIngestionService.ingest_page, whose own transactions are the matter
\* of another module: here it succeeds or the crawl is INGESTION_FAILED.
Ingest(p, n) ==
  /\ phase[p][n] = "ingest"
  /\ \/ Goto(p, n, "result") /\ UNCHANGED result
     \/ Report(p, n, "transient")
  /\ UNCHANGED <<now, site, row, lease, outcome, claim, seen>>

\* Anything raised while the page is crawled (a database that stays
\* unreachable after the retries, a parser error) is an outcome FAILED.
Raise(p, n) ==
  /\ phase[p][n] \notin {"gone", "result", "settle"}
  /\ Report(p, n, "transient")
  /\ UNCHANGED <<now, site, row, lease, outcome, claim, seen>>

-----------------------------------------------------------------------------
(* Settling a batch: only when every claim of it has a result, one by one  *)

\* Mutant: a lost lease is not noticed before settling.
SettleRenewHeld(p, n) ==
  /\ phase[p][n] = "result"
  /\ \A c \in Batch(claim[p][n].worker) : phase[c[1]][c[2]] = "result"
  /\ Owned(p, n)
  /\ expires' = [expires EXCEPT ![p] = now + LeaseDuration]
  /\ Goto(p, n, "settle")
  /\ UNCHANGED <<now, site, row, attempts, holder, outcome, claim, seen, result>>

SettleRenew(p, n) ==
  /\ phase[p][n] = "result"
  /\ \A c \in Batch(claim[p][n].worker) : phase[c[1]][c[2]] = "result"
  /\ \/ /\ Owned(p, n)
        /\ expires' = [expires EXCEPT ![p] = now + LeaseDuration]
        /\ Goto(p, n, "settle")
        /\ UNCHANGED <<outcome, claim, seen, result>>
     \/ /\ ~Owned(p, n)
        /\ MarkLost(p, n)
        /\ Forget(p, n)
        /\ UNCHANGED expires
  /\ UNCHANGED <<now, site, row, attempts, holder>>

ClearLease(p) ==
  /\ holder' = [holder EXCEPT ![p] = 0]
  /\ expires' = [expires EXCEPT ![p] = 0]

\* Mutant: the status of the page is recorded as the outcome.
FinishAttemptAsPage(p, n, o) == outcome' = [outcome EXCEPT ![p][n] = status'[p]]

FinishAttempt(p, n, o) == outcome' = [outcome EXCEPT ![p][n] = o]

Rejected(p, n) ==
  /\ ~Owned(p, n)
  /\ MarkLost(p, n)
  /\ Forget(p, n)
  /\ UNCHANGED <<row, holder, expires>>

\* The worker may not learn of the commit, and then tries again
\* (_with_db_retry), from under a lease that the first try has cleared.
Committed(p, n) == Forget(p, n) \/ UNCHANGED memory

Complete(p, n) ==
  /\ phase[p][n] = "settle"
  /\ result[p][n] \in {"changed", "unchanged"}
  /\ \/ /\ Owned(p, n)
        /\ status' = [status EXCEPT ![p] =
                        IF result[p][n] = "changed" THEN "success" ELSE "unchanged"]
        /\ failures' = [failures EXCEPT ![p] = 0]
        /\ \E d \in Delays : dueAt' = [dueAt EXCEPT ![p] = now + d]
        /\ FinishAttempt(p, n, "success")
        /\ ClearLease(p)
        /\ Committed(p, n)
        /\ UNCHANGED <<active, stored>>
     \/ Rejected(p, n)
  /\ UNCHANGED <<now, site, attempts>>

\* Mutant: this failure is counted twice.
VerdictEarly(failure, count) ==
  CASE failure = "refused" -> "blocked"
    [] failure = "client" -> "excluded"
    [] failure = "missing" /\ count + 1 >= NotFoundAfter -> "excluded"
    [] OTHER -> "failed"

\* AdaptiveSchedulePolicy.failure_decision for the count of failures the
\* claim remembers, this one included.
Verdict(failure, count) ==
  CASE failure = "refused" -> "blocked"
    [] failure = "client" -> "excluded"
    [] failure = "missing" /\ count >= NotFoundAfter -> "excluded"
    [] OTHER -> "failed"

Fail(p, n) ==
  /\ phase[p][n] = "settle"
  /\ result[p][n] \in Failures
  /\ LET verdict == Verdict(result[p][n], claim[p][n].failures + 1) IN
       \/ /\ Owned(p, n)
          /\ status' = [status EXCEPT ![p] = verdict]
          /\ failures' = [failures EXCEPT ![p] = @ + 1]
          /\ IF verdict \in Closed
             THEN /\ active' = [active EXCEPT ![p] = FALSE]
                  /\ dueAt' = [dueAt EXCEPT ![p] = Never]
                  /\ FinishAttempt(p, n, verdict)
             ELSE /\ \E d \in Delays : dueAt' = [dueAt EXCEPT ![p] = now + d]
                  /\ FinishAttempt(p, n, "failed_transient")
                  /\ UNCHANGED active
          /\ ClearLease(p)
          /\ Committed(p, n)
          /\ UNCHANGED stored
       \/ Rejected(p, n)
  /\ UNCHANGED <<now, site, attempts>>

\* The process dies, or an error of the database escapes run_once: all it
\* knew of its batch is lost and the rows keep their leases.  So it is with
\* the pages of a claim that was committed and tried again.
Abandon(w) ==
  /\ Batch(w) # {}
  /\ LET Without(f, v) == [p \in Pages |-> [n \in Attempts |->
                             IF claim[p][n].worker = w THEN v ELSE f[p][n]]]
     IN  /\ claim' = Without(claim, NoClaim)
         /\ phase' = Without(phase, "gone")
         /\ seen' = Without(seen, 0)
         /\ result' = Without(result, "none")
  /\ UNCHANGED <<now, site, row, lease, outcome>>

-----------------------------------------------------------------------------
(* Scheduling and unleased writers                                         *)

\* The WHERE of schedule_pages, evaluated at run_at.  (Its test of the
\* ingestion lease, which can only spare more pages, is left out.)
Schedulable(p, runAt) ==
  /\ active[p]
  /\ status[p] \notin Closed
  /\ holder[p] = 0 \/ expires[p] <= runAt

\* Mutant: a page that is due earlier is put off.
ScheduleOverwrites(urls, runAt) ==
  LET S == {p \in urls : Schedulable(p, runAt)} IN
    /\ S # {}
    /\ dueAt' = On(dueAt, S, runAt)
    /\ status' = On(status, S, "queued")
    /\ UNCHANGED <<now, site, active, failures, stored, lease, outcome, memory>>

Schedule(urls, runAt) ==
  LET S == {p \in urls : Schedulable(p, runAt)} IN
    /\ S # {}
    /\ dueAt' = [p \in Pages |->
                   IF p \in S /\ (dueAt[p] = Never \/ dueAt[p] > runAt)
                   THEN runAt ELSE dueAt[p]]
    /\ status' = On(status, S, "queued")
    /\ UNCHANGED <<now, site, active, failures, stored, lease, outcome, memory>>

\* What the upsert of an existing row changes of the crawl state.
Rediscover(p) ==
  /\ active' = [active EXCEPT ![p] = @ \/ p \in LinkDiscovered]
  /\ \E d \in Delays :
       dueAt' = [dueAt EXCEPT ![p] = IF @ = Never THEN now + d ELSE @]

\* A chat request stores a page it fetched, by now perhaps an older version.
LiveFetched(p) ==
  /\ LiveSearch
  /\ \E v \in 1..site[p] :
       /\ status' = [status EXCEPT ![p] =
                       IF stored[p] # v THEN "success" ELSE "unchanged"]
       /\ stored' = [stored EXCEPT ![p] = v]
  /\ failures' = [failures EXCEPT ![p] = 0]
  /\ Rediscover(p)
  /\ UNCHANGED <<now, site, lease, outcome, memory>>

LiveFailed(p) ==
  /\ LiveSearch
  /\ failures[p] < MaxAttempts
  /\ status' = [status EXCEPT ![p] = "failed"]
  /\ failures' = [failures EXCEPT ![p] = @ + 1]
  /\ Rediscover(p)
  /\ UNCHANGED <<now, site, stored, lease, outcome, memory>>

-----------------------------------------------------------------------------
(* The environment                                                         *)

Tick ==
  /\ now < MaxNow
  /\ now' = now + 1
  /\ UNCHANGED <<site, row, lease, outcome, memory>>

Edit(p) ==
  /\ site[p] < MaxVersion
  /\ site' = [site EXCEPT ![p] = @ + 1]
  /\ UNCHANGED <<now, row, lease, outcome, memory>>

-----------------------------------------------------------------------------

Init ==
  /\ now = 0
  /\ site = [p \in Pages |-> 1]
  /\ status = [p \in Pages |-> "discovered"]
  /\ active = [p \in Pages |-> TRUE]
  /\ dueAt = [p \in Pages |-> 0]
  /\ failures = [p \in Pages |-> 0]
  /\ stored = [p \in Pages |-> 0]
  /\ attempts = [p \in Pages |-> 0]
  /\ holder = [p \in Pages |-> 0]
  /\ expires = [p \in Pages |-> 0]
  /\ outcome = [p \in Pages |-> [n \in Attempts |-> "unissued"]]
  /\ claim = [p \in Pages |-> [n \in Attempts |-> NoClaim]]
  /\ phase = [p \in Pages |-> [n \in Attempts |-> "gone"]]
  /\ seen = [p \in Pages |-> [n \in Attempts |-> 0]]
  /\ result = [p \in Pages |-> [n \in Attempts |-> "none"]]

Crawl(p, n) ==
  \/ RenewBeforeFetch(p, n)
  \/ Fetch(p, n)
  \/ RenewBeforeParse(p, n)
  \/ RenewBeforePersist(p, n)
  \/ Persist(p, n)
  \/ RenewBeforeIngest(p, n)
  \/ Ingest(p, n)
  \/ Raise(p, n)
  \/ SettleRenew(p, n)
  \/ Complete(p, n)
  \/ Fail(p, n)

Next ==
  \/ \E w \in Workers : ClaimDue(w) \/ Abandon(w)
  \/ \E p \in Pages, n \in Attempts : Crawl(p, n)
  \/ \E urls \in SUBSET Pages, ahead \in 0..ScheduleAhead :
       Schedule(urls, now + ahead)
  \/ \E p \in Pages : LiveFetched(p) \/ LiveFailed(p) \/ Edit(p)
  \/ Tick

Spec == Init /\ [][Next]_vars

\* run_loop polls for ever, every crawl step returns or raises (HTTP and
\* transactions have timeouts), and the clock advances.  Crashes, edits,
\* schedules and chat requests are owed to nobody.
Fairness ==
  /\ \A w \in Workers : WF_vars(ClaimDue(w))
  /\ \A p \in Pages, n \in Attempts : WF_vars(Crawl(p, n))
  /\ WF_vars(Tick)

FairSpec == Spec /\ Fairness

-----------------------------------------------------------------------------
(* Properties                                                              *)

\* Types of the variables: the domains of the columns, of the claims and of
\* the results.
TypeOK ==
  /\ now \in Nat
  /\ site \in [Pages -> Nat]
  /\ status \in [Pages -> Statuses]
  /\ active \in [Pages -> BOOLEAN]
  /\ dueAt \in [Pages -> Nat \cup {Never}]
  /\ failures \in [Pages -> Nat]
  /\ stored \in [Pages -> Nat]
  /\ attempts \in [Pages -> 0..MaxAttempts]
  /\ holder \in [Pages -> 0..MaxAttempts]
  /\ expires \in [Pages -> Nat]
  /\ outcome \in [Pages -> [Attempts -> Outcomes]]
  /\ claim \in [Pages -> [Attempts -> ClaimRecords]]
  /\ phase \in [Pages -> [Attempts -> Phases]]
  /\ seen \in [Pages -> [Attempts -> Nat]]
  /\ result \in [Pages -> [Attempts -> Results]]

\* A live lease in the page row belongs to the latest claim of the page, and
\* the attempt row of that claim is still running: no stale worker, however
\* late it reports, closes the attempt of the worker that replaced it.  And
\* no attempt row is ahead of the claims.
LiveLeaseIsRunning ==
  \A p \in Pages :
    /\ Live(p) => /\ holder[p] = attempts[p]
                  /\ outcome[p][holder[p]] = "running"
    /\ \A n \in Attempts : n > attempts[p] => outcome[p][n] = "unissued"

\* A host is crawled by at most per_host_active_cap pages at a time, across
\* workers, batches, renewals and expired leases (claims do not overlap
\* here; module HostClaim is about claims that do).
HostCapHeld ==
  \A h \in Hosts :
    Cardinality({p \in Pages : HostOf[p] = h /\ active[p] /\ Live(p)}) <= ActiveCap

\* A page is given up as not found only when its row counts
\* not_found_permanent_after consecutive failures, although the decision is
\* taken from the failure count the claim remembers.
GoneIsConfirmed ==
  [][\A p \in Pages, n \in Attempts :
       /\ outcome[p][n] # outcome'[p][n]
       /\ outcome'[p][n] = "excluded"
       /\ result[p][n] = "missing"
       => failures'[p] >= NotFoundAfter]_vars

\* The stored version of a page never goes back: a worker that fetched the
\* page, stalled past its lease and was replaced cannot overwrite what its
\* successor stored (persist_fetched_page fences on the token).
StoredNeverRegresses ==
  [][\A p \in Pages : stored'[p] >= stored[p]]_vars

\* An attempt row is closed once: the audit trail of a crawl is never
\* rewritten by a worker that comes late or reports twice.
AttemptClosedOnce ==
  [][\A p \in Pages, n \in Attempts :
       outcome[p][n] \in Finished \cup {"lease_lost"}
         => outcome'[p][n] = outcome[p][n]]_vars

\* The due time of a page that has one is moved back, or erased, only by the
\* worker whose live lease covers the page: schedule_pages, chat requests
\* and stale workers can only bring it forward.
OnlyHolderPostpones ==
  [][\A p \in Pages :
       dueAt[p] # Never /\ (dueAt'[p] = Never \/ dueAt'[p] > dueAt[p])
         => /\ Live(p)
            /\ phase[p][holder[p]] = "settle"
            /\ holder'[p] = 0]_vars

Waiting(p) == /\ active[p]
              /\ status[p] \notin Closed
              /\ dueAt[p] # Never
              /\ dueAt[p] <= now
              /\ ~Live(p)

\* A due page that no live lease covers is eventually claimed, also when its
\* last worker died and only the expiry of the lease freed it.  (It does not
\* compete with another page of its host; the bound on the number of claims
\* of the model aside.)
DueIsClaimed ==
  \A p \in Pages :
    Waiting(p) ~> ~Waiting(p) \/ attempts[p] = MaxAttempts

\* No claim is kept for ever: the worker settles it, or dies.
ClaimsEnd ==
  \A p \in Pages, n \in Attempts : phase[p][n] # "gone" ~> phase[p][n] = "gone"

\* schedule_pages does not queue a page under a live lease
\* (docs/architecture.md, the paragraph on CompletenessRefreshScheduler).
ScheduleSparesLiveLease ==
  [][\A p \in Pages :
       Live(p) /\ status[p] # "queued" => status'[p] # "queued"]_vars

\* persist_fetched_page refuses a write because the page lease is no longer
\* valid, as its message says, only when it is not.
RefusedOnlyWhenLost ==
  [][\A p \in Pages, n \in Attempts :
       /\ phase[p][n] = "persist"
       /\ phase'[p][n] = "result"
       /\ result'[p][n] = "lost"
       => ~Owned(p, n)]_vars

=============================================================================
