---------------------------- MODULE PageIngestion ----------------------------
(***************************************************************************)
(* From a crawled page to a searchable document: crawl workers that hold   *)
(* the crawl lease of a page one after the other (or believe they do)      *)
(* write the version they fetched to the page row, take a second lease on  *)
(* its ingestion, and switch the current document of the URL, each step in *)
(* a transaction of its own (crawlers/incremental_crawler.py,              *)
(* crawlers/crawl_ingestion.py and SqlDocumentRepository in                *)
(* db/repositories.py).                                                    *)
(*                                                                         *)
(* Whether a page is an announcement page is said twice: by the page_type  *)
(* of its row, which the crawl that found it chose, and by the role that   *)
(* the parser gives to the version in the response.  The first decides     *)
(* what the row must say to need no ingestion, the second if announcements *)
(* are stored, and the two need not agree.                                 *)
(*                                                                         *)
(* One page.  The life of the crawl lease is module CrawlLease: here it is *)
(* taken, expires and is cleared.  A token is named after the worker whose *)
(* last claim issued it, and the tokens of its earlier claims are Stale.   *)
(* The ingestion lease takes the expiry of the crawl lease, which is not   *)
(* renewed during an ingestion, so that one flag tells if both are live.   *)
(* Versions of the page are numbers; 0 is NULL.                            *)
(***************************************************************************)
EXTENDS Integers

CONSTANTS
  Workers,         \* crawl worker processes
  Nobody,          \* no token
  Stale,           \* a token whose claim is over
  MaxVersion,      \* versions the page can have
  Blanks,          \* versions with an empty body
  Notices,         \* versions whose role is LISTING or DETAIL
  Reverts,         \* may the page go back to an earlier version?
  MaxFaults        \* bound on crashes, errors, refusals and early expiries

ASSUME ConstantsAssumption ==
  /\ Nobody \notin Workers
  /\ Stale \notin Workers
  /\ Stale # Nobody
  /\ MaxVersion \in Nat \ {0}
  /\ Blanks \subseteq 1..MaxVersion
  /\ Notices \subseteq 1..MaxVersion
  /\ Reverts \in BOOLEAN
  /\ MaxFaults \in Nat

VARIABLES
  isAnnouncement, \* page_type is announcement_listing or announcement_detail
  allowlisted,    \* is an announcement source configured for the page?
  liveSearch,     \* do chat requests write the page row?
  site,      \* the version the web site serves
  faults,    \* faults so far
  stored,    \* content_hash of the page row
  lease,     \* crawl_lease_token
  live,      \* is the lease ahead of its expiry?
  status,    \* ingestion_status
  ingested,  \* ingestion_content_hash
  attempt,   \* ingestion_attempt_hash
  listing,   \* announcement_ingestion_status
  ilease,    \* ingestion_lease_token
  docs,      \* versions with a row in documents
  current,   \* the version whose row is_current
  at,        \* where a worker is
  known,     \* content_hash in its claim
  pending,   \* ingestion_pending
  seen,      \* the version in the response
  outcome    \* IncrementalCrawlResult.outcome

crawl    == <<lease, live>>
columns  == <<status, ingested, attempt, listing, ilease>>
library  == <<docs, current>>
memory   == <<at, known, pending, seen, outcome>>
setting  == <<allowlisted, liveSearch>>
world    == <<isAnnouncement, setting>>
vars     == <<world, site, faults, stored, crawl, columns, library, memory>>

Versions == 1..MaxVersion
Tokens   == Workers \cup {Nobody, Stale}

Terminal == {"success", "incomplete"}
Ingested == {"success", "partial"}

Crawling  == {"claimed", "checked", "fetched"}
Ingesting == {"ingest", "begun", "saved", "completed", "dated", "undated",
              "partial"}
Places    == Crawling \cup Ingesting \cup {"idle", "failing", "result"}

Owns(w) == lease = w /\ live /\ at[w] # "idle"

\* _assert_ingestion_lease.
Holds(w) == Owns(w) /\ ilease = w /\ attempt = seen[w]

Fault == faults < MaxFaults /\ faults' = faults + 1

Goto(w, next) == at' = [at EXCEPT ![w] = next]

\* A result of the crawl, to be settled.
Report(w, o) == Goto(w, "result") /\ outcome' = [outcome EXCEPT ![w] = o]

-----------------------------------------------------------------------------
(* Claim, check, fetch, store                                              *)

Claim(w) ==
  /\ at[w] = "idle"
  /\ ~live
  /\ lease' = w
  /\ live' = TRUE
  /\ ilease' = IF ilease = w THEN Stale ELSE ilease
  /\ known' = [known EXCEPT ![w] = stored]
  /\ Goto(w, "claimed")
  /\ UNCHANGED <<world, site, faults, stored, status, ingested, attempt, listing,
                 library, pending, seen, outcome>>

HasDocument(v) == v \in docs

\* needs_ingestion.
Needs(c) ==
  \/ ~HasDocument(c)
  \/ /\ isAnnouncement
     /\ status \notin Ingested \/ listing \notin Terminal \/ ingested # c
  \/ /\ ~isAnnouncement
     /\ status # "success"

\* _ingestion_pending, under the renewed lease; a page never stored is not.
Check(w) ==
  /\ at[w] = "claimed"
  /\ \/ /\ Owns(w)
        /\ pending' = [pending EXCEPT ![w] = known[w] # 0 /\ Needs(known[w])]
        /\ Goto(w, "checked")
        /\ UNCHANGED outcome
     \/ ~Owns(w) /\ Report(w, "lost") /\ UNCHANGED pending
  /\ UNCHANGED <<world, site, faults, stored, crawl, columns, library, known, seen>>

\* A conditional request, which may be answered by 304, is sent only when
\* the version of the claim needs no ingestion.
Fetch(w) ==
  /\ at[w] = "checked"
  /\ \/ /\ seen' = [seen EXCEPT ![w] = site]
        /\ Goto(w, "fetched")
        /\ UNCHANGED outcome
     \/ /\ ~pending[w]
        /\ known[w] = site
        /\ seen' = [seen EXCEPT ![w] = site]
        /\ Report(w, "unchanged")
  /\ UNCHANGED <<world, site, faults, stored, crawl, columns, library, known, pending>>

\* Mutant: a page that did not change is not ingested.
MustIngestChanged(w) == seen[w] # known[w]

MustIngest(w) == seen[w] # known[w] \/ pending[w]

\* persist_fetched_page, and whether the page goes on to be ingested.  The
\* write is refused when the lease is lost, and also (a fault here) when the
\* expiry the claim was issued with has passed.
Persist(w) ==
  /\ at[w] = "fetched"
  /\ \/ /\ Owns(w)
        /\ stored' = seen[w]
        /\ outcome' = [outcome EXCEPT
                         ![w] = IF seen[w] # known[w] THEN "changed" ELSE "unchanged"]
        /\ Goto(w, IF MustIngest(w) THEN "ingest" ELSE "result")
        /\ UNCHANGED faults
     \/ /\ (~Owns(w) /\ UNCHANGED faults) \/ Fault
        /\ Report(w, "lost")
        /\ UNCHANGED stored
  /\ UNCHANGED <<world, site, crawl, columns, library, known, pending, seen>>

-----------------------------------------------------------------------------
(* Ingestion                                                               *)

MarkSuccess(w) ==
  /\ status' = "success"
  /\ ingested' = seen[w]
  /\ attempt' = 0
  /\ ilease' = Nobody

\* What begin_ingestion does under the lease.
Enter(w) ==
  \/ /\ HasDocument(seen[w])
     /\ ~isAnnouncement
     /\ MarkSuccess(w)
     /\ Goto(w, "result")
     /\ UNCHANGED listing
  \/ /\ HasDocument(seen[w])
     /\ isAnnouncement
     /\ status \in Ingested /\ ingested = seen[w] /\ listing \in Terminal
     /\ Goto(w, "result")
     /\ UNCHANGED columns
  \/ /\ HasDocument(seen[w]) => /\ isAnnouncement
                                /\ \/ status \notin Ingested
                                   \/ ingested # seen[w]
                                   \/ listing \notin Terminal
     /\ attempt' = seen[w]
     /\ status' = "pending"
     /\ listing' = IF isAnnouncement THEN "pending" ELSE listing
     /\ ilease' = w
     /\ Goto(w, "begun")
     /\ UNCHANGED ingested

\* The renewal before the ingestion and begin_ingestion.  An empty page is
\* skipped before anything is written.
Begin(w) ==
  /\ at[w] = "ingest"
  /\ \/ /\ Owns(w) /\ seen[w] \notin Blanks
        /\ Enter(w)
        /\ UNCHANGED outcome
     \/ /\ Owns(w) /\ seen[w] \in Blanks
        /\ Goto(w, "result")
        /\ UNCHANGED <<columns, outcome>>
     \/ /\ ~Owns(w)
        /\ Report(w, "failed")
        /\ UNCHANGED columns
  /\ UNCHANGED <<world, site, faults, stored, crawl, library, known, pending, seen>>

\* Mutant: the fences of save_idempotent are gone.
MaySaveUnfenced(w) == TRUE

MaySave(w) == Holds(w)

\* Mutant: the document that was there first stays current.
CurrentFirst(v) == IF docs = {} THEN v ELSE current

CurrentAfter(v) == IF v \in docs THEN current ELSE v

\* save_idempotent: a version that has a document is left as it is.
Save(w) ==
  /\ at[w] = "begun"
  /\ \/ /\ MaySave(w)
        /\ docs' = docs \cup {seen[w]}
        /\ current' = CurrentAfter(seen[w])
        /\ Goto(w, "saved")
     \/ ~MaySave(w) /\ Goto(w, "failing") /\ UNCHANGED library
  /\ UNCHANGED <<world, site, faults, stored, crawl, columns, known, pending, seen, outcome>>

IsNotice(v) == v \in Notices

\* complete_ingestion: the lease and the attempt of an announcement page are
\* kept for its announcements.  There is nothing to store, and the crawl is a
\* success, when the version that was fetched is no notice.
CompleteIngestion(w) ==
  /\ at[w] = "saved"
  /\ \/ /\ Holds(w)
        /\ \/ /\ isAnnouncement
              /\ status' = "success"
              /\ ingested' = seen[w]
              /\ listing' = IF listing = "not_applicable" THEN "pending" ELSE listing
              /\ UNCHANGED <<attempt, ilease>>
           \/ ~isAnnouncement /\ MarkSuccess(w) /\ UNCHANGED listing
        /\ Goto(w, IF IsNotice(seen[w]) THEN "completed" ELSE "result")
     \/ ~Holds(w) /\ Goto(w, "failing") /\ UNCHANGED columns
  /\ UNCHANGED <<world, site, faults, stored, crawl, library, known, pending, seen, outcome>>

\* IncrementalAnnouncementAdapter.persist_page: all items stored, some of
\* them without a date, or a failure of one of them, for which it is enough
\* that the lease is gone.  Without a source nothing is stored.
PersistAnnouncements(w) ==
  /\ at[w] = "completed"
  /\ \/ /\ allowlisted
        /\ Goto(w, "dated") \/ Goto(w, "undated")
        /\ UNCHANGED faults
     \/ /\ allowlisted
        /\ Goto(w, "partial")
        /\ (~Holds(w) /\ UNCHANGED faults) \/ Fault
     \/ ~allowlisted /\ Goto(w, "failing") /\ UNCHANGED faults
  /\ UNCHANGED <<world, site, stored, crawl, columns, library, known, pending, seen, outcome>>

\* complete_announcement_ingestion.
CompleteAnnouncement(w) ==
  /\ at[w] \in {"dated", "undated"}
  /\ \/ /\ Holds(w)
        /\ listing' = IF at[w] = "dated" THEN "success" ELSE "incomplete"
        /\ status' = IF at[w] = "dated" THEN "success" ELSE "partial"
        /\ attempt' = 0
        /\ ilease' = Nobody
        /\ Goto(w, "result")
        /\ UNCHANGED ingested
     \/ ~Holds(w) /\ Goto(w, "failing") /\ UNCHANGED columns
  /\ UNCHANGED <<world, site, faults, stored, crawl, library, known, pending, seen, outcome>>

\* fail_announcement_ingestion: the page is to be crawled again.
FailAnnouncement(w) ==
  /\ at[w] = "partial"
  /\ \/ /\ Holds(w)
        /\ status' = "partial"
        /\ listing' = "failed"
        /\ ilease' = Nobody
        /\ Report(w, "failed")
        /\ UNCHANGED <<ingested, attempt>>
     \/ ~Holds(w) /\ Goto(w, "failing") /\ UNCHANGED <<columns, outcome>>
  /\ UNCHANGED <<world, site, faults, stored, crawl, library, known, pending, seen>>

\* Mutant: the failure is written without the leases.
MayFailUnfenced(w) == TRUE

MayFail(w) == Holds(w)

\* The except clause of ingest_page: fail_ingestion, whose own error is
\* dropped (a fault, unless it is the lease that is lost).
FailIngestion(w) ==
  /\ at[w] = "failing"
  /\ \/ /\ MayFail(w)
        /\ status' = "failed"
        /\ attempt' = seen[w]
        /\ ilease' = Nobody
        /\ UNCHANGED <<faults, ingested, listing>>
     \/ ~MayFail(w) /\ UNCHANGED <<faults, columns>>
     \/ Fault /\ UNCHANGED columns
  /\ Report(w, "failed")
  /\ UNCHANGED <<world, site, stored, crawl, library, known, pending, seen>>

\* An error of HTTP, of the embedding provider or of the database; a
\* transaction may have been committed before its error is reported.
Raise(w) ==
  /\ Fault
  /\ \/ at[w] \in Ingesting /\ Goto(w, "failing") /\ UNCHANGED outcome
     \/ at[w] \in Crawling /\ Report(w, "failed")
  /\ UNCHANGED <<world, site, stored, crawl, columns, library, known, pending, seen>>

-----------------------------------------------------------------------------
(* The end of a claim, and everybody else                                  *)

Forget(w) ==
  /\ Goto(w, "idle")
  /\ known' = [known EXCEPT ![w] = 0]
  /\ pending' = [pending EXCEPT ![w] = FALSE]
  /\ seen' = [seen EXCEPT ![w] = 0]
  /\ outcome' = [outcome EXCEPT ![w] = "none"]

\* complete or fail: under the lease, which is cleared.
Settle(w) ==
  /\ at[w] = "result"
  /\ lease' = IF Owns(w) THEN Nobody ELSE lease
  /\ live' = IF Owns(w) THEN FALSE ELSE live
  /\ Forget(w)
  /\ UNCHANGED <<world, site, faults, stored, columns, library>>

Crash(w) ==
  /\ at[w] # "idle"
  /\ Fault
  /\ Forget(w)
  /\ UNCHANGED <<world, site, stored, crawl, columns, library>>

\* The lease runs out: of a worker that is gone, or (a fault) of a slow one.
Expire ==
  /\ live
  /\ (at[lease] = "idle" /\ UNCHANGED faults) \/ (at[lease] # "idle" /\ Fault)
  /\ live' = FALSE
  /\ UNCHANGED <<world, site, stored, lease, columns, library, memory>>

\* A chat request stores a version it fetched, by now perhaps an older one,
\* and classifies the page if nobody did.
LiveStore ==
  /\ liveSearch
  /\ \E v \in 1..site : stored' = v
  /\ isAnnouncement' \in {isAnnouncement, TRUE}
  /\ UNCHANGED <<setting, site, faults, crawl, columns, library, memory>>

\* The crawl of another page finds this one in a list of announcements.
Reclassify ==
  /\ ~isAnnouncement
  /\ isAnnouncement' = TRUE
  /\ UNCHANGED <<setting, site, faults, stored, crawl, columns, library, memory>>

Edit ==
  /\ site' \in IF Reverts THEN Versions \ {site} ELSE Versions \cap {site + 1}
  /\ UNCHANGED <<world, faults, stored, crawl, columns, library, memory>>

-----------------------------------------------------------------------------

\* A page that was discovered, or imported with its document by
\* import_existing_urls.
Init ==
  /\ isAnnouncement \in BOOLEAN
  /\ allowlisted \in BOOLEAN
  /\ liveSearch \in BOOLEAN
  /\ site = 1
  /\ faults = 0
  /\ stored \in {0, 1} \ Blanks
  /\ lease = Nobody
  /\ live = FALSE
  /\ status = "pending"
  /\ ingested = 0
  /\ attempt = 0
  /\ listing = "not_applicable"
  /\ ilease = Nobody
  /\ docs = {stored} \ {0}
  /\ current = stored
  /\ at = [w \in Workers |-> "idle"]
  /\ known = [w \in Workers |-> 0]
  /\ pending = [w \in Workers |-> FALSE]
  /\ seen = [w \in Workers |-> 0]
  /\ outcome = [w \in Workers |-> "none"]

Work(w) ==
  \/ Check(w)
  \/ Fetch(w)
  \/ Persist(w)
  \/ Begin(w)
  \/ Save(w)
  \/ CompleteIngestion(w)
  \/ PersistAnnouncements(w)
  \/ CompleteAnnouncement(w)
  \/ FailAnnouncement(w)
  \/ FailIngestion(w)
  \/ Settle(w)

Next ==
  \/ \E w \in Workers : Claim(w) \/ Work(w) \/ Raise(w) \/ Crash(w)
  \/ Expire
  \/ LiveStore
  \/ Reclassify
  \/ Edit

Spec == Init /\ [][Next]_vars

\* Workers keep claiming what is due and every step of a crawl returns or
\* raises; the lease of a dead worker runs out.  Faults, edits and chat
\* requests are owed to nobody.
Fairness ==
  /\ WF_vars(\E w \in Workers : Claim(w))
  /\ \A w \in Workers : WF_vars(Work(w))
  /\ WF_vars(Expire)

FairSpec == Spec /\ Fairness

-----------------------------------------------------------------------------
(* Properties                                                              *)

\* Types of the variables; there is a current document as soon as there is
\* a document.
TypeOK ==
  /\ {isAnnouncement, allowlisted, liveSearch} \subseteq BOOLEAN
  /\ site \in Versions
  /\ faults \in Nat
  /\ stored \in 0..MaxVersion
  /\ lease \in Workers \cup {Nobody}
  /\ live \in BOOLEAN
  /\ status \in {"pending", "success", "partial", "failed"}
  /\ ingested \in 0..MaxVersion
  /\ attempt \in 0..MaxVersion
  /\ listing \in {"not_applicable", "pending", "failed"} \cup Terminal
  /\ ilease \in Tokens
  /\ docs \subseteq Versions
  /\ current \in 0..MaxVersion
  /\ at \in [Workers -> Places]
  /\ known \in [Workers -> 0..MaxVersion]
  /\ pending \in [Workers -> BOOLEAN]
  /\ seen \in [Workers -> 0..MaxVersion]
  /\ outcome \in [Workers -> {"none", "changed", "unchanged", "lost", "failed"}]
  /\ live => lease # Nobody
  /\ current \in docs \/ (current = 0 /\ docs = {})

\* The current document of a page and the version it is recorded as ingested
\* in move only to the version in the page row: a worker that stalled while
\* it was embedding does not put an old text in front of the users.  (Not
\* when chat requests write the row, which take no lease.)
VersionsFollowRow ==
  [][~liveSearch => /\ current' # current => current' = stored
                    /\ ingested' # ingested => ingested' = stored]_vars

\* A crawl that is recorded as successful leaves the version it reports
\* searchable: a crash between storing a page and ingesting it, or an
\* announcement that failed, is made good before a 304 or an unchanged page
\* closes the next crawl.  The row of an announcement page is recorded with
\* that version, and its announcements are settled when the version is a
\* notice; they are not when the version is none, which leaves them pending
\* and the page to be ingested again.  A page that became an announcement
\* page during the crawl, so that its listing was not begun, is left to the
\* next one.
SuccessIsIngested ==
  [][\A w \in Workers :
       /\ Owns(w)
       /\ lease' = Nobody
       /\ outcome[w] \in {"changed", "unchanged"}
       /\ seen[w] \notin Blanks
       => /\ seen[w] \in docs
          /\ status \in Ingested
          /\ isAnnouncement /\ listing # "not_applicable"
               => /\ ingested = seen[w]
                  /\ seen[w] \in Notices => listing \in Terminal]_vars

\* The current document of a page that is recorded as ingested is the version
\* it is recorded for (a new version is made when the content of a URL
\* changes, docs/implementation-plan.md).
CurrentIsIngested ==
  status \in Ingested => current = ingested

\* When the page stops changing and the faults stop, what the site serves is
\* eventually, and for ever, the current document and the version recorded as
\* ingested.  The row says so too, for ever, and the announcements are
\* settled, except for an announcement page that serves no notice, or has no
\* source configured: that one is ingested again at every crawl.
EventuallyCurrent ==
  <>[](site \notin Blanks =>
       /\ current = site
       /\ ingested = site
       /\ ~isAnnouncement \/ (site \in Notices /\ allowlisted) => status \in Ingested
       /\ isAnnouncement /\ site \in Notices /\ allowlisted => listing \in Terminal)

=============================================================================
