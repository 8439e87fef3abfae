---------------------------- MODULE SourceRefresh ----------------------------
(***************************************************************************)
(* The refresh of one announcement source: every API process checks, under *)
(* a lock of its own, whether the source is due, takes an advisory lock in *)
(* PostgreSQL for the time of the HTTP crawl and commits the listing with  *)
(* the time the crawl began (crawlers/refresh.py, crawlers/service.py and  *)
(* SqlAnnouncementRepository in db/repositories.py).  The command line and *)
(* an administrator crawl without the check; chat requests clear the       *)
(* watermark to make the source due; page crawls raise it.                 *)
(*                                                                         *)
(* Times start at 1 and 0 is NULL, or never.  A listing is the number of   *)
(* its version on the web site.                                            *)
(***************************************************************************)
EXTENDS Integers

CONSTANTS
  Processes,        \* processes that crawl the source
  Manual,           \* those that also crawl on command, without the check
  Nobody,
  Interval,         \* crawl_interval_minutes
  MaxNow,           \* bound on the clock
  MaxVersion,       \* bound on the versions of the listing
  Budgets           \* bounds on the events that are owed to nobody

\* Failed requests and transactions and crashes; lost connections of a lock;
\* due signals; marks by page crawls.
Events == {"faults", "drops", "signals", "marks"}

ASSUME ConstantsAssumption ==
  /\ Manual \subseteq Processes
  /\ Nobody \notin Processes
  /\ Interval \in Nat \ {0}
  /\ MaxNow \in Nat \ {0}
  /\ MaxVersion \in Nat \ {0}
  /\ Budgets \subseteq [Events -> Nat]

VARIABLES
  now,
  site,         \* version of the listing on the web site
  watermark,    \* Source.last_successful_crawl_at
  snapshot,     \* version of the listing in Source.canonical_urls
  takenAt,      \* when the crawl of that snapshot began
  locker,       \* the process whose connection holds the advisory lock
  at,           \* where a process is, or what its last call returned
  checkedAt,    \* checked_at of ensure_fresh
  startedAt,    \* crawl_started_at
  seen,         \* version of the listing it fetched
  lastSuccess,  \* _last_success of its coordinator
  signalledAt,  \* time of the last due signal
  spent         \* events so far

source  == <<watermark, snapshot, takenAt>>
memory  == <<at, checkedAt, startedAt, seen, lastSuccess>>
vars    == <<now, site, source, locker, memory, signalledAt, spent>>

Never == 0

Crawling == {"fetch", "whole", "partial", "stored", "merged", "error"}
Resting  == {"idle", "fresh", "refreshed"}
Places   == Resting \cup {"due", "try"} \cup Crawling

Goto(p, next) == at' = [at EXCEPT ![p] = next]

\* The call of ensure_fresh or of the crawler is over.
End(p, answer) ==
  /\ Goto(p, answer)
  /\ checkedAt' = [checkedAt EXCEPT ![p] = Never]
  /\ startedAt' = [startedAt EXCEPT ![p] = Never]
  /\ seen' = [seen EXCEPT ![p] = 0]

\* The events of a behaviour are within one of the budgets.
Spend(what) ==
  /\ spent' = [spent EXCEPT ![what] = @ + 1]
  /\ \E budget \in Budgets : \A e \in Events : spent'[e] <= budget[e]

Fault == Spend("faults")

-----------------------------------------------------------------------------
(* ensure_fresh                                                            *)

\* _is_due: the row and the memory of the process, whichever is later.
Due(p) == \A t \in {watermark, lastSuccess[p]} : t = Never \/ now - t >= Interval

\* A source that is not due is reported as fresh.
Fresh(p) == ~Due(p) /\ End(p, "fresh")

Check(p) ==
  /\ at[p] \in Resting
  /\ \/ /\ Due(p)
        /\ checkedAt' = [checkedAt EXCEPT ![p] = now]
        /\ Goto(p, "due")
        /\ UNCHANGED <<startedAt, seen>>
     \/ Fresh(p)
  /\ UNCHANGED <<now, site, source, locker, lastSuccess, signalledAt, spent>>

\* The second check, in a transaction before the lock is tried.
Recheck(p) ==
  /\ at[p] = "due"
  /\ \/ Due(p) /\ Goto(p, "try") /\ UNCHANGED <<checkedAt, startedAt, seen>>
     \/ Fresh(p)
  /\ UNCHANGED <<now, site, source, locker, lastSuccess, signalledAt, spent>>

\* CrawlerService.run from the command line or the administrator's endpoint.
Command(p) ==
  /\ p \in Manual
  /\ at[p] \in Resting
  /\ Goto(p, "try")
  /\ UNCHANGED <<now, site, source, locker, checkedAt, startedAt, seen,
                 lastSuccess, signalledAt, spent>>

\* try_acquire_source_refresh_lease, and the crawl begins; or the source is
\* being crawled by another process.
Acquire(p) ==
  /\ at[p] = "try"
  /\ \/ /\ locker = Nobody
        /\ locker' = p
        /\ startedAt' = [startedAt EXCEPT ![p] = now]
        /\ Goto(p, "fetch")
        /\ UNCHANGED <<checkedAt, seen>>
     \/ locker # Nobody /\ End(p, "idle") /\ UNCHANGED locker
  /\ UNCHANGED <<now, site, source, lastSuccess, signalledAt, spent>>

-----------------------------------------------------------------------------
(* The crawl                                                               *)

\* The listing and its details: all of them, or all but some details.
Fetch(p) ==
  /\ at[p] = "fetch"
  /\ seen' = [seen EXCEPT ![p] = site]
  /\ \/ Goto(p, "whole") /\ UNCHANGED spent
     \/ Goto(p, "partial") /\ Fault
  /\ UNCHANGED <<now, site, source, locker, checkedAt, startedAt, lastSuccess,
                 signalledAt>>

\* Mutant: the watermark of a newer snapshot is not respected.
SupersededNever(p) == FALSE

Superseded(p) == watermark # Never /\ watermark > startedAt[p]

\* commit_source_refresh: one transaction, which does nothing, and says so
\* to nobody, when a later watermark is in the row.
Commit(p) ==
  /\ at[p] = "whole"
  /\ \/ /\ ~Superseded(p)
        /\ watermark' = startedAt[p]
        /\ snapshot' = seen[p]
        /\ takenAt' = startedAt[p]
     \/ Superseded(p) /\ UNCHANGED source
  /\ Goto(p, "stored")
  /\ UNCHANGED <<now, site, locker, checkedAt, startedAt, seen, lastSuccess,
                 signalledAt, spent>>

\* Mutant: a partial listing advances the watermark.
MergedMarkAdvances(p) == startedAt[p]

MergedMark(p) == watermark

\* merge_source_announcements of a listing some details of which failed: the
\* announcements only.
Merge(p) ==
  /\ at[p] = "partial"
  /\ watermark' = MergedMark(p)
  /\ Goto(p, "merged")
  /\ UNCHANGED <<now, site, snapshot, takenAt, locker, checkedAt, startedAt,
                 seen, lastSuccess, signalledAt, spent>>

\* A request, the parser or a transaction fails; nothing is committed.
Raise(p) ==
  /\ at[p] \in {"fetch", "whole", "partial"}
  /\ Fault
  /\ Goto(p, "error")
  /\ UNCHANGED <<now, site, source, locker, checkedAt, startedAt, seen,
                 lastSuccess, signalledAt>>

\* Mutant: a partial crawl is a success.
SucceededPartly(p) == at[p] \in {"stored", "merged"}

Succeeded(p) == at[p] = "stored"

\* Mutant: after an error the lock is kept.
UnlockedUnlessError(p) == IF locker = p /\ at[p] # "error" THEN Nobody ELSE locker

\* Unlocked by the connection that holds the lock, if it still does.
Unlocked(p) == IF locker = p THEN Nobody ELSE locker

\* The lease ends, after an error too, and ensure_fresh returns, or the crawl
\* on command, which its process does not remember.
Return(p) ==
  /\ at[p] \in {"stored", "merged", "error"}
  /\ locker' = Unlocked(p)
  /\ \/ /\ Succeeded(p)
        /\ End(p, "refreshed")
        /\ lastSuccess' = [lastSuccess EXCEPT
                             ![p] = IF checkedAt[p] = Never THEN @ ELSE checkedAt[p]]
     \/ ~Succeeded(p) /\ End(p, "idle") /\ UNCHANGED lastSuccess
  /\ UNCHANGED <<now, site, source, signalledAt, spent>>

\* The process dies: its connection closes, its memory is lost.
Crash(p) ==
  /\ Fault
  /\ locker' = Unlocked(p)
  /\ End(p, "idle")
  /\ lastSuccess' = [lastSuccess EXCEPT ![p] = Never]
  /\ UNCHANGED <<now, site, source, signalledAt>>

\* The server drops the idle connection that holds the lock; the crawl goes
\* on without noticing.
Drop(p) ==
  /\ at[p] \in Crawling
  /\ locker = p
  /\ Spend("drops")
  /\ locker' = Nobody
  /\ UNCHANGED <<now, site, source, memory, signalledAt>>

-----------------------------------------------------------------------------
(* Everybody else                                                          *)

\* Mutant: the signal does not try the lock of the crawl.
MaySignalAlways == TRUE

MaySignal == locker = Nobody

\* schedule_announcement_sources.
Signal ==
  /\ MaySignal
  /\ Spend("signals")
  /\ watermark' = Never
  /\ signalledAt' = now
  /\ UNCHANGED <<now, site, snapshot, takenAt, locker, memory>>

\* mark_incremental_source_success: a page of the source was crawled, some
\* time ago, and all its announcements were stored.
MarkIncremental ==
  /\ Spend("marks")
  /\ \E t \in 1..now : watermark < t /\ watermark' = t
  /\ UNCHANGED <<now, site, snapshot, takenAt, locker, memory, signalledAt>>

Publish ==
  /\ site < MaxVersion
  /\ site' = site + 1
  /\ UNCHANGED <<now, source, locker, memory, signalledAt, spent>>

Tick ==
  /\ now < MaxNow
  /\ now' = now + 1
  /\ UNCHANGED <<site, source, locker, memory, signalledAt, spent>>

-----------------------------------------------------------------------------

Init ==
  /\ now = 1
  /\ site = 1
  /\ watermark = Never
  /\ snapshot = 0
  /\ takenAt = Never
  /\ locker = Nobody
  /\ at = [p \in Processes |-> "idle"]
  /\ checkedAt = [p \in Processes |-> Never]
  /\ startedAt = [p \in Processes |-> Never]
  /\ seen = [p \in Processes |-> 0]
  /\ lastSuccess = [p \in Processes |-> Never]
  /\ signalledAt = Never
  /\ spent = [e \in Events |-> 0]

Refresh(p) ==
  \/ Check(p)
  \/ Recheck(p)
  \/ Acquire(p)
  \/ Fetch(p)
  \/ Commit(p)
  \/ Merge(p)
  \/ Return(p)

Next ==
  \/ \E p \in Processes : Refresh(p) \/ Command(p) \/ Raise(p) \/ Crash(p) \/ Drop(p)
  \/ Signal
  \/ MarkIncremental
  \/ Publish
  \/ Tick

Spec == Init /\ [][Next]_vars

\* The scheduler of every process calls ensure_fresh again and again, and a
\* crawl that has begun returns or raises.  Commands, faults, signals and
\* page crawls are owed to nobody.
FairSpec == Spec /\ \A p \in Processes : WF_vars(Refresh(p))

-----------------------------------------------------------------------------
(* Properties                                                              *)

\* Types of the variables; the time of a snapshot is known exactly when
\* there is one, and the lock belongs to a process that is crawling.
TypeOK ==
  /\ now \in Nat \ {0}
  /\ site \in Nat
  /\ watermark \in 0..now
  /\ snapshot \in 0..site
  /\ takenAt \in 0..now
  /\ locker \in Processes \cup {Nobody}
  /\ at \in [Processes -> Places]
  /\ checkedAt \in [Processes -> 0..now]
  /\ startedAt \in [Processes -> 0..now]
  /\ seen \in [Processes -> 0..site]
  /\ lastSuccess \in [Processes -> 0..now]
  /\ signalledAt \in 0..now
  /\ spent \in [Events -> Nat]
  /\ snapshot = 0 <=> takenAt = Never
  /\ locker # Nobody => at[locker] \in Crawling

\* No due signal met a crawl that had lost its lock: a signal clears the
\* watermark, and such a crawl is then not recognised as late.
InOrder == spent["drops"] = 0 \/ spent["signals"] = 0

\* A snapshot is never replaced by that of a crawl that began earlier, also
\* when the crawl lost its lock on the way (the watermark is the time a
\* crawl began, and is tested when it is committed).
SnapshotNeverRegresses == [][InOrder => takenAt' >= takenAt]_vars

\* A due signal is answered by the snapshot of a crawl that began after it:
\* a crawl that was under way does not count, whatever the order in which
\* the crawl and the signal reach the row.  (A crawl without its lock, or the
\* mark of a page crawl, may answer it too.)
SignalIsAnswered ==
  [][/\ watermark = Never /\ watermark' # Never
     /\ spent'["drops"] = 0 /\ spent'["marks"] = 0
     => takenAt' = watermark' /\ takenAt' >= signalledAt]_vars

\* When ensure_fresh answers that a source is fresh, without a crawl, its
\* snapshot is younger than the interval of the source; unless a page crawl
\* moved the watermark, or the snapshot went back (InOrder).
FreshIsYoung ==
  [][spent["marks"] = 0 /\ InOrder => \A p \in Processes :
       at'[p] = "fresh" /\ at[p] # "fresh"
         => takenAt # Never /\ now - takenAt < Interval]_vars

\* When ensure_fresh answers that it refreshed a source, the row has the
\* snapshot of its crawl or of one that began later; unless a page crawl
\* moved the watermark, past which the crawl is dropped as superseded, or the
\* snapshot went back (InOrder).
RefreshedIsStored ==
  [][spent["marks"] = 0 /\ InOrder => \A p \in Processes :
       at'[p] = "refreshed" /\ at[p] # "refreshed"
         => takenAt >= startedAt[p]]_vars

\* A source that is due for a process is crawled: a crawl that fails, or is
\* cut short, never keeps the others from it for ever.
DueIsRefreshed ==
  \A p \in Processes : Due(p) ~> ~Due(p)

=============================================================================
