---------------------------- MODULE SearchFlight ----------------------------
(***************************************************************************)
(* Searches of the live site for one and the same question.  The result is *)
(* kept for Ttl in a cache of each process (L1) and in a table (L2), and a *)
(* PostgreSQL advisory lock lets one search run at a time; the others wait *)
(* for its result until their own deadline (search of                      *)
(* crawlers/site_search.py, and crawlers/site_search_cache.py).  Of a      *)
(* result only the time it was made and whether the search was complete    *)
(* count; what a request remembers is gone when it ends.                   *)
(***************************************************************************)
EXTENDS Integers, FiniteSets

CONSTANTS
  Seekers, Processes,
  ProcessOf,     \* [Requests -> Processes]
  NoSeeker, Absent,
  Ttl,           \* cache_ttl_seconds
  Timeout,       \* query_timeout_seconds
  MaxMoment,      \* bound on the clock
  MaxFailures    \* bound on failures of any kind

ASSUME FlightAssumption ==
  /\ ProcessOf \in [Seekers -> Processes]
  /\ NoSeeker \notin Seekers
  /\ Ttl \in Nat \ {0}
  /\ Timeout \in Nat \ {0}
  /\ MaxMoment \in Nat
  /\ MaxFailures \in Nat

VARIABLES
  moment,
  l1,         \* the result in the memory of each process, or Absent
  l2,         \* the row of the table, or Absent
  locker,     \* the request whose session holds the advisory lock
  lost,       \* the requests whose lock went away with its connection
  at, stage,  \* where a request is; "first" and "waiting" have no lock, "held" has
  deadline,
  fetched,    \* what a request read from the table
  built,      \* the result of its own search
  sharedAt,   \* history: when a result was last written to the table
  errors

caches     == <<l1, l2>>
locals     == <<at, stage, deadline, fetched, built>>
flightVars == <<moment, caches, locker, lost, locals, sharedAt, errors>>

Moments  == 0 .. MaxMoment
Row      == [made : Moments, until : Nat, whole : BOOLEAN]
L1Entry  == [made : Moments, until : Nat, whole : BOOLEAN, late : Moments]
Steps    == {"start", "l1", "l2", "copy", "acquire", "loop",
             "crawl", "finish", "store", "release", "end"}

\* NULL is not a row.
ASSUME AbsentAssumption == Absent \notin Row

Good(e)  == e # Absent /\ e.until > moment
Shorter(a, b) == IF a < b THEN a ELSE b

MoveTo(r, step) == at' = [at EXCEPT ![r] = step]

\* A request without the lock is done, one with the lock passes the finally.
Leave(r) == MoveTo(r, IF stage[r] = "held" THEN "release" ELSE "end")

Failure == /\ errors < MaxFailures
           /\ errors' = errors + 1

FlightInit ==
  /\ moment = 0
  /\ l1 = [p \in Processes |-> Absent]
  /\ l2 = Absent
  /\ locker = NoSeeker
  /\ lost = {}
  /\ at = [r \in Seekers |-> "start"]
  /\ stage = [r \in Seekers |-> "first"]
  /\ deadline = [r \in Seekers |-> 0]
  /\ fetched = [r \in Seekers |-> Absent]
  /\ built = [r \in Seekers |-> Absent]
  /\ sharedAt = Absent
  /\ errors = 0

\* new_deadline; a request whose time would outlast the clock is not made.
Start(r) ==
  /\ at[r] = "start"
  /\ moment + Timeout <= MaxMoment
  /\ deadline' = [deadline EXCEPT ![r] = moment + Timeout]
  /\ MoveTo(r, "l1")
  /\ UNCHANGED <<moment, caches, locker, lost, stage, fetched, built, sharedAt, errors>>

\* InMemorySiteSearchCache.get.
ReadL1(r) ==
  LET p == ProcessOf[r] IN
  /\ at[r] = "l1"
  /\ \/ /\ Good(l1[p])
        /\ Leave(r)
        /\ l1' = l1
     \/ /\ ~Good(l1[p])
        /\ MoveTo(r, "l2")
        /\ l1' = [l1 EXCEPT ![p] = Absent]
  /\ UNCHANGED <<moment, l2, locker, lost, fetched, built, sharedAt, errors>>

\* What follows when no layer has the result.
AfterMiss(r) == IF stage[r] = "held" THEN "crawl" ELSE "acquire"

\* PostgresSiteSearchCache.get: a failure counts as a miss.
ReadL2(r) ==
  /\ at[r] = "l2"
  /\ \/ /\ Good(l2)
        /\ fetched' = [fetched EXCEPT ![r] = [made |-> l2.made, whole |-> l2.whole,
                                      left |-> l2.until - moment, readAt |-> moment]]
        /\ MoveTo(r, "copy")
        /\ errors' = errors
     \/ /\ ~Good(l2)
        /\ MoveTo(r, AfterMiss(r))
        /\ UNCHANGED <<fetched, errors>>
     \/ /\ Failure
        /\ MoveTo(r, AfterMiss(r))
        /\ fetched' = fetched
  /\ UNCHANGED <<moment, caches, locker, lost, built, sharedAt>>

\* Mutant: a copy in memory starts a whole time to live.
KeptForWhole(left) == Ttl

\* How long a copy of a row is kept in memory.
KeptFor(left) == Shorter(Ttl, left)

\* LayeredSiteSearchCache.get copies a row into the memory of the process,
\* by the clock of the moment it gets there.
CopyToL1(r) ==
  LET e == fetched[r] IN
  /\ at[r] = "copy"
  /\ l1' = [l1 EXCEPT ![ProcessOf[r]] =
              [made |-> e.made, until |-> moment + KeptFor(e.left), whole |-> e.whole,
               late |-> moment - e.readAt]]
  /\ fetched' = [fetched EXCEPT ![r] = Absent]
  /\ Leave(r)
  /\ UNCHANGED <<moment, l2, locker, lost, built, sharedAt, errors>>

\* Mutant: the holder of the lock does not look at the cache again.
HeldNextCrawl == "crawl"

\* The holder of the lock first looks at the cache again.
HeldNext == "l1"

\* try_acquire: pg_try_advisory_lock on a session of its own.
Acquire(r) ==
  /\ at[r] = "acquire"
  /\ \/ /\ locker = NoSeeker
        /\ locker' = r
        /\ stage' = [stage EXCEPT ![r] = "held"]
        /\ MoveTo(r, HeldNext)
        /\ errors' = errors
     \/ /\ locker # NoSeeker
        /\ stage' = [stage EXCEPT ![r] = "waiting"]
        /\ MoveTo(r, "loop")
        /\ UNCHANGED <<locker, errors>>
     \/ /\ Failure
        /\ Leave(r)
        /\ UNCHANGED <<locker, stage>>
  /\ UNCHANGED <<moment, caches, lost, fetched, built, sharedAt>>

\* The head of the waiting loop, after the back-off.
Wait(r) ==
  /\ at[r] = "loop"
  /\ IF moment >= deadline[r] THEN Leave(r) ELSE MoveTo(r, "l1")
  /\ UNCHANGED <<moment, caches, locker, lost, fetched, built, sharedAt, errors>>

\* _search_uncached up to the last page (its steps are module LiveCrawl): a
\* page that could not be read leaves the result incomplete.
SearchSite(r) ==
  /\ at[r] = "crawl"
  /\ \/ /\ moment < deadline[r]
        /\ built' = [built EXCEPT ![r] = [made |-> moment, until |-> 0, whole |-> TRUE]]
        /\ errors' = errors
     \/ /\ moment < deadline[r]
        /\ Failure
        /\ built' = [built EXCEPT ![r] = [made |-> moment, until |-> 0, whole |-> FALSE]]
     \/ /\ moment >= deadline[r]
        /\ built' = [built EXCEPT ![r] = [made |-> moment, until |-> 0, whole |-> FALSE]]
        /\ errors' = errors
  /\ MoveTo(r, "finish")
  /\ UNCHANGED <<moment, caches, locker, lost, fetched, sharedAt>>

\* The result may be kept: it did not time out and no page failed.
MayStore(whole) == whole

\* The scores, the last look at the deadline, and InMemorySiteSearchCache.set;
\* the expiry of the row is computed before the table is written.
EndSearch(r) ==
  LET whole == built[r].whole /\ moment < deadline[r]
      entry == [made |-> moment, until |-> moment + Ttl, whole |-> whole]
  IN
  /\ at[r] = "finish"
  /\ IF MayStore(whole)
       THEN /\ built' = [built EXCEPT ![r] = entry]
            /\ l1' = [l1 EXCEPT ![ProcessOf[r]] =
                        [made |-> moment, until |-> moment + Ttl, whole |-> whole, late |-> 0]]
            /\ MoveTo(r, "store")
       ELSE /\ built' = [built EXCEPT ![r] = Absent]
            /\ l1' = l1
            /\ Leave(r)
  /\ UNCHANGED <<moment, l2, locker, lost, fetched, sharedAt, errors>>

\* PostgresSiteSearchCache.set: a failure is logged.
StoreL2(r) ==
  /\ at[r] = "store"
  /\ \/ /\ l2' = built[r]
        /\ sharedAt' = built[r].made
        /\ errors' = errors
     \/ /\ Failure
        /\ UNCHANGED <<l2, sharedAt>>
  /\ built' = [built EXCEPT ![r] = Absent]
  /\ Leave(r)
  /\ UNCHANGED <<moment, l1, locker, lost, fetched>>

\* Mutant: an exception leaves by a way that keeps the lock.
RaisePast(r) == MoveTo(r, "end")

\* Where an exception leaves: by the finally.
RaiseTo(r) == MoveTo(r, "release")

\* An exception of the scorer, the adapter or the site map.
Break(r) ==
  /\ at[r] \in {"crawl", "finish"}
  /\ Failure
  /\ RaiseTo(r)
  /\ built' = [built EXCEPT ![r] = Absent]
  /\ UNCHANGED <<moment, caches, locker, lost, stage, deadline, fetched, sharedAt>>

\* Mutant: the lock is released whoever holds it, as _LocalLease does.
UnlockAnyone(r) == NoSeeker

\* pg_advisory_unlock on the session of the request.
Unlock(r) == IF locker = r THEN NoSeeker ELSE locker

Release(r) ==
  /\ at[r] = "release"
  /\ locker' = Unlock(r)
  /\ MoveTo(r, "end")
  /\ UNCHANGED <<moment, caches, lost, fetched, built, sharedAt, errors>>

\* The connection of the lock is closed; the search does not notice.
LoseLock(r) ==
  /\ locker = r
  /\ Failure
  /\ locker' = NoSeeker
  /\ lost' = lost \cup {r}
  /\ UNCHANGED <<moment, caches, locals, sharedAt>>

\* What a request remembers is gone when it ends.
Remembered(f, forgotten) ==
  [r \in Seekers |-> IF at'[r] = "end" THEN forgotten ELSE f[r]]

\* A process dies with its memory, its requests and their sessions.
Crash(p) ==
  LET gone == {r \in Seekers : ProcessOf[r] = p /\ at[r] \notin {"start", "end"}} IN
  /\ gone # {}
  /\ Failure
  /\ at' = [r \in Seekers |-> IF r \in gone THEN "end" ELSE at[r]]
  /\ stage' = Remembered(stage, "first")
  /\ deadline' = Remembered(deadline, 0)
  /\ fetched' = Remembered(fetched, Absent)
  /\ built' = Remembered(built, Absent)
  /\ l1' = [l1 EXCEPT ![p] = Absent]
  /\ locker' = IF locker \in gone THEN NoSeeker ELSE locker
  /\ UNCHANGED <<moment, l2, lost, sharedAt>>

Elapse == /\ moment < MaxMoment
            /\ moment' = moment + 1
            /\ UNCHANGED <<caches, locker, lost, locals, sharedAt, errors>>

Proceed(r) ==
  /\ \/ Acquire(r)
     \/ /\ \/ ReadL1(r) \/ ReadL2(r) \/ CopyToL1(r) \/ Wait(r)
           \/ SearchSite(r) \/ EndSearch(r) \/ StoreL2(r) \/ Release(r)
        /\ stage' = Remembered(stage, "first")
  /\ deadline' = Remembered(deadline, 0)

FlightNext ==
  \/ \E r \in Seekers : Start(r) \/ Proceed(r) \/ Break(r) \/ LoseLock(r)
  \/ \E p \in Processes : Crash(p)
  \/ Elapse

FlightSpec == FlightInit /\ [][FlightNext]_flightVars

\* A thread that runs goes on (the crawl is bounded by its deadline), and time
\* passes.  Nothing makes a failure happen.
FairFlightSpec ==
  /\ FlightSpec /\ WF_flightVars(Elapse)
  /\ \A r \in Seekers : WF_flightVars(Proceed(r))

-----------------------------------------------------------------------------
FlightTypeOK ==
  /\ moment \in Moments
  /\ l1 \in [Processes -> L1Entry \cup {Absent}]
  /\ l2 \in Row \cup {Absent}
  /\ locker \in Seekers \cup {NoSeeker}
  /\ lost \subseteq Seekers
  /\ at \in [Seekers -> Steps]
  /\ stage \in [Seekers -> {"first", "waiting", "held"}]
  /\ deadline \in [Seekers -> Moments]
  /\ sharedAt \in Moments \cup {Absent}
  /\ errors \in 0 .. MaxFailures

Searching == {r \in Seekers : at[r] \in {"crawl", "finish", "store"}}

\* At most one search runs, apart from searches whose lock was lost with its
\* connection: a request that lost its lock must not free that of its successor
\* when it ends (release of crawlers/site_search_cache.py:378).
OneSearch == Cardinality(Searching \ lost) <= 1

\* A result that a cache would give to a request comes from a complete search
\* that ended less than the time to live ago: a copy in the memory of another
\* process adds only the delay between the read of the table and the copy
\* (site_search.py:327, site_search_cache.py:324).
CachedIsYoung ==
  /\ \A p \in Processes :
       Good(l1[p]) => l1[p].whole /\ moment - l1[p].made < Ttl + l1[p].late
  /\ Good(l2) => l2.whole /\ moment - l2.made < Ttl

\* As long as nothing fails, nobody searches again while a result that was
\* written to the table is still good, however the requests wait, read and take
\* the lock (site_search.py:285-337).
SearchedOnce ==
  [][\A r \in Seekers :
       at[r] # "crawl" /\ at'[r] = "crawl" /\ errors' = 0 =>
         sharedAt = Absent \/ moment >= sharedAt + Ttl]_flightVars

\* Every search ends and the lock is free again, whatever fails in it or in the
\* process that held the lock (site_search.py:294, :338).
AllLeave ==
  <>[](locker = NoSeeker /\ \A r \in Seekers : at[r] \in {"start", "end"})

=============================================================================
