------------------------------ MODULE HostClaim ------------------------------
(***************************************************************************)
(* claim_due when several workers run it at once.  The claim is one        *)
(* UPDATE ... FROM (SELECT ... FOR UPDATE SKIP LOCKED) statement under     *)
(* READ COMMITTED, which is not one step: it ranks the due pages of every  *)
(* host in the snapshot it starts from, locks the pages it selected except *)
(* those another transaction has locked, and then updates them, checking   *)
(* the lease and the due time of each row again (db/crawl_scheduler.py).   *)
(* What a claim does to a page afterwards is module CrawlLease.            *)
(***************************************************************************)
EXTENDS Integers, FiniteSets

CONSTANTS
  Pages, Workers, Hosts,
  HostOf,         \* [Pages -> Hosts]
  Rank,           \* [Pages -> Nat], the order of claims on one host
  NoWorker,
  ActiveCap,      \* per_host_active_cap
  DueCap,         \* per_host_due_cap
  LeaseDuration,
  MaxNow,         \* bound on the clock
  MaxClaims       \* bound on the claims of one worker

ASSUME ConstantsAssumption ==
  /\ HostOf \in [Pages -> Hosts]
  /\ Rank \in [Pages -> Nat]
  /\ NoWorker \notin Workers
  /\ ActiveCap \in Nat \ {0}
  /\ DueCap \in Nat \ {0}
  /\ LeaseDuration \in Nat \ {0}
  /\ MaxNow \in Nat
  /\ MaxClaims \in Nat

VARIABLES
  now,
  dueAt,     \* next_crawl_at
  owner,     \* crawl_lease_owner, NoWorker for NULL
  expires,   \* crawl_lease_expires_at
  lockedBy,  \* the transaction that holds the row lock, NoWorker for none
  step,      \* where the claim statement of a worker is
  readAt,    \* checked_at of that statement
  chosen,    \* the pages it ranked high enough, then those it locked
  claims     \* claim statements a worker has run

rows == <<dueAt, owner, expires>>
txn  == <<step, readAt, chosen, claims>>
vars == <<now, rows, lockedBy, txn>>

Live(p, t) == owner[p] # NoWorker /\ expires[p] > t

Busy(p, t) == {q \in Pages : HostOf[q] = HostOf[p] /\ q # p /\ Live(q, t)}

Candidates(urls, t) ==
  {p \in urls : /\ dueAt[p] <= t
                /\ ~Live(p, t)
                /\ Cardinality(Busy(p, t)) < ActiveCap}

Slots(p, t) == LET free == ActiveCap - Cardinality(Busy(p, t))
               IN  IF free < DueCap THEN free ELSE DueCap

\* The CTE of claim_due: every host contributes its best due pages.
Due(urls, t) ==
  LET C == Candidates(urls, t)
      Ahead(p) == {q \in C : HostOf[q] = HostOf[p] /\ Rank[q] < Rank[p]}
  IN  {p \in C : Cardinality(Ahead(p)) < Slots(p, t)}

\* The statement starts: its snapshot is the committed rows of this moment.
Select(w) ==
  /\ step[w] = "idle"
  /\ claims[w] < MaxClaims
  /\ \E urls \in SUBSET Pages :
       /\ Due(urls, now) # {}
       /\ chosen' = [chosen EXCEPT ![w] = Due(urls, now)]
  /\ readAt' = [readAt EXCEPT ![w] = now]
  /\ claims' = [claims EXCEPT ![w] = @ + 1]
  /\ step' = [step EXCEPT ![w] = "selected"]
  /\ UNCHANGED <<now, rows, lockedBy>>

\* FOR UPDATE SKIP LOCKED.
Lock(w) ==
  /\ step[w] = "selected"
  /\ LET free == {p \in chosen[w] : lockedBy[p] = NoWorker} IN
       /\ chosen' = [chosen EXCEPT ![w] = free]
       /\ lockedBy' = [p \in Pages |-> IF p \in free THEN w ELSE lockedBy[p]]
  /\ step' = [step EXCEPT ![w] = "locked"]
  /\ UNCHANGED <<now, rows, readAt, claims>>

\* Mutant: the lease is not tested again.
StillDueByTime(p, t) == dueAt[p] <= t

\* Mutant: the due time is not tested again.
StillDueByLease(p, t) == ~Live(p, t)

\* The WHERE of the UPDATE, on the rows as they are now.
StillDue(p, t) == ~Live(p, t) /\ dueAt[p] <= t

\* The UPDATE and the commit, which makes the leases visible and drops the
\* row locks.
Update(w) ==
  /\ step[w] = "locked"
  /\ LET won == {p \in chosen[w] : StillDue(p, readAt[w])} IN
       /\ owner' = [p \in Pages |-> IF p \in won THEN w ELSE owner[p]]
       /\ expires' = [p \in Pages |-> IF p \in won
                                      THEN readAt[w] + LeaseDuration
                                      ELSE expires[p]]
  /\ lockedBy' = [p \in Pages |-> IF lockedBy[p] = w THEN NoWorker ELSE lockedBy[p]]
  /\ chosen' = [chosen EXCEPT ![w] = {}]
  /\ step' = [step EXCEPT ![w] = "idle"]
  /\ UNCHANGED <<now, dueAt, readAt, claims>>

\* The transaction fails (a dropped connection, a killed process).
Rollback(w) ==
  /\ step[w] # "idle"
  /\ lockedBy' = [p \in Pages |-> IF lockedBy[p] = w THEN NoWorker ELSE lockedBy[p]]
  /\ chosen' = [chosen EXCEPT ![w] = {}]
  /\ step' = [step EXCEPT ![w] = "idle"]
  /\ UNCHANGED <<now, rows, readAt, claims>>

\* The crawl of a page ends (complete, fail): the lease is cleared and the
\* page is due again later, here at the next tick.  It needs the row lock.
Finish(p) ==
  /\ Live(p, now)
  /\ lockedBy[p] = NoWorker
  /\ owner' = [owner EXCEPT ![p] = NoWorker]
  /\ expires' = [expires EXCEPT ![p] = 0]
  /\ dueAt' = [dueAt EXCEPT ![p] = now + 1]
  /\ UNCHANGED <<now, lockedBy, txn>>

Tick ==
  /\ now < MaxNow
  /\ now' = now + 1
  /\ UNCHANGED <<rows, lockedBy, txn>>

Init ==
  /\ now = 0
  /\ dueAt \in [Pages -> 0..1]
  /\ owner = [p \in Pages |-> NoWorker]
  /\ expires = [p \in Pages |-> 0]
  /\ lockedBy = [p \in Pages |-> NoWorker]
  /\ step = [w \in Workers |-> "idle"]
  /\ readAt = [w \in Workers |-> 0]
  /\ chosen = [w \in Workers |-> {}]
  /\ claims = [w \in Workers |-> 0]

Next ==
  \/ \E w \in Workers : Select(w) \/ Lock(w) \/ Update(w) \/ Rollback(w)
  \/ \E p \in Pages : Finish(p)
  \/ Tick

Spec == Init /\ [][Next]_vars

-----------------------------------------------------------------------------
(* Properties                                                              *)

\* Types of the variables; the columns of a lease are set and cleared
\* together, and a row lock belongs to a transaction that chose the page.
TypeOK ==
  /\ now \in Nat
  /\ dueAt \in [Pages -> Nat]
  /\ owner \in [Pages -> Workers \cup {NoWorker}]
  /\ expires \in [Pages -> Nat]
  /\ lockedBy \in [Pages -> Workers \cup {NoWorker}]
  /\ step \in [Workers -> {"idle", "selected", "locked"}]
  /\ readAt \in [Workers -> Nat]
  /\ chosen \in [Workers -> SUBSET Pages]
  /\ claims \in [Workers -> Nat]
  /\ \A p \in Pages : owner[p] = NoWorker <=> expires[p] = 0
  /\ \A p \in Pages : lockedBy[p] # NoWorker
                        => /\ step[lockedBy[p]] = "locked"
                           /\ p \in chosen[lockedBy[p]]

\* Two claims never both get a page: a lease that is live is not replaced,
\* whichever snapshot the other claim was ranked in (the WHERE of the UPDATE
\* tests the lease again after the lock is granted).
LiveLeaseNotStolen ==
  [][\A p \in Pages :
       Live(p, now) /\ (owner'[p] # owner[p] \/ expires'[p] # expires[p])
         => owner'[p] = NoWorker]_vars

\* A page that was crawled is not crawled again before it is due: a claim
\* ranked before the crawl ended does not take the page once more.
OnlyDueIsClaimed ==
  [][\A p \in Pages :
       owner'[p] # NoWorker /\ (owner'[p] # owner[p] \/ expires'[p] # expires[p])
         => dueAt[p] <= now]_vars

=============================================================================
