------------------------------ MODULE Frontier ------------------------------
(***************************************************************************)
(* Concurrent transactions that store a fetched page and the links found   *)
(* on it, so that the pages waiting for a crawl stay under their caps      *)
(* (persist_fetched_page and what it calls in db/site_map.py).  Each locks *)
(* the row of its page, then advisory locks, global first, then the rows   *)
(* of the linked pages.  PostgreSQL ends a cycle of waits by aborting one  *)
(* of its transactions.  Leases are module CrawlLease; titles, edges and   *)
(* the other columns of a row are left out.                                *)
(***************************************************************************)
EXTENDS Integers, FiniteSets, SequencesExt, Lists

CONSTANTS
  Writers,       \* threads that store pages: crawl workers and chat requests
  Urls, UrlHosts,
  HostOfUrl,        \* [Urls -> UrlHosts]
  HostOrder,     \* the hosts in the order of their names
  Fetchable,     \* the pages that are fetched and stored
  LinksOf,       \* [Fetchable -> their links, normalized and without repeats]
  Documents,     \* urls that are not indexable
  Seeds,         \* urls that may also be discovered by name
  NoWriter,
  MaxPendingTotal, PerHostPendingCap

Global == "global"

ASSUME FrontierAssumption ==
  /\ IsFiniteSet(Urls)
  /\ HostOfUrl \in [Urls -> UrlHosts] /\ Global \notin UrlHosts
  /\ HostOrder \in Seq(UrlHosts) /\ ToSet(HostOrder) = UrlHosts /\ IsInjective(HostOrder)
  /\ Fetchable # {} /\ Fetchable \subseteq Urls \ Documents
  /\ Seeds \subseteq Urls \ Documents
  /\ LinksOf \in [Fetchable -> Seq(Urls)]
  /\ \A p \in Fetchable : IsInjective(LinksOf[p])
  /\ NoWriter \notin Writers
  /\ {MaxPendingTotal, PerHostPendingCap} \subseteq Nat \ {0}

VARIABLES
  page,      \* the committed rows: "absent", or how far a page is
  rowLock,   \* the transaction that holds, or has inserted, a row
  keyLock,   \* the transaction that holds an advisory lock
  place,     \* where a writer is
  source,    \* the page it stores
  todo,      \* advisory locks, then rows, it still needs
  kept,      \* the links it keeps
  seeded     \* history: waiting pages that were discovered by name

writer       == <<place, source, todo, kept>>
frontierVars == <<page, rowLock, keyLock, writer, seeded>>

Keys    == UrlHosts \cup {Global}
States  == {"absent", "discovered", "requeued", "fetched", "excluded"}
Pending == {"discovered", "requeued"}

FrontierInit ==
  /\ page \in [Urls -> {"absent", "fetched"}]
  /\ \A u \in Urls : page[u] = "fetched" <=> u \in Fetchable
  /\ rowLock = [u \in Urls |-> NoWriter]
  /\ keyLock = [k \in Keys |-> NoWriter]
  /\ place = [w \in Writers |-> "idle"]
  /\ source \in [Writers -> {CHOOSE p \in Fetchable : TRUE}]
  /\ todo = [w \in Writers |-> <<>>]
  /\ kept = [w \in Writers |-> {}]
  /\ seeded = {}

Go(w, p) == place' = [place EXCEPT ![w] = p]

\* The page was fetched; the transaction starts.
Begin(w) ==
  /\ place[w] = "idle"
  /\ \E p \in Fetchable : source' = [source EXCEPT ![w] = p]
  /\ Go(w, "source")
  /\ UNCHANGED <<page, rowLock, keyLock, todo, kept, seeded>>

\* Mutant: the hosts are locked, the total is not.
KeysForHosts(links) ==
  LET hosts == {HostOfUrl[u] : u \in ToSet(links)}
  IN  Among(HostOrder, hosts)

\* The advisory locks of the links: all writers use the same order.
KeysFor(links) ==
  LET hosts == {HostOfUrl[u] : u \in ToSet(links)}
  IN  IF links = <<>> THEN <<>>
      ELSE <<Global>> \o Among(HostOrder, hosts)

\* The row of the page is locked (and inserted first by a chat request, when it
\* is missing) and gets its terminal state.
LockSource(w) ==
  LET p == source[w] IN
  /\ place[w] = "source"
  /\ rowLock[p] = NoWriter
  /\ rowLock' = [rowLock EXCEPT ![p] = w]
  /\ todo' = [todo EXCEPT ![w] = KeysFor(LinksOf[p])]
  /\ Go(w, IF LinksOf[p] = <<>> THEN "rows" ELSE "keys")
  /\ UNCHANGED <<page, keyLock, source, kept, seeded>>

\* pg_advisory_xact_lock, one key after the other.
LockKey(w) ==
  /\ place[w] = "keys" /\ todo[w] # <<>>
  /\ keyLock[Head(todo[w])] = NoWriter
  /\ keyLock' = [keyLock EXCEPT ![Head(todo[w])] = w]
  /\ todo' = [todo EXCEPT ![w] = Tail(@)]
  /\ UNCHANGED <<page, rowLock, place, source, kept, seeded>>

\* What the transaction sees: what is committed, and its own page.
View(w) == [page EXCEPT ![source[w]] = "fetched"]

HasRoom(pending, u) ==
  /\ Cardinality(pending) < MaxPendingTotal
  /\ Cardinality({v \in pending : HostOfUrl[v] = HostOfUrl[u]}) < PerHostPendingCap

\* Documents and known pages are always kept, new ones while there is room.
KeepLink(view, links, u) ==
  LET new     == {v \in links \ Documents : view[v] = "absent"}
      pending == {v \in Urls : view[v] \in Pending} \cup new
  IN  IF u \in Documents \/ view[u] # "absent" \/ HasRoom(pending, u)
        THEN links \cup {u} ELSE links

\* The links one after the other, each with those kept before it.
KeptOf(view, links) ==
  LET upto[i \in 0 .. Len(links)] ==
        IF i = 0 THEN {} ELSE KeepLink(view, upto[i - 1], links[i])
  IN  upto[Len(links)]

\* The existing pages and the counts are read in one statement, under the locks.
SelectLinks(w) ==
  LET links  == LinksOf[source[w]]
      chosen == KeptOf(View(w), links)
  IN
  /\ place[w] = "keys" /\ todo[w] = <<>>
  /\ kept' = [kept EXCEPT ![w] = chosen]
  /\ todo' = [todo EXCEPT ![w] = Among(links, chosen \ {source[w]})]
  /\ Go(w, "rows")
  /\ UNCHANGED <<page, rowLock, keyLock, source, seeded>>

\* INSERT ... ON CONFLICT DO UPDATE: each row is inserted, or locked.
LockRow(w) ==
  /\ place[w] = "rows" /\ todo[w] # <<>>
  /\ rowLock[Head(todo[w])] = NoWriter
  /\ rowLock' = [rowLock EXCEPT ![Head(todo[w])] = w]
  /\ todo' = [todo EXCEPT ![w] = Tail(@)]
  /\ UNCHANGED <<page, keyLock, place, source, kept, seeded>>

\* Mutant: locks of the session, which outlive the transaction.
ReleasedKeysNot(w) == keyLock

\* Locks of the transaction go with it.
ReleasedKeys(w) == [k \in Keys |-> IF keyLock[k] = w THEN NoWriter ELSE keyLock[k]]

EndTransaction(w) ==
  /\ rowLock' = [u \in Urls |-> IF rowLock[u] = w THEN NoWriter ELSE rowLock[u]]
  /\ keyLock' = ReleasedKeys(w)
  /\ todo' = [todo EXCEPT ![w] = <<>>]
  /\ kept' = [kept EXCEPT ![w] = {}]
  /\ Go(w, "idle")
  /\ UNCHANGED source

\* A known page keeps its crawl_status.
Commit(w) ==
  /\ place[w] = "rows" /\ todo[w] = <<>>
  /\ page' = [u \in Urls |->
       CASE u = source[w]                       -> "fetched"
         [] u \in kept[w] /\ page[u] = "absent" ->
              IF u \in Documents THEN "excluded" ELSE "discovered"
         [] OTHER                               -> page[u]]
  /\ seeded' = seeded \ {source[w]}
  /\ EndTransaction(w)

\* A lost lease, or an error of the database: nothing is stored, and the
\* transaction is not tried again.
Abort(w) ==
  /\ place[w] # "idle"
  /\ EndTransaction(w)
  /\ UNCHANGED <<page, seeded>>

\* Whom a writer waits for.
WaitsFor(w) ==
  CASE place[w] = "source"                    -> rowLock[source[w]]
    [] place[w] = "keys" /\ todo[w] # <<>>    -> keyLock[Head(todo[w])]
    [] place[w] = "rows" /\ todo[w] # <<>>    -> rowLock[Head(todo[w])]
    [] OTHER                                  -> NoWriter

\* Following the waits leads back to w.
InCycle(w) ==
  LET hop[n \in 0 .. Cardinality(Writers)] ==
        IF n = 0 THEN w
        ELSE IF hop[n - 1] = NoWriter THEN NoWriter ELSE WaitsFor(hop[n - 1])
  IN  \E n \in 1 .. Cardinality(Writers) : hop[n] = w

\* The detector of PostgreSQL aborts a transaction of the cycle.
BreakDeadlock(w) == InCycle(w) /\ Abort(w)

\* record_discovery: one row, in a transaction without advisory locks.
Discover(u) ==
  /\ u \in Seeds /\ page[u] = "absent" /\ rowLock[u] = NoWriter
  /\ page' = [page EXCEPT ![u] = "discovered"]
  /\ seeded' = seeded \cup {u}
  /\ UNCHANGED <<rowLock, keyLock, writer>>

\* A page that was fetched is scheduled, claimed again, or failed.
Requeue(u) ==
  /\ page[u] = "fetched" /\ rowLock[u] = NoWriter
  /\ page' = [page EXCEPT ![u] = "requeued"]
  /\ UNCHANGED <<rowLock, keyLock, writer, seeded>>

Advance(w) == \/ LockSource(w) \/ LockKey(w) \/ SelectLinks(w) \/ LockRow(w)
              \/ Commit(w)

FrontierNext ==
  \/ \E w \in Writers : Begin(w) \/ Advance(w) \/ Abort(w) \/ BreakDeadlock(w)
  \/ \E u \in Urls : Discover(u) \/ Requeue(u)

\* A transaction goes on, and the queue of a lock is served in order; a cycle
\* is found after deadlock_timeout.
FrontierSpec ==
  /\ FrontierInit /\ [][FrontierNext]_frontierVars
  /\ \A w \in Writers : SF_frontierVars(Advance(w))
  /\ WF_frontierVars(\E w \in Writers : BreakDeadlock(w))

-----------------------------------------------------------------------------
FrontierTypeOK ==
  /\ page \in [Urls -> States]
  /\ rowLock \in [Urls -> Writers \cup {NoWriter}]
  /\ keyLock \in [Keys -> Writers \cup {NoWriter}]
  /\ place \in [Writers -> {"idle", "source", "keys", "rows"}]
  /\ source \in [Writers -> Fetchable]
  /\ kept \in [Writers -> SUBSET Urls]
  /\ seeded \subseteq Seeds

FoundPending == {u \in Urls : page[u] = "discovered"} \ seeded

\* The pages that were found by links and wait for their first crawl are within
\* the caps, however many pages of their hosts are stored at the same time
\* (site_map.py:464-473): no writer counts before another one's pages are
\* committed.  Pages that come back to the frontier may push it over its caps,
\* but let nothing new in.
FrontierWithinCaps ==
  /\ Cardinality(FoundPending) <= MaxPendingTotal
  /\ \A h \in UrlHosts : Cardinality({u \in FoundPending : HostOfUrl[u] = h}) <= PerHostPendingCap

\* Every transaction ends, committed or aborted, whichever locks the others hold
\* and in whichever order the rows come (site_map.py:331-348).
WritersEnd == \A w \in Writers : place[w] # "idle" ~> place[w] = "idle"

\* Writers that store pages at the same time do not wait for each other in a
\* cycle (site_map.py:331; architecture.md:90).
WritersDoNotDeadlock == \A w \in Writers : ~InCycle(w)

=============================================================================
