---------------------------- MODULE MCCrawlLease ----------------------------
(* Instances of CrawlLease for TLC: two pages, on one host or on two.      *)
EXTENDS LeaseRefinement, TLC

CONSTANTS p1, p2, h1, h2

MCPages      == {p1, p2}
MCOneHost    == p1 :> h1 @@ p2 :> h1
MCTwoHosts   == p1 :> h1 @@ p2 :> h2
MCPriority   == p1 :> 1 @@ p2 :> 0
MCIdOrder    == p1 :> 1 @@ p2 :> 2

MCSinglePage == {p1}
MCHostOfOne  == p1 :> h1
MCZeroOfOne  == p1 :> 0

\* Chat requests find the first page only, and the site does not change.
MCHostNext ==
  \/ \E w \in Workers : ClaimDue(w) \/ Abandon(w)
  \/ \E p \in Pages, n \in Attempts : Crawl(p, n)
  \/ \E urls \in SUBSET Pages, ahead \in 0..ScheduleAhead :
       Schedule(urls, now + ahead)
  \/ LiveFetched(p1) \/ LiveFailed(p1)
  \/ Tick

MCHostSpec == Init /\ [][MCHostNext]_vars

\* Workers differ in nothing but their names.
WorkerSymmetry == Permutations(Workers)

=============================================================================
