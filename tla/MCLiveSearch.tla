---------------------------- MODULE MCLiveSearch ----------------------------
(* One tool call of the chat service, and one of each of the live searches *)
(* it may start: the crawl of the site, the search by keyword, the search  *)
(* of a unit.  A behaviour is one of one part, chosen at the start; the    *)
(* others stand.                                                           *)
EXTENDS ToolCall, LiveCrawl, KeywordSearch, UnitSearch, TLC

VARIABLE part

CONSTANTS u1, u2, u3, u4, u5, u6, ha, hb, i1, i2, i3, i4

-----------------------------------------------------------------------------
(* The call: two pages and two sources, from every mixture of a few kinds  *)
(* of pages.  A document whose page is not in the site map has no crawl    *)
(* that could make it fresh.                                               *)

MCListingOf == [s \in Sources |-> IF s = "unit" THEN "unit_list" ELSE "overview_list"]

Settled1 == [url |-> "", current |-> TRUE, ofUnit |-> TRUE, type |-> "other",
             sync |-> TRUE, ingestion |-> "success", announcement |-> "success",
             warned |-> FALSE, leased |-> FALSE, age |-> "fresh"]

Kinds ==
    { Settled1,
      [Settled1 EXCEPT !.age = "soft"],
      [Settled1 EXCEPT !.age = "hard", !.sync = FALSE],
      [Settled1 EXCEPT !.type = "listing", !.ofUnit = FALSE],
      [Settled1 EXCEPT !.ingestion = "pending", !.sync = FALSE],
      [Settled1 EXCEPT !.announcement = "incomplete"],
      [Settled1 EXCEPT !.ingestion = "none", !.announcement = "none", !.sync = FALSE],
      [Settled1 EXCEPT !.current = FALSE, !.announcement = "none"] }

\* Only the policy reads the columns of a page.
KindsIn(m) == IF m = "enforce" THEN Kinds ELSE {Settled1}

\* The second page is one the policy would trust, or one not yet stored.
OtherKinds == { Settled1, [Settled1 EXCEPT !.current = FALSE] }

Strongly == [u \in Url |-> "strong"]
Hits == { Strongly,
          [u \in Url |-> IF u = "u1" THEN "strong" ELSE "none"],
          [u \in Url |-> IF u = "u1" THEN "weak" ELSE "short"] }

AnyCall == [tool |-> "documents", unit |-> "none", homepage |-> FALSE,
            query |-> "topic", newest |-> FALSE]

CallInit ==
    /\ mode \in (IF part = "call" THEN {"off", "shadow", "enforce"} ELSE {"off"})
    /\ call \in (IF part = "call" THEN Calls ELSE {AnyCall})
    /\ hit \in (IF part = "call" THEN Hits ELSE {Strongly})
    /\ \E k \in {n \in KindsIn(mode) : n.ingestion = "none" => call.tool = "announcements"},
          o \in (IF part = "call" THEN OtherKinds ELSE {Settled1}) :
         row = [u \in Url |-> [(IF u = "u1" THEN k ELSE o) EXCEPT !.url = u]]
    /\ stored = {u \in Url : row[u].current}
    /\ replaced = {} /\ recent \in {{}, IF part = "call" THEN Sources ELSE {}}
    /\ mapped \in {Url, IF part = "call" THEN Pages ELSE Url} /\ due = {}
    /\ left = 2 /\ changes = 0
    /\ pc = "preflight" /\ ready = FALSE /\ cached = {} /\ verdict = "none"
    /\ live = NoLive /\ evidence = {} /\ warnings = {}
    /\ Init

-----------------------------------------------------------------------------
(* The crawl: a small web site on two hosts.  u1 is a seed, u2 comes from  *)
(* the site map, u6 from the official search; u4 is linked from two pages  *)
(* with different scores, and the host of u1 has more pages than a search  *)
(* may read.                                                               *)

To(u, n) == [url |-> u, score |-> n]
At(u, n) == [url |-> u, score |-> n, depth |-> 0]

MCHostOf    == u1 :> ha @@ u2 :> hb @@ u3 :> ha @@ u4 :> hb @@ u5 :> ha @@ u6 :> hb
MCMapItems  == <<At(u2, 2)>>
MCSeeds     == <<At(u1, 1), At(u2, 1)>>
MCFound     == <<At(u6, 2), At(u4, 1)>>
MCLinks     == u1 :> <<To(u4, 3), To(u3, 2), To(u5, 4)>>
               @@ u2 :> <<To(u4, 1), To(u1, 2), To(u3, 0)>>
               @@ u3 :> <<To(u5, 1)>>
               @@ u4 :> <<To(u3, 4)>>
               @@ u5 :> <<>>
               @@ u6 :> <<To(u5, 2)>>
MCPageScore == u1 :> 0 @@ u2 :> 2 @@ u3 :> 1 @@ u4 :> 3 @@ u5 :> 2 @@ u6 :> 3

-----------------------------------------------------------------------------
(* The announcements of the other two searches.                            *)

MCItems   == <<i1, i2, i3>>
MCByDate  == <<i1, i2, i3, i4>>
MCListing == <<i2, i1, i4>>

MCInit ==
    /\ part \in {"call", "crawl", "keyword", "unit"}
    /\ CallInit /\ CrawlInit /\ KeywordInit /\ UnitInit
    /\ part # "crawl" => present = {}
    /\ part # "keyword" => ~timeUp

MCVars == <<part, vars, crawlVars, keywordVars, unitVars>>

Call    == part = "call" /\ Next /\ UNCHANGED <<part, crawlVars, keywordVars, unitVars>>
Crawl   == part = "crawl" /\ CrawlNext /\ UNCHANGED <<part, vars, keywordVars, unitVars>>
Keyword == part = "keyword" /\ KeywordNext /\ UNCHANGED <<part, vars, crawlVars, unitVars>>
Unit    == part = "unit" /\ UnitNext /\ UNCHANGED <<part, vars, crawlVars, keywordVars>>

MCNext == Call \/ Crawl \/ Keyword \/ Unit

MCSpec == MCInit /\ [][MCNext]_MCVars

MCKeywordSpec == part = "keyword" /\ MCInit /\ [][MCNext]_MCVars

=============================================================================
