---------------------------- MODULE Completeness ----------------------------
(***************************************************************************)
(* The DB-first policy of rag/completeness.py, the facts it is given       *)
(* (rag/completeness_facts.py) and the adapter that turns its decision     *)
(* into a durable schedule (rag/completeness_refresh.py), as operators:    *)
(* the code keeps no state between two calls.                              *)
(*                                                                         *)
(* A row of the facts query is a record.  What the policy compares with a  *)
(* clock or with another column is abstracted to the outcome: the age of a *)
(* crawl is "fresh", "soft" or "hard", two content hashes are equal or     *)
(* not, a lease is live or not.  Scores are small integers.                *)
(***************************************************************************)
EXTENDS Integers, FiniteSets

CONSTANTS
    StrongScore,    \* exact_scope_min_score
    MinMargin,      \* minimum_score_margin
    MinStrong,      \* min_strong_evidence
    MinCoverage,    \* minimum_source_coverage_ratio, in percent
    MinRemaining,   \* minimum_remaining_deadline_seconds
    LiveEnabled,    \* live_fallback_enabled
    MaxTargets      \* refresh_schedule_max_targets

ASSUME PolicyAssumption ==
    /\ StrongScore \in Nat /\ MinMargin \in Nat
    /\ MinStrong \in Nat \ {0} /\ MinCoverage \in 0..100
    /\ MinRemaining \in Nat /\ LiveEnabled \in BOOLEAN
    /\ MaxTargets \in Nat \ {0}

Actions == {"useDb", "schedule", "live", "incomplete"}
TopicIntents == {"topic", "scoped"}
AnnouncementIntents == {"latest", "announcement", "keyword"}
Intents == TopicIntents \cup AnnouncementIntents

Ages == {"fresh", "soft", "hard"}
PageTypes == {"homepage", "listing", "other"}
\* "none" is NULL: the announcement has no page in the site map.
IngestionStates == {"success", "partial", "pending", "failed", "none"}
AnnouncementStates ==
    {"success", "partial", "pending", "failed", "incomplete", "none"}

(* The columns of a site page both queries read; a row is one page of the  *)
(* evidence.  `current` is a current document in the first query and being *)
(* in the snapshot of the source in the second.                            *)
Rows(U) ==
    [url : U, current : BOOLEAN, ofUnit : BOOLEAN, type : PageTypes,
     sync : BOOLEAN, ingestion : IngestionStates,
     announcement : AnnouncementStates, warned : BOOLEAN,
     leased : BOOLEAN, age : Ages]

-----------------------------------------------------------------------------
(* Facts *)

HighestOf(S) == IF S = {} THEN 0
                ELSE CHOOSE n \in S : \A m \in S : n >= m

Top(ev) == HighestOf({e.score : e \in ev})

Margin(ev) ==
    IF ev = {} THEN 0
    ELSE LET best == CHOOSE e \in ev : e.score = Top(ev)
         IN  Top(ev) - Top(ev \ {best})

Strong(ev) == Cardinality({e \in ev : e.score >= StrongScore /\ e.long})

Urls(ev) == {e.url : e \in ev}

NoFacts(ev) ==
    [ok |-> FALSE, evidence |-> Cardinality(ev), strong |-> 0, top |-> 0,
     margin |-> 0, current |-> 0, exact |-> 0, homepage |-> 0,
     listing |-> 0, fresh |-> 0, soft |-> 0, hard |-> 0, sync |-> 0,
     pending |-> 0, failed |-> 0, incomplete |-> 0, active |-> 0,
     coverage |-> 0, targets |-> Urls(ev), sources |-> {}]

Leased(r) == r.leased

PendingDocument(r) == r.ingestion = "pending"
FailedDocument(r) == r.ingestion \in {"failed", "partial"}

PendingAnnouncement(r) == r.ingestion = "pending" \/ r.announcement = "pending"
FailedAnnouncement(r) ==
    /\ ~PendingAnnouncement(r)
    /\ r.warned \/ r.ingestion \in {"failed", "partial"}
                \/ r.announcement \in {"failed", "partial"}

InSyncAnnouncement(r) ==
    /\ r.sync
    /\ r.ingestion \in {"success", "partial"}
    /\ r.announcement \in {"success", "incomplete", "none"}

(* Either table: the rows that count, and what is counted of them. *)
Counted(rows, pending, failed, ev) ==
    LET cur == {r \in rows : r.current}
        N(P(_)) == Cardinality({r \in cur : P(r)})
    IN  [NoFacts(ev) EXCEPT
           !.ok         = TRUE,
           !.strong     = Strong(ev),
           !.top        = Top(ev),
           !.margin     = Margin(ev),
           !.current    = Cardinality(cur),
           !.fresh      = N(LAMBDA r : r.age = "fresh"),
           !.soft       = N(LAMBDA r : r.age = "soft"),
           !.hard       = N(LAMBDA r : r.age = "hard"),
           !.pending    = Cardinality(cur \cap pending),
           !.failed     = Cardinality(cur \cap failed),
           !.incomplete = N(LAMBDA r : r.announcement = "incomplete"),
           !.active     = N(Leased),
           !.exact      = N(LAMBDA r : r.ofUnit)]

(* A page type is reported only when every current row has it. *)
OnlyOf(type, rows) ==
    LET cur == {r \in rows : r.current}
    IN  IF \A r \in cur : r.type = type THEN Cardinality(cur) ELSE 0

DocumentFacts(ev, rows, scoped) ==
    LET cur == {r \in rows : r.current}
        f   == Counted(rows, {r \in cur : PendingDocument(r)},
                       {r \in cur : FailedDocument(r)}, ev)
    IN  [f EXCEPT
           !.exact    = IF scoped THEN @ ELSE 0,
           !.homepage = OnlyOf("homepage", rows),
           !.listing  = OnlyOf("listing", rows),
           !.sync     = Cardinality({r \in cur : r.sync}),
           !.coverage = IF cur = {} THEN 0 ELSE 100]

(* `sources` are the enabled sources the configuration names for the unit, *)
(* each with its page and whether its last refresh is recent.              *)
AnnouncementFacts(ev, rows, sources, scoped) ==
    LET f == Counted(rows, {r \in rows : PendingAnnouncement(r)},
                     {r \in rows : FailedAnnouncement(r)}, ev)
    IN  [f EXCEPT
           !.exact    = IF scoped THEN @ ELSE 0,
           !.sync     = Cardinality({r \in rows : InSyncAnnouncement(r)}),
           !.coverage = IF sources = {} THEN 0
                        ELSE (100 * Cardinality({s \in sources : s.recent}))
                                \div Cardinality(sources),
           !.targets  = Urls(ev) \cup {s.page : s \in sources},
           !.sources  = {s.name : s \in sources}]

-----------------------------------------------------------------------------
(* The decision *)

Insufficient(remaining) ==
    IF ~LiveEnabled \/ remaining < MinRemaining THEN "incomplete" ELSE "live"

(* Evidence a topic question cannot be answered from, or an announcement   *)
(* question cannot: one side per group of guards before the freshness.     *)
LacksTopic(f, intent) ==
    /\ intent \in TopicIntents
    /\ \/ f.homepage > 0
       \/ f.listing > 0
       \/ f.current = 0
       \/ intent = "scoped" /\ f.exact = 0

LacksSnapshot(f, intent) ==
    intent \in AnnouncementIntents /\ f.current = 0

TerminalIncomplete(f, intent) ==
    intent \in {"announcement", "keyword"} /\ f.incomplete > 0

\* Mutant: a stale row is no reason to refresh when another row is fresh.
UnsettledUnlessFresh(f, intent) ==
    \/ f.hard > 0 /\ intent # "latest" /\ f.fresh = 0
    \/ f.pending > 0
    \/ intent \in TopicIntents /\ f.sync < 1
    \/ f.failed > 0
    \/ f.soft > 0 /\ f.fresh = 0

Unsettled(f, intent) ==
    \/ f.hard > 0 /\ intent # "latest"
    \/ f.pending > 0
    \/ intent \in TopicIntents /\ f.sync < 1
    \/ f.failed > 0
    \/ f.soft > 0

LowCoverage(f) == f.coverage < MinCoverage

UsableSnapshot(f, intent) ==
    /\ intent \in AnnouncementIntents
    /\ f.evidence > 0 /\ f.current > 0 /\ f.fresh > 0

ExactScoped(f, intent) ==
    /\ intent \in {"scoped", "announcement"}
    /\ f.exact > 0 /\ f.top >= StrongScore /\ f.fresh > 0
    /\ f.sync > 0 \/ (intent = "announcement" /\ f.current > 0)

EnoughStrong(f) ==
    /\ f.strong >= MinStrong /\ f.fresh > 0
    /\ f.margin >= MinMargin \/ f.strong > 1

(* What the scores say, once the rows are known to be settled and fresh. *)
ByScore(f, intent, remaining) ==
    LET sparse == IF intent = "keyword" /\ UsableSnapshot(f, intent)
                    THEN "schedule" ELSE Insufficient(remaining)
    IN  IF f.strong > 0 /\ (ExactScoped(f, intent) \/ EnoughStrong(f))
          THEN "useDb" ELSE sparse

Decide(f, intent, remaining) ==
    CASE ~f.ok                          -> Insufficient(remaining)
      [] f.ok /\ f.active > 0           -> "incomplete"
      [] OTHER ->
    CASE LacksTopic(f, intent)          -> Insufficient(remaining)
      [] TerminalIncomplete(f, intent)  -> "incomplete"
      [] LacksSnapshot(f, intent) /\ ~TerminalIncomplete(f, intent)
                                        -> Insufficient(remaining)
      [] OTHER ->
    CASE intent = "latest" /\ f.hard > 0 -> Insufficient(remaining)
      [] ~(intent = "latest" /\ f.hard > 0) /\ Unsettled(f, intent)
                                        -> "schedule"
      [] OTHER ->
    IF intent \in AnnouncementIntents /\ LowCoverage(f)
       /\ (Cardinality(f.sources) > 1
             \/ intent = "keyword" \/ ~UsableSnapshot(f, intent))
      THEN "schedule"
    ELSE IF intent \in {"latest", "announcement"} /\ UsableSnapshot(f, intent)
      THEN "useDb"
    ELSE ByScore(f, intent, remaining)

-----------------------------------------------------------------------------
(* Scheduling the refresh of a decision *)

\* Mutant: the answer promises a refresh when any update was accepted.
PromisedSome(targets, sources, pagesDue, sourcesDue, raised) ==
    ~raised /\ (pagesDue # {} \/ sourcesDue # {})

(* What the two conditional updates did: the targets each accepted, and    *)
(* whether the second one raised after the first had committed.            *)
Promised(targets, sources, pagesDue, sourcesDue, raised) ==
    /\ ~raised
    /\ pagesDue = targets
    /\ sourcesDue = sources

MaySchedule(targets, sources, expired) ==
    /\ Cardinality(targets) + Cardinality(sources) <= MaxTargets
    /\ ~expired

=============================================================================
