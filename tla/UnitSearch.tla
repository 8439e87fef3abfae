----------------------------- MODULE UnitSearch -----------------------------
(***************************************************************************)
(* The live search for announcements of one unit: what the crawl found are *)
(* listings and details; the items of the listings are fetched one by one, *)
(* and the newest of the details with a date and a body are stored in one  *)
(* transaction (search_unit_announcements of crawlers/site_search.py).  An *)
(* announcement is its address; the deadline may pass between any two      *)
(* steps, and during a fetch.                                              *)
(***************************************************************************)
EXTENDS Integers, FiniteSets, SequencesExt

CONSTANTS
  ByDate,        \* the announcements of the unit in the order asked for
  Listing,       \* those on its listing, in the order they stand there
  DatedPages,    \* details that give a date
  DatedItems,    \* items of the listing that give one
  NoBody,        \* details without a text
  UnitLimit      \* max_items

ASSUME UnitAssumption ==
  /\ Listing \in Seq(ToSet(ByDate))
  /\ DatedPages \cup DatedItems \cup NoBody \subseteq ToSet(ByDate)
  /\ UnitLimit \in Nat \ {0}

VARIABLES
  phase,
  overtime,     \* the deadline is over
  quiet,        \* the crawl did not time out and has nothing to warn of
  given,        \* deduplicated_items, up to the limit
  next,         \* which of them is looked at next
  details,      \* detail_pages
  paired,       \* details with the item of the listing
  unread,       \* failed_count > 0
  cutShort,     \* timed_out
  persisted,    \* persisted_urls
  answered      \* the warning and complete

unitVars == <<phase, overtime, quiet, given, next, details, paired, unread,
              cutShort, persisted, answered>>

Left == next <= Len(given)
Item == given[next]

First(s, n) == SubSeq(s, 1, IF Len(s) < n THEN Len(s) ELSE n)

UnitInit ==
  /\ phase = "search" /\ overtime = FALSE /\ quiet = FALSE
  /\ given = <<>> /\ next = 1 /\ details = {} /\ paired = {}
  /\ unread = FALSE /\ cutShort = FALSE /\ persisted = {}
  /\ answered = [warning |-> "none", complete |-> FALSE]

\* The crawl (module LiveCrawl): some details, and the listing or not.  What
\* it missed it may report, and does when it timed out.
SearchUnit ==
  /\ phase = "search"
  /\ details' \in SUBSET ToSet(ByDate)
  /\ given' \in {<<>>, First(Listing, UnitLimit)}
  /\ quiet' \in BOOLEAN /\ overtime' \in BOOLEAN
  /\ phase' = "fetch"
  /\ UNCHANGED <<next, paired, unread, cutShort, persisted, answered>>

\* The item of a detail that the crawl has read already.
PairItem ==
  /\ phase = "fetch" /\ Left /\ Item \in details
  /\ paired' = paired \cup {Item}
  /\ next' = next + 1
  /\ UNCHANGED <<phase, overtime, quiet, given, details, unread, cutShort, persisted,
                 answered>>

\* The detail of an item, which may turn out to be a listing, or fail.
FetchItem ==
  /\ phase = "fetch" /\ Left /\ Item \notin details /\ ~overtime
  /\ overtime' \in BOOLEAN
  /\ \/ /\ details' = details \cup {Item}
        /\ paired' = paired \cup {Item}
        /\ unread' = unread
     \/ /\ unread' = TRUE
        /\ UNCHANGED <<details, paired>>
  /\ next' = next + 1
  /\ UNCHANGED <<phase, quiet, given, cutShort, persisted, answered>>

\* Mutant: the rest of the listing is left out without a word.
NoteCutOffNot == UNCHANGED cutShort

\* timed_out of the loop over the listing.
NoteCutOff == cutShort' = TRUE

\* The deadline ends the loop, before a fetch or in it.
CutOffFetch ==
  /\ phase = "fetch" /\ Left /\ Item \notin details
  /\ overtime' = TRUE
  /\ NoteCutOff
  /\ next' = Len(given) + 1
  /\ UNCHANGED <<phase, quiet, given, details, paired, unread, persisted, answered>>

HasDate(u)  == u \in DatedPages \/ (u \in paired /\ u \in DatedItems)
Undatable   == {u \in details : ~HasDate(u)}
Bodiless    == {u \in details \ Undatable : u \in NoBody}
Sorted(S)   == SelectSeq(ByDate, LAMBDA u : u \in S)
Candidates  == Sorted(details \ (Undatable \cup Bodiless))
SelectedNow == ToSet(First(Candidates, UnitLimit))

\* One transaction for all of them, never begun when time is up.
Merge ==
  /\ phase = "fetch" /\ ~Left
  /\ \/ /\ SelectedNow = {} \/ ~overtime
        /\ persisted' = SelectedNow
        /\ UNCHANGED <<unread, cutShort>>
     \/ /\ SelectedNow # {} /\ overtime
        /\ cutShort' = TRUE
        /\ UNCHANGED <<unread, persisted>>
     \/ /\ SelectedNow # {} /\ ~overtime
        /\ unread' = TRUE
        /\ UNCHANGED <<cutShort, persisted>>
  /\ phase' = "merged"
  /\ UNCHANGED <<overtime, quiet, given, next, details, paired, answered>>

\* incomplete
Shortfall == unread \/ Bodiless # {} \/ Undatable # {} \/ cutShort \/ ~quiet

Conclude ==
  /\ phase = "merged"
  /\ answered' = [warning  |-> IF ~Shortfall THEN "none"
                               ELSE IF persisted = {} THEN "failure" ELSE "partial",
                  complete |-> ~Shortfall]
  /\ phase' = "done"
  /\ UNCHANGED <<overtime, quiet, given, next, details, paired, unread, cutShort, persisted>>

UnitEnded == phase = "done" /\ UNCHANGED unitVars

UnitNext ==
  \/ SearchUnit \/ PairItem \/ FetchItem \/ CutOffFetch \/ Merge \/ Conclude
  \/ UnitEnded

UnitSpec == UnitInit /\ [][UnitNext]_unitVars

-----------------------------------------------------------------------------
\* A unit search that calls itself complete, or says nothing, has read every
\* item the listing gave it, and stored all it read, up to the limit: nothing
\* it saw was left out for its date or body, by an error or for want of time
\* (crawlers/site_search.py:977-1004, :1083-1098, :1104-1128).
UnitCompleteIsStored ==
  phase = "done" /\ (answered.complete \/ answered.warning = "none") =>
    /\ persisted = ToSet(First(Sorted(details), UnitLimit))
    /\ ToSet(given) \subseteq details

=============================================================================
