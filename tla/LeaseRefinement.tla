--------------------------- MODULE LeaseRefinement ---------------------------
(***************************************************************************)
(* CrawlLease implements PageLease: the claim a page is granted to is that *)
(* of the live lease in its row, and the verdict on a claim is what its    *)
(* attempt row says.                                                       *)
(***************************************************************************)
EXTENDS CrawlLease

CurrentClaim == [p \in Pages |-> IF Live(p) THEN holder[p] ELSE 0]

VerdictOn(o) == CASE o = "unissued"   -> "none"
                  [] o = "running"    -> "running"
                  [] o = "lease_lost" -> "lost"
                  [] OTHER            -> "settled"

ClaimVerdicts == [p \in Pages |-> [n \in Attempts |-> VerdictOn(outcome[p][n])]]

Promise == INSTANCE PageLease WITH
  current <- CurrentClaim,
  granted <- attempts,
  verdict <- ClaimVerdicts,
  content <- stored

\* Without chat requests, which take no lease, the rows keep the promise of the
\* lease: whatever expires, crashes, is renewed or comes late, a page belongs to
\* one claim at a time, changes forward and only under a lease, and no claim gets
\* a second verdict or that of another one (db/crawl_scheduler.py:189, :604-631, :677-776,
\* db/site_map.py:218-225).
KeepsThePromise == Promise!Spec

=============================================================================
