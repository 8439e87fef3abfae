--------------------------- MODULE MCTransactions ---------------------------
(* Sessions of PostgreSQL that run at the same time: claim statements on   *)
(* the rows of pages, writers that store pages and add the links on them   *)
(* to the frontier, searches for one question with the advisory lock and   *)
(* the table of their cache, and turns of conversations with the locks on  *)
(* their rows.  A behaviour is one of one part, chosen at the start; the   *)
(* others stand.                                                           *)
EXTENDS HostClaim, Frontier, SearchFlight, ChatTurn, TLC

VARIABLE part

CONSTANTS p1, p2, p3, h1, h2, ua, ub, uc, un, uo, um, uq, uf, ha, hb, hc, hd,
          r1, r2, r3, pa, pb

\* Three pages, two of them on one host.
MCPages  == {p1, p2, p3}
MCHostOf == p1 :> h1 @@ p2 :> h1 @@ p3 :> h2
MCRank   == p1 :> 1 @@ p2 :> 2 @@ p3 :> 3

\* Two pages that link to each other, to a document and to a new page of one
\* host each, and a page with new links to two other hosts.
MCUrlHost == ua :> ha @@ ub :> hb @@ uc :> hc @@ un :> ha @@ uo :> ha @@ um :> hc
               @@ uq :> hd @@ uf :> hb
MCLinks   == ua :> <<uf, ub, un>> @@ ub :> <<uo, ua>> @@ uc :> <<um, uq>>
MCOrder   == <<ha, hb, hc, hd>>

\* Three requests for one question, two of them in one process.
MCProcessOf == r1 :> pa @@ r2 :> pa @@ r3 :> pb

MCInit ==
  /\ part \in {"claims", "stores", "searches", "turns"}
  /\ Init /\ FrontierInit /\ FlightInit /\ ChatInit
  /\ part # "claims" => dueAt = [p \in Pages |-> 0]

MCVars == <<part, vars, frontierVars, flightVars, chatVars>>

Only(p, A) == part = p /\ A /\ UNCHANGED part

MCNext ==
  \/ Only("claims", Next) /\ UNCHANGED <<frontierVars, flightVars, chatVars>>
  \/ Only("stores", FrontierNext) /\ UNCHANGED <<vars, flightVars, chatVars>>
  \/ Only("searches", FlightNext) /\ UNCHANGED <<vars, frontierVars, chatVars>>
  \/ Only("turns", ChatNext) /\ UNCHANGED <<vars, frontierVars, flightVars>>

MCSpec == MCInit /\ [][MCNext]_MCVars

\* Workers, and writers, differ in nothing but their names.
MCSymmetry == Permutations(Workers) \cup Permutations(Writers)

=============================================================================
