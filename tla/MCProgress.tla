----------------------------- MODULE MCProgress -----------------------------
(* What must come to an end, in four parts of the system that run without  *)
(* each other: the claims of pages, the loop of the worker process, the    *)
(* transactions that store pages, and the searches for one question.  A    *)
(* behaviour is one of one part, chosen at the start; the others stand.    *)
EXTENDS CrawlLease, WorkerControl, Frontier, SearchFlight, TLC

VARIABLE part

CONSTANTS p1, h1, ua, ub, un, um, uf, ha, hb, hc, s1, s2, pa, pb

\* One page of one host.
MCHost  == [p \in Pages |-> h1]
MCZero  == [p \in Pages |-> 0]

\* Two pages that link to each other, to a document and to a new page each.
MCUrlHost == ua :> ha @@ ub :> ha @@ un :> hb @@ um :> hc @@ uf :> hc
MCLinks   == ua :> <<ub, un>> @@ ub :> <<ua, uf, um>>
MCHosts   == <<ha, hb, hc>>

\* A search in each of two processes.
MCProcessOf == s1 :> pa @@ s2 :> pb

\* A page that is not due.
ClaimsStand ==
  /\ now = 0
  /\ site = MCZero /\ stored = MCZero /\ failures = MCZero
  /\ status = [p \in Pages |-> "discovered"]
  /\ active = [p \in Pages |-> TRUE]
  /\ dueAt = [p \in Pages |-> Never]
  /\ attempts = MCZero /\ holder = MCZero /\ expires = MCZero
  /\ outcome = [p \in Pages |-> [n \in Attempts |-> "unissued"]]
  /\ claim = [p \in Pages |-> [n \in Attempts |-> NoClaim]]
  /\ phase = [p \in Pages |-> [n \in Attempts |-> "gone"]]
  /\ seen = [p \in Pages |-> [n \in Attempts |-> 0]]
  /\ result = [p \in Pages |-> [n \in Attempts |-> "none"]]

MCInit ==
  /\ part \in {"claims", "loop", "stores", "searches"}
  /\ IF part = "claims" THEN Init ELSE ClaimsStand
  /\ WorkerInit /\ FrontierInit /\ FlightInit

MCVars == <<part, vars, workerVars, frontierVars, flightVars>>

Only(p, A) == part = p /\ A /\ UNCHANGED part

ClaimsOnly(A) ==
  Only("claims", A) /\ UNCHANGED <<workerVars, frontierVars, flightVars>>
LoopOnly(A) ==
  Only("loop", A) /\ UNCHANGED <<vars, frontierVars, flightVars>>
StoresOnly(A) ==
  Only("stores", A) /\ UNCHANGED <<vars, workerVars, flightVars>>
SearchesOnly(A) ==
  Only("searches", A) /\ UNCHANGED <<vars, workerVars, frontierVars>>

MCNext == \/ ClaimsOnly(Next) \/ LoopOnly(WorkerNext)
          \/ StoresOnly(FrontierNext) \/ SearchesOnly(FlightNext)

\* The fairness of each part, for the behaviours of that part.
MCFairness ==
  /\ \A w \in Workers : WF_MCVars(ClaimsOnly(ClaimDue(w)))
  /\ \A p \in Pages, n \in Attempts : WF_MCVars(ClaimsOnly(Crawl(p, n)))
  /\ WF_MCVars(ClaimsOnly(Tick))
  /\ WF_MCVars(LoopOnly(Loop)) /\ WF_MCVars(LoopOnly(PassTick))
  /\ \A a \in Admins : WF_MCVars(LoopOnly(Wake(a)))
  /\ \A w \in Writers : SF_MCVars(StoresOnly(Advance(w)))
  /\ WF_MCVars(StoresOnly(\E w \in Writers : BreakDeadlock(w)))
  /\ \A r \in Seekers : WF_MCVars(SearchesOnly(Proceed(r)))
  /\ WF_MCVars(SearchesOnly(Elapse))

MCSpec == MCInit /\ [][MCNext]_MCVars /\ MCFairness

=============================================================================
