-------------------------- MODULE CrawlLease_proofs --------------------------
(***************************************************************************)
(* Proofs about CrawlLease, for any number of pages, workers and hosts and *)
(* any values of the bounds; and that it implements PageLease.             *)
(***************************************************************************)
EXTENDS LeaseRefinement, FiniteSetTheorems, WellFoundedInduction, TLAPS

\* What a claim does, without how it chose the pages S it takes.
LEMMA ClaimTakes ==
  ASSUME NEW w \in Workers, ClaimDue(w)
  PROVE  \E S \in SUBSET Pages :
           /\ \A p \in S : attempts[p] < MaxAttempts /\ ~Live(p)
           /\ attempts' = [p \in Pages |-> attempts[p] + IF p \in S THEN 1 ELSE 0]
           /\ holder' = [p \in Pages |->
                           IF p \in S THEN attempts[p] + 1 ELSE holder[p]]
           /\ expires' = On(expires, S, now + LeaseDuration)
           /\ status' = On(status, S, "fetching")
           /\ outcome' = Issue(outcome, S, [p \in Pages |-> "running"])
           /\ claim' = Issue(claim, S,
                             [p \in Pages |-> [worker   |-> w,
                                               expires  |-> now + LeaseDuration,
                                               failures |-> failures[p],
                                               hash     |-> stored[p]]])
           /\ phase' = Issue(phase, S, [p \in Pages |-> "claimed"])
<1>1. \A urls \in SUBSET Pages : \A p \in Due(urls) : p \in Pages /\ ~Live(p)
  BY Zenon DEF Due, Candidates
<1> QED
  BY <1>1, Zenon DEF ClaimDue

\* The literals of the actions, in the sets they belong to.
LEMMA Literals ==
  /\ {"gone", "claimed", "fetch", "html", "parsed", "persist",
      "stored", "ingest", "result", "settle"} \subseteq Phases
  /\ {"none", "changed", "unchanged"} \subseteq Results
  /\ Failures \subseteq Results
  /\ HttpFailures \subseteq Failures
  /\ {"transient", "lost"} \subseteq Failures
  /\ {"running", "lease_lost", "success", "blocked", "excluded",
      "failed_transient"} \subseteq Outcomes
  /\ {"fetching", "queued", "success", "unchanged", "failed",
      "blocked", "excluded"} \subseteq Statuses
  /\ NoClaim \in ClaimRecords
  BY DEF Phases, Results, Failures, HttpFailures, Outcomes, Finished, Statuses, NoClaim,
         ClaimRecords

\* Replacing one entry of a table over claims keeps the type of the table.
LEMMA EntryTyped ==
  ASSUME NEW p \in Pages, NEW n \in Attempts, NEW S, NEW v \in S,
         NEW f \in [Pages -> [Attempts -> S]]
  PROVE  [f EXCEPT ![p][n] = v] \in [Pages -> [Attempts -> S]]
  OBVIOUS

\* Replacing one entry of a column keeps the type of the column.
LEMMA ColumnTyped ==
  ASSUME NEW p \in Pages, NEW S, NEW v \in S, NEW f \in [Pages -> S]
  PROVE  [f EXCEPT ![p] = v] \in [Pages -> S]
  OBVIOUS

\* Clearing a lease and renewing one.
LEMMA LeaseTyped ==
  ASSUME ConstantsAssumption, TypeOK, NEW p \in Pages
  PROVE  /\ ClearLease(p) => /\ holder' \in [Pages -> 0..MaxAttempts]
                             /\ expires' \in [Pages -> Nat]
         /\ expires' = [expires EXCEPT ![p] = now + LeaseDuration]
              => expires' \in [Pages -> Nat]
<1>1. 0 \in 0..MaxAttempts /\ 0 \in Nat /\ now + LeaseDuration \in Nat
  BY DEF TypeOK, ConstantsAssumption
<1>2. holder \in [Pages -> 0..MaxAttempts] /\ expires \in [Pages -> Nat]
  BY DEF TypeOK
<1>3. /\ [holder EXCEPT ![p] = 0] \in [Pages -> 0..MaxAttempts]
      /\ [expires EXCEPT ![p] = 0] \in [Pages -> Nat]
      /\ [expires EXCEPT ![p] = now + LeaseDuration] \in [Pages -> Nat]
  BY <1>1, <1>2, ColumnTyped
<1> QED
  BY <1>3 DEF ClearLease

\* A failure count is reset or incremented, a due time set in the future.
LEMMA CountersTyped ==
  ASSUME ConstantsAssumption, TypeOK, NEW p \in Pages
  PROVE  /\ [failures EXCEPT ![p] = 0] \in [Pages -> Nat]
         /\ [failures EXCEPT ![p] = @ + 1] \in [Pages -> Nat]
         /\ [dueAt EXCEPT ![p] = Never] \in [Pages -> Nat \cup {Never}]
         /\ \A d \in Delays :
              [dueAt EXCEPT ![p] = now + d] \in [Pages -> Nat \cup {Never}]
<1>1. /\ failures[p] + 1 \in Nat
      /\ Never \in Nat \cup {Never}
      /\ \A d \in Delays : now + d \in Nat \cup {Never}
  BY DEF TypeOK, ConstantsAssumption
<1>2. failures \in [Pages -> Nat] /\ dueAt \in [Pages -> Nat \cup {Never}]
  BY DEF TypeOK
<1>3. [failures EXCEPT ![p] = failures[p] + 1] \in [Pages -> Nat]
  BY <1>1, <1>2, ColumnTyped
<1> QED
  BY <1>1, <1>2, <1>3, ColumnTyped

\* A claim that moves on is in a phase.
LEMMA GotoTyped ==
  ASSUME TypeOK, NEW p \in Pages, NEW n \in Attempts, NEW s \in Phases,
         Goto(p, n, s)
  PROVE  phase' \in [Pages -> [Attempts -> Phases]]
  BY EntryTyped DEF Goto, TypeOK

\* A claim that reports has a result and is in a phase.
LEMMA ReportTyped ==
  ASSUME TypeOK, NEW p \in Pages, NEW n \in Attempts, NEW res \in Results,
         Report(p, n, res)
  PROVE  /\ phase' \in [Pages -> [Attempts -> Phases]]
         /\ result' \in [Pages -> [Attempts -> Results]]
  BY Literals, GotoTyped, EntryTyped DEF Report, TypeOK

\* A claim that is dropped leaves entries of the types of the memory.
LEMMA ForgetTyped ==
  ASSUME TypeOK, NEW p \in Pages, NEW n \in Attempts, Forget(p, n)
  PROVE  /\ claim' \in [Pages -> [Attempts -> ClaimRecords]]
         /\ phase' \in [Pages -> [Attempts -> Phases]]
         /\ seen' \in [Pages -> [Attempts -> Nat]]
         /\ result' \in [Pages -> [Attempts -> Results]]
<1>1. "gone" \in Phases /\ "none" \in Results /\ NoClaim \in ClaimRecords
  BY Literals
<1>2. phase' \in [Pages -> [Attempts -> Phases]]
  BY <1>1, GotoTyped DEF Forget
<1>3. claim' \in [Pages -> [Attempts -> ClaimRecords]]
  BY <1>1, EntryTyped DEF Forget, TypeOK
<1>4. /\ seen' \in [Pages -> [Attempts -> Nat]]
      /\ result' \in [Pages -> [Attempts -> Results]]
  BY <1>1, EntryTyped DEF Forget, TypeOK
<1> QED
  BY <1>2, <1>3, <1>4

\* An attempt that is marked as lost has an outcome.
LEMMA MarkLostTyped ==
  ASSUME TypeOK, NEW p \in Pages, NEW n \in Attempts, MarkLost(p, n)
  PROVE  outcome' \in [Pages -> [Attempts -> Outcomes]]
<1> DEFINE v == IF outcome[p][n] = "running" /\ ~Owned(p, n)
                THEN "lease_lost" ELSE outcome[p][n]
<1>1. v \in Outcomes
  BY Literals DEF TypeOK
<1>2. outcome' = [outcome EXCEPT ![p][n] = v]
  BY DEF MarkLost
<1> HIDE DEF v
<1> QED
  BY <1>1, <1>2, EntryTyped DEF TypeOK

\* An attempt that is finished has an outcome.
LEMMA FinishAttemptTyped ==
  ASSUME TypeOK, NEW p \in Pages, NEW n \in Attempts, NEW o \in Outcomes,
         FinishAttempt(p, n, o)
  PROVE  outcome' \in [Pages -> [Attempts -> Outcomes]]
  BY EntryTyped DEF FinishAttempt, TypeOK

\* Every action keeps every variable in its type.
LEMMA TypeOKStep ==
  ASSUME ConstantsAssumption, TypeOK, [Next]_vars
  PROVE  TypeOK'
<1> USE ConstantsAssumption
<1>1. ASSUME NEW w \in Workers, ClaimDue(w)
      PROVE  TypeOK'
  <2>1. PICK S \in SUBSET Pages :
          /\ \A p \in S : attempts[p] < MaxAttempts /\ ~Live(p)
          /\ attempts' = [p \in Pages |-> attempts[p] + IF p \in S THEN 1 ELSE 0]
          /\ holder' = [p \in Pages |->
                          IF p \in S THEN attempts[p] + 1 ELSE holder[p]]
          /\ expires' = On(expires, S, now + LeaseDuration)
          /\ status' = On(status, S, "fetching")
          /\ outcome' = Issue(outcome, S, [p \in Pages |-> "running"])
          /\ claim' = Issue(claim, S,
                            [p \in Pages |-> [worker   |-> w,
                                              expires  |-> now + LeaseDuration,
                                              failures |-> failures[p],
                                              hash     |-> stored[p]]])
          /\ phase' = Issue(phase, S, [p \in Pages |-> "claimed"])
    BY <1>1, ClaimTakes, Zenon
  <2>2. /\ attempts' \in [Pages -> 0..MaxAttempts]
        /\ holder' \in [Pages -> 0..MaxAttempts]
        /\ expires' \in [Pages -> Nat]
        /\ status' \in [Pages -> Statuses]
    BY <2>1, Literals DEF On, TypeOK
  <2>3. ASSUME NEW T, NEW f \in [Pages -> [Attempts -> T]],
               NEW value, \A p \in Pages : value[p] \in T
        PROVE  Issue(f, S, value) \in [Pages -> [Attempts -> T]]
    BY <2>3 DEF Issue
  <2>4. outcome' \in [Pages -> [Attempts -> Outcomes]]
    BY <2>1, <2>3, Literals DEF TypeOK
  <2>5. phase' \in [Pages -> [Attempts -> Phases]]
    BY <2>1, <2>3, Literals DEF TypeOK
  <2>6. claim' \in [Pages -> [Attempts -> ClaimRecords]]
    <3> DEFINE value == [p \in Pages |-> [worker   |-> w,
                                          expires  |-> now + LeaseDuration,
                                          failures |-> failures[p],
                                          hash     |-> stored[p]]]
    <3>1. \A p \in Pages : value[p] \in ClaimRecords
      BY DEF ClaimRecords, TypeOK
    <3>2. claim' = Issue(claim, S, value)
      BY <2>1
    <3> HIDE DEF value
    <3> QED
      BY <2>3, <3>1, <3>2 DEF TypeOK
  <2> QED
    BY <1>1, <2>2, <2>4, <2>5, <2>6 DEF ClaimDue, TypeOK
<1>2. ASSUME NEW w \in Workers, Abandon(w)
      PROVE  TypeOK'
  <2>1. /\ claim' \in [Pages -> [Attempts -> ClaimRecords]]
        /\ phase' \in [Pages -> [Attempts -> Phases]]
        /\ seen' \in [Pages -> [Attempts -> Nat]]
        /\ result' \in [Pages -> [Attempts -> Results]]
    BY <1>2, Literals DEF Abandon, TypeOK
  <2> QED
    BY <1>2, <2>1 DEF Abandon, TypeOK, row, lease
<1>3. ASSUME NEW p \in Pages, NEW n \in Attempts, NEW from, NEW to \in Phases,
             RenewAndGo(p, n, from, to)
      PROVE  TypeOK'
  <2>1. /\ phase' \in [Pages -> [Attempts -> Phases]]
        /\ result' \in [Pages -> [Attempts -> Results]]
        /\ outcome' \in [Pages -> [Attempts -> Outcomes]]
    BY <1>3, Literals, GotoTyped, ReportTyped, MarkLostTyped
       DEF RenewAndGo, TypeOK
  <2>2. expires' \in [Pages -> Nat]
    BY <1>3, LeaseTyped DEF RenewAndGo, TypeOK
  <2> QED
    BY <1>3, <2>1, <2>2 DEF RenewAndGo, TypeOK, row
<1>4. ASSUME NEW p \in Pages, NEW n \in Attempts, Crawl(p, n)
      PROVE  TypeOK'
  <2>1. CASE \/ RenewBeforeFetch(p, n)
             \/ RenewBeforeParse(p, n)
             \/ RenewBeforePersist(p, n)
             \/ RenewBeforeIngest(p, n)
    BY <2>1, <1>3, Literals
       DEF RenewBeforeFetch, RenewBeforeParse, RenewBeforePersist,
           RenewBeforeIngest
  <2>2. CASE Fetch(p, n)
    <3>1. /\ phase' \in [Pages -> [Attempts -> Phases]]
          /\ result' \in [Pages -> [Attempts -> Results]]
      BY <2>2, Literals, GotoTyped, ReportTyped DEF Fetch, TypeOK
    <3>2. seen' \in [Pages -> [Attempts -> Nat]]
      BY <2>2, SMTT(40) DEF Fetch, TypeOK
    <3> QED
      BY <2>2, <3>1, <3>2 DEF Fetch, TypeOK, row, lease
  <2>3. CASE Persist(p, n)
    <3>1. /\ phase' \in [Pages -> [Attempts -> Phases]]
          /\ result' \in [Pages -> [Attempts -> Results]]
      <4>1. CASE ~MayPersist(p, n)
        BY <2>3, <4>1, Literals, ReportTyped DEF Persist
      <4>2. CASE MayPersist(p, n)
        <5>1. \A res \in {"changed", "unchanged"} :
                [result EXCEPT ![p][n] = res] \in [Pages -> [Attempts -> Results]]
          BY Literals, EntryTyped DEF TypeOK
        <5>2. \A s \in {"stored", "result"} :
                Goto(p, n, s) => phase' \in [Pages -> [Attempts -> Phases]]
          BY Literals, GotoTyped
        <5> QED
          BY <2>3, <4>2, <5>1, <5>2 DEF Persist
      <4> QED
        BY <4>1, <4>2
    <3>2. /\ status' \in [Pages -> Statuses]
          /\ failures' \in [Pages -> Nat]
          /\ stored' \in [Pages -> Nat]
      <4>1. seen[p][n] \in Nat
        BY DEF TypeOK
      <4>2. (IF stored[p] # seen[p][n] THEN "success" ELSE "unchanged")
              \in Statuses
        BY Literals
      <4> DEFINE outcomeStatus ==
                   IF stored[p] # seen[p][n] THEN "success" ELSE "unchanged"
      <4>3. /\ [status EXCEPT ![p] = outcomeStatus] \in [Pages -> Statuses]
            /\ [stored EXCEPT ![p] = seen[p][n]] \in [Pages -> Nat]
        BY <4>1, <4>2, ColumnTyped DEF TypeOK
      <4>4. CASE ~MayPersist(p, n)
        BY <2>3, <4>4 DEF Persist, TypeOK
      <4>5. CASE MayPersist(p, n)
        BY <2>3, <4>3, <4>5, CountersTyped DEF Persist
      <4> QED
        BY <4>4, <4>5
    <3> QED
      BY <2>3, <3>1, <3>2 DEF Persist, TypeOK, lease
  <2>4. CASE Ingest(p, n)
    <3>1. /\ phase' \in [Pages -> [Attempts -> Phases]]
          /\ result' \in [Pages -> [Attempts -> Results]]
      BY <2>4, Literals, GotoTyped, ReportTyped DEF Ingest, TypeOK
    <3> QED
      BY <2>4, <3>1 DEF Ingest, TypeOK, row, lease
  <2>8. CASE Raise(p, n)
    BY <2>8, Literals, ReportTyped DEF Raise, TypeOK, row, lease
  <2>5. CASE SettleRenew(p, n)
    <3>1. /\ claim' \in [Pages -> [Attempts -> ClaimRecords]]
          /\ phase' \in [Pages -> [Attempts -> Phases]]
          /\ seen' \in [Pages -> [Attempts -> Nat]]
          /\ result' \in [Pages -> [Attempts -> Results]]
      BY <2>5, Literals, GotoTyped, ForgetTyped DEF SettleRenew, TypeOK
    <3>2. /\ outcome' \in [Pages -> [Attempts -> Outcomes]]
          /\ expires' \in [Pages -> Nat]
      BY <2>5, MarkLostTyped DEF SettleRenew, TypeOK
    <3> QED
      BY <2>5, <3>1, <3>2 DEF SettleRenew, TypeOK, row
  <2>6. CASE Complete(p, n)
    <3>1. outcome' \in [Pages -> [Attempts -> Outcomes]]
      BY <2>6, Literals, FinishAttemptTyped, MarkLostTyped DEF Complete, Rejected
    <3>2. /\ status' \in [Pages -> Statuses]
          /\ failures' \in [Pages -> Nat]
          /\ dueAt' \in [Pages -> Nat \cup {Never}]
          /\ holder' \in [Pages -> 0..MaxAttempts]
          /\ expires' \in [Pages -> Nat]
          /\ UNCHANGED <<active, stored>>
      <4>1. (IF result[p][n] = "changed" THEN "success" ELSE "unchanged")
              \in Statuses
        BY Literals
      <4>2. CASE Rejected(p, n)
        BY <4>2 DEF Rejected, TypeOK, row
      <4>3. CASE ~Rejected(p, n)
        <5>1. [status EXCEPT ![p] = IF result[p][n] = "changed"
                                    THEN "success" ELSE "unchanged"]
                \in [Pages -> Statuses]
          BY <4>1, ColumnTyped DEF TypeOK
        <5>2. /\ status' \in [Pages -> Statuses]
              /\ failures' \in [Pages -> Nat]
              /\ dueAt' \in [Pages -> Nat \cup {Never}]
              /\ ClearLease(p)
              /\ UNCHANGED <<active, stored>>
          BY <2>6, <4>3, <5>1, CountersTyped DEF Complete
        <5> QED
          BY <5>2, LeaseTyped
      <4> QED
        BY <4>2, <4>3
    <3> QED
      BY <2>6, <3>1, <3>2, ForgetTyped DEF Complete, Rejected, Committed, memory, TypeOK
  <2>7. CASE Fail(p, n)
    <3> DEFINE verdict == Verdict(result[p][n], claim[p][n].failures + 1)
    <3>1. verdict \in {"blocked", "excluded", "failed"}
      BY DEF Verdict
    <3>2. verdict \in Statuses /\ (verdict \in Closed => verdict \in Outcomes)
      BY <3>1, Literals DEF Closed
    <3> HIDE DEF verdict
    <3>3. outcome' \in [Pages -> [Attempts -> Outcomes]]
      BY <2>7, <3>2, Literals, FinishAttemptTyped, MarkLostTyped
         DEF Fail, Rejected, verdict
    <3>4. /\ status' \in [Pages -> Statuses]
          /\ failures' \in [Pages -> Nat]
          /\ dueAt' \in [Pages -> Nat \cup {Never}]
          /\ active' \in [Pages -> BOOLEAN]
          /\ UNCHANGED stored
          /\ holder' \in [Pages -> 0..MaxAttempts]
          /\ expires' \in [Pages -> Nat]
      <4>1. CASE Rejected(p, n)
        BY <4>1 DEF Rejected, TypeOK, row
      <4>2. CASE ~Rejected(p, n)
        <5>1. /\ [status EXCEPT ![p] = verdict] \in [Pages -> Statuses]
              /\ [active EXCEPT ![p] = FALSE] \in [Pages -> BOOLEAN]
          BY <3>2, ColumnTyped DEF TypeOK
        <5>2. /\ status' = [status EXCEPT ![p] = verdict]
              /\ failures' = [failures EXCEPT ![p] = @ + 1]
              /\ UNCHANGED stored
              /\ ClearLease(p)
          BY <2>7, <4>2 DEF Fail, verdict
        <5>3. \/ /\ active' = [active EXCEPT ![p] = FALSE]
                 /\ dueAt' = [dueAt EXCEPT ![p] = Never]
              \/ /\ \E d \in Delays : dueAt' = [dueAt EXCEPT ![p] = now + d]
                 /\ UNCHANGED active
          BY <2>7, <4>2, Zenon DEF Fail
        <5>4. active' \in [Pages -> BOOLEAN]
          BY <5>1, <5>3 DEF TypeOK
        <5>5. dueAt' \in [Pages -> Nat \cup {Never}]
          BY <5>3, CountersTyped
        <5> QED
          BY <5>1, <5>2, <5>4, <5>5, LeaseTyped, CountersTyped
      <4> QED
        BY <4>1, <4>2
    <3> QED
      BY <2>7, <3>3, <3>4, ForgetTyped DEF Fail, Rejected, Committed, memory, TypeOK
  <2> QED
    BY <1>4, <2>1, <2>2, <2>3, <2>4, <2>5, <2>6, <2>7, <2>8 DEF Crawl
<1>5. ASSUME NEW urls \in SUBSET Pages, NEW runAt \in Nat, Schedule(urls, runAt)
      PROVE  TypeOK'
  <2>1. /\ dueAt' \in [Pages -> Nat \cup {Never}]
        /\ status' \in [Pages -> Statuses]
    BY <1>5, Literals DEF Schedule, On, TypeOK
  <2> QED
    BY <1>5, <2>1 DEF Schedule, TypeOK, lease, memory
<1>6. ASSUME NEW p \in Pages, LiveFetched(p) \/ LiveFailed(p)
      PROVE  TypeOK'
  <2>1. /\ status' \in [Pages -> Statuses]
        /\ stored' \in [Pages -> Nat]
        /\ failures' \in [Pages -> Nat]
    <3>1. CASE LiveFailed(p)
      BY <3>1, Literals, CountersTyped, ColumnTyped DEF LiveFailed, TypeOK
    <3>2. CASE LiveFetched(p)
      <4>1. PICK v \in 1..site[p] :
              /\ status' = [status EXCEPT ![p] =
                              IF stored[p] # v THEN "success" ELSE "unchanged"]
              /\ stored' = [stored EXCEPT ![p] = v]
        BY <3>2 DEF LiveFetched
      <4>2. /\ v \in Nat
            /\ (IF stored[p] # v THEN "success" ELSE "unchanged") \in Statuses
        BY Literals DEF TypeOK
      <4> QED
        BY <3>2, <4>1, <4>2, CountersTyped, ColumnTyped DEF LiveFetched, TypeOK
    <3> QED
      BY <1>6, <3>1, <3>2
  <2>2. /\ active' \in [Pages -> BOOLEAN]
        /\ dueAt' \in [Pages -> Nat \cup {Never}]
    <3>1. Rediscover(p)
      BY <1>6 DEF LiveFetched, LiveFailed
    <3>2. (active[p] \/ p \in LinkDiscovered) \in BOOLEAN
      OBVIOUS
    <3>3. PICK d \in Delays :
            dueAt' = [dueAt EXCEPT ![p] = IF dueAt[p] = Never THEN now + d
                                                             ELSE dueAt[p]]
      BY <3>1 DEF Rediscover
    <3>4. (IF dueAt[p] = Never THEN now + d ELSE dueAt[p]) \in Nat \cup {Never}
      BY DEF TypeOK, ConstantsAssumption
    <3> QED
      BY <3>1, <3>2, <3>3, <3>4, ColumnTyped DEF Rediscover, TypeOK
  <2> QED
    BY <1>6, <2>1, <2>2 DEF LiveFetched, LiveFailed, TypeOK, lease, memory
<1>7. ASSUME NEW p \in Pages, Edit(p)
      PROVE  TypeOK'
  BY <1>7 DEF Edit, TypeOK, row, lease, memory
<1>8. CASE Tick
  BY <1>8 DEF Tick, TypeOK, row, lease, memory
<1>9. CASE UNCHANGED vars
  BY <1>9 DEF vars, TypeOK, row, lease, memory
<1>10. \A ahead \in 0..ScheduleAhead : now + ahead \in Nat
  BY DEF TypeOK
<1> QED
  BY <1>1, <1>2, <1>4, <1>5, <1>6, <1>7, <1>8, <1>9, <1>10 DEF Next

\* The rows and the workers' memory are always of their types.
THEOREM TypeCorrect == Spec => []TypeOK
<1>1. Init => TypeOK
  <2>1. 0 \in 0..MaxAttempts
    BY ConstantsAssumption
  <2>2. "discovered" \in Statuses /\ "unissued" \in Outcomes
    BY DEF Statuses, Outcomes
  <2> QED
    BY <2>1, <2>2, Literals DEF Init, TypeOK
<1>2. TypeOK /\ [Next]_vars => TypeOK'
  BY TypeOKStep, ConstantsAssumption
<1> QED
  BY <1>1, <1>2, PTL DEF Spec

-----------------------------------------------------------------------------
(* The lease and the attempt rows.  With respect to them every action is   *)
(* one of five kinds of step: a claim, a renewal, the loss of a lease, the *)
(* closing of an attempt by the holder, or no change but the passing of    *)
(* time.  LiveLeaseIsRunning is inductive (with TypeOK), and in a state    *)
(* where it holds no step rewrites an attempt that was closed.             *)

ClosedStaysClosed ==
  \A p \in Pages, n \in Attempts :
    outcome[p][n] \in Finished \cup {"lease_lost"}
      => outcome'[p][n] = outcome[p][n]

\* claim_due gives a page to a new token with a new attempt row, and leaves
\* the attempt rows that were there alone.
LEMMA ClaimKeepsLease ==
  ASSUME ConstantsAssumption, TypeOK, LiveLeaseIsRunning,
         NEW w \in Workers, ClaimDue(w)
  PROVE  LiveLeaseIsRunning' /\ ClosedStaysClosed
<1>1. PICK S \in SUBSET Pages :
        /\ \A p \in S : attempts[p] < MaxAttempts /\ ~Live(p)
        /\ attempts' = [p \in Pages |-> attempts[p] + IF p \in S THEN 1 ELSE 0]
        /\ holder' = [p \in Pages |->
                        IF p \in S THEN attempts[p] + 1 ELSE holder[p]]
        /\ expires' = On(expires, S, now + LeaseDuration)
        /\ outcome' = Issue(outcome, S, [p \in Pages |-> "running"])
  BY ClaimTakes, Zenon
<1>2. now' = now
  BY DEF ClaimDue
<1>3. ASSUME NEW p \in S
      PROVE  /\ attempts[p] \in Nat
             /\ attempts'[p] = attempts[p] + 1
             /\ holder'[p] = attempts[p] + 1
             /\ attempts[p] + 1 \in Attempts
             /\ outcome[p][attempts[p] + 1] = "unissued"
             /\ outcome'[p][attempts[p] + 1] = "running"
             /\ \A n \in Attempts :
                  n # attempts[p] + 1 => outcome'[p][n] = outcome[p][n]
  <2>1. /\ p \in Pages /\ attempts[p] \in 0..MaxAttempts
        /\ attempts[p] < MaxAttempts /\ MaxAttempts \in Nat
        /\ outcome[p] \in [Attempts -> Outcomes]
    BY <1>1 DEF TypeOK, ConstantsAssumption
  <2>2. /\ attempts[p] \in Nat
        /\ attempts[p] + 1 \in Attempts
        /\ attempts[p] + 1 > attempts[p]
    BY <2>1 DEF Attempts
  <2>3. outcome[p][attempts[p] + 1] = "unissued"
    BY <2>1, <2>2 DEF LiveLeaseIsRunning
  <2>4. outcome'[p] = [outcome[p] EXCEPT ![attempts[p] + 1] = "running"]
    BY <1>1, <2>1 DEF Issue
  <2>5. attempts'[p] = attempts[p] + 1 /\ holder'[p] = attempts[p] + 1
    BY <1>1, <2>1
  <2> QED
    BY <2>1, <2>2, <2>3, <2>4, <2>5
<1>4. ASSUME NEW p \in Pages \ S
      PROVE  /\ attempts'[p] = attempts[p]
             /\ holder'[p] = holder[p]
             /\ expires'[p] = expires[p]
             /\ outcome'[p] = outcome[p]
  BY <1>1, <1>4 DEF Issue, On, TypeOK
<1>5. ASSUME NEW p \in Pages
      PROVE  /\ Live(p)' => /\ holder'[p] = attempts'[p]
                            /\ outcome'[p][holder'[p]] = "running"
             /\ \A n \in Attempts : n > attempts'[p] => outcome'[p][n] = "unissued"
  <2>1. CASE p \in S
    <3>1. \A n \in Attempts : n > attempts'[p] => n > attempts[p]
                                                /\ n # attempts[p] + 1
      BY <2>1, <1>3 DEF Attempts
    <3> QED
      BY <2>1, <1>3, <3>1 DEF LiveLeaseIsRunning
  <2>2. CASE p \notin S
    BY <2>2, <1>2, <1>4 DEF LiveLeaseIsRunning, Live
  <2> QED
    BY <2>1, <2>2
<1>6. ClosedStaysClosed
  <2> SUFFICES ASSUME NEW p \in Pages, NEW n \in Attempts,
                      outcome[p][n] \in Finished \cup {"lease_lost"}
               PROVE  outcome'[p][n] = outcome[p][n]
    BY DEF ClosedStaysClosed
  <2>1. CASE p \in S
    <3>1. n # attempts[p] + 1
      BY <2>1, <1>3 DEF Finished
    <3> QED
      BY <2>1, <1>3, <3>1
  <2>2. CASE p \notin S
    BY <2>2, <1>4
  <2> QED
    BY <2>1, <2>2
<1> QED
  BY <1>5, <1>6 DEF LiveLeaseIsRunning

\* A renewal moves the expiry of a lease that is live, and nothing else of it.
LEMMA RenewalKeepsLease ==
  ASSUME TypeOK, LiveLeaseIsRunning, NEW p \in Pages, NEW n \in Attempts,
         Owned(p, n),
         expires' = [expires EXCEPT ![p] = now + LeaseDuration],
         UNCHANGED <<now, attempts, holder, outcome>>
  PROVE  LiveLeaseIsRunning' /\ ClosedStaysClosed
<1>1. \A q \in Pages : Live(q)' => Live(q)
  BY DEF Live, Owned, TypeOK, Attempts
<1> QED
  BY <1>1 DEF LiveLeaseIsRunning, ClosedStaysClosed

\* _mark_lease_lost never closes the attempt of a live lease.
LEMMA LossKeepsLease ==
  ASSUME TypeOK, LiveLeaseIsRunning, NEW p \in Pages, NEW n \in Attempts,
         MarkLost(p, n),
         UNCHANGED <<now, attempts, holder, expires>>
  PROVE  LiveLeaseIsRunning' /\ ClosedStaysClosed
<1>1. \A q \in Pages : Live(q)' <=> Live(q)
  BY DEF Live
<1>2. \A q \in Pages, m \in Attempts :
        outcome'[q][m] # outcome[q][m]
          => /\ q = p /\ m = n
             /\ outcome[p][n] = "running"
             /\ ~Owned(p, n)
  BY DEF MarkLost, TypeOK
<1>3. \A q \in Pages : Live(q) => Owned(q, holder[q]) /\ holder[q] \in Attempts
  BY DEF Live, Owned, TypeOK, Attempts
<1> QED
  BY <1>1, <1>2, <1>3 DEF LiveLeaseIsRunning, ClosedStaysClosed, Finished

\* complete and fail close an attempt and clear its lease in one step.
LEMMA ClosingKeepsLease ==
  ASSUME TypeOK, LiveLeaseIsRunning, NEW p \in Pages, NEW n \in Attempts, NEW o,
         Owned(p, n), FinishAttempt(p, n, o), ClearLease(p),
         UNCHANGED <<now, attempts>>
  PROVE  LiveLeaseIsRunning' /\ ClosedStaysClosed
<1>1. /\ holder[p] = n /\ n = attempts[p]
      /\ outcome[p][n] = "running"
  BY DEF Owned, LiveLeaseIsRunning, Live, Attempts
<1>2. \A q \in Pages : Live(q)' => q # p /\ Live(q) /\ holder'[q] = holder[q]
  BY DEF Live, ClearLease, TypeOK
<1>3. \A q \in Pages, m \in Attempts :
        ~(q = p /\ m = n) => outcome'[q][m] = outcome[q][m]
  BY DEF FinishAttempt, TypeOK
<1>4. \A q \in Pages : Live(q) => holder[q] \in Attempts
  BY DEF Live, TypeOK, Attempts
<1>5. n \in Nat /\ attempts[p] \in Nat
  BY DEF Attempts, TypeOK
<1> QED
  BY <1>1, <1>2, <1>3, <1>4, <1>5
     DEF LiveLeaseIsRunning, ClosedStaysClosed, Finished

\* Leases only expire as time passes.
LEMMA TimeKeepsLease ==
  ASSUME TypeOK, LiveLeaseIsRunning,
         now' \in Nat, now' >= now,
         UNCHANGED <<attempts, holder, expires, outcome>>
  PROVE  LiveLeaseIsRunning' /\ ClosedStaysClosed
<1>1. \A q \in Pages : Live(q)' => Live(q)
  BY DEF Live, TypeOK
<1> QED
  BY <1>1 DEF LiveLeaseIsRunning, ClosedStaysClosed

\* Every action keeps live leases running and closed attempts closed.
LEMMA LeaseStep ==
  ASSUME ConstantsAssumption, TypeOK, LiveLeaseIsRunning, [Next]_vars
  PROVE  LiveLeaseIsRunning' /\ ClosedStaysClosed
<1>1. ASSUME NEW w \in Workers, ClaimDue(w)
      PROVE  LiveLeaseIsRunning' /\ ClosedStaysClosed
  BY <1>1, ClaimKeepsLease
<1>2. ASSUME UNCHANGED <<now, lease, outcome>>
      PROVE  LiveLeaseIsRunning' /\ ClosedStaysClosed
  BY <1>2, TimeKeepsLease DEF lease, TypeOK
<1>3. ASSUME NEW p \in Pages, NEW n \in Attempts, NEW from, NEW to,
             RenewAndGo(p, n, from, to)
      PROVE  LiveLeaseIsRunning' /\ ClosedStaysClosed
  BY <1>3, RenewalKeepsLease, LossKeepsLease DEF RenewAndGo
<1>4. ASSUME NEW p \in Pages, NEW n \in Attempts, Crawl(p, n)
      PROVE  LiveLeaseIsRunning' /\ ClosedStaysClosed
  <2>1. CASE \/ RenewBeforeFetch(p, n)
             \/ RenewBeforeParse(p, n)
             \/ RenewBeforePersist(p, n)
             \/ RenewBeforeIngest(p, n)
    BY <2>1, <1>3
       DEF RenewBeforeFetch, RenewBeforeParse, RenewBeforePersist,
           RenewBeforeIngest
  <2>2. CASE Fetch(p, n) \/ Persist(p, n) \/ Ingest(p, n) \/ Raise(p, n)
    BY <2>2, <1>2 DEF Fetch, Persist, Ingest, Raise
  <2>3. CASE SettleRenew(p, n)
    BY <2>3, RenewalKeepsLease, LossKeepsLease DEF SettleRenew
  <2>4. CASE Complete(p, n)
    BY <2>4, ClosingKeepsLease, LossKeepsLease DEF Complete, Rejected
  <2>5. CASE Fail(p, n)
    <3>1. CASE Rejected(p, n)
      BY <2>5, <3>1, LossKeepsLease DEF Fail, Rejected
    <3>2. CASE ~Rejected(p, n)
      <4>1. /\ Owned(p, n)
            /\ ClearLease(p)
            /\ UNCHANGED <<now, attempts>>
            /\ \E o : FinishAttempt(p, n, o)
        BY <2>5, <3>2, Zenon DEF Fail
      <4> QED
        BY <4>1, ClosingKeepsLease
    <3> QED
      BY <3>1, <3>2
  <2> QED
    BY <1>4, <2>1, <2>2, <2>3, <2>4, <2>5 DEF Crawl
<1>5. CASE \E urls \in SUBSET Pages, ahead \in 0..ScheduleAhead :
             Schedule(urls, now + ahead)
  BY <1>5, <1>2 DEF Schedule
<1>6. CASE \E p \in Pages : LiveFetched(p) \/ LiveFailed(p) \/ Edit(p)
  BY <1>6, <1>2 DEF LiveFetched, LiveFailed, Edit
<1>7. CASE \E w \in Workers : Abandon(w)
  BY <1>7, <1>2 DEF Abandon
<1>8. CASE Tick
  BY <1>8, TimeKeepsLease DEF Tick, lease, TypeOK
<1>9. CASE UNCHANGED vars
  BY <1>9, <1>2 DEF vars
<1> QED
  BY <1>1, <1>4, <1>5, <1>6, <1>7, <1>8, <1>9 DEF Next

\* A live lease is always that of the latest claim, and its attempt is open:
\* no late report of a replaced worker ever closes it.
THEOREM LiveLease == Spec => []LiveLeaseIsRunning
<1>1. Init => LiveLeaseIsRunning
  BY DEF Init, LiveLeaseIsRunning, Live
<1>2. TypeOK /\ LiveLeaseIsRunning /\ [Next]_vars => LiveLeaseIsRunning'
  BY LeaseStep, ConstantsAssumption
<1> QED
  BY <1>1, <1>2, TypeCorrect, PTL DEF Spec

\* Once an attempt row is closed, as finished or as lease_lost, no worker
\* ever rewrites it.
THEOREM AuditTrail == Spec => AttemptClosedOnce
<1>1. TypeOK /\ LiveLeaseIsRunning /\ [Next]_vars => [ClosedStaysClosed]_vars
  BY LeaseStep, ConstantsAssumption
<1>2. Spec => [][ClosedStaysClosed]_vars
  BY <1>1, TypeCorrect, LiveLease, PTL DEF Spec
<1> QED
  BY <1>2, PTL DEF AttemptClosedOnce, ClosedStaysClosed

-----------------------------------------------------------------------------
(* What is written back.  Without chat requests (LiveSearch) only the      *)
(* holder of a lease writes a row, so what a worker remembers of the row   *)
(* when it fetched the page is still true when it is allowed to write:     *)
(*   - the version it has seen is at least the version stored;             *)
(*   - the failure count of its claim is the count in the row, as long as  *)
(*     it stored nothing, in particular when it found the page missing.    *)

Unwritten == {"claimed", "fetch", "html", "parsed", "persist"}
Fetched   == {"html", "parsed", "persist"}

FenceInv ==
  \A p \in Pages :
    /\ stored[p] <= site[p]
    /\ \A n \in Attempts :
         /\ phase[p][n] \in Fetched
              => /\ seen[p][n] <= site[p]
                 /\ holder[p] = n => stored[p] <= seen[p][n]
         /\ holder[p] = n /\ (phase[p][n] \in Unwritten \/ result[p][n] = "missing")
              => claim[p][n].failures = failures[p]

\* A step of the crawl of claim n of page p touches that claim and that page.
LEMMA CrawlFrame ==
  ASSUME TypeOK, NEW p \in Pages, NEW n \in Attempts, Crawl(p, n)
  PROVE  /\ site' = site
         /\ \A q \in Pages : holder'[q] = holder[q] \/ holder'[q] = 0
         /\ \A q \in Pages : q # p => /\ stored'[q] = stored[q]
                                      /\ failures'[q] = failures[q]
         /\ \A q \in Pages, m \in Attempts :
              ~(q = p /\ m = n) => /\ phase'[q][m] = phase[q][m]
                                   /\ seen'[q][m] = seen[q][m]
                                   /\ claim'[q][m] = claim[q][m]
                                   /\ result'[q][m] = result[q][m]
                                   /\ outcome'[q][m] = outcome[q][m]
<1> USE DEF row, lease, Goto
<1>1. ASSUME NEW from, NEW to, RenewAndGo(p, n, from, to)
      PROVE  /\ UNCHANGED <<site, stored, failures, holder, seen, claim>>
             /\ \A q \in Pages, m \in Attempts :
                  ~(q = p /\ m = n) => /\ phase'[q][m] = phase[q][m]
                                       /\ result'[q][m] = result[q][m]
                                       /\ outcome'[q][m] = outcome[q][m]
  BY <1>1 DEF RenewAndGo, Report, MarkLost, TypeOK
<1>2. CASE \/ RenewBeforeFetch(p, n)
           \/ RenewBeforeParse(p, n)
           \/ RenewBeforePersist(p, n)
           \/ RenewBeforeIngest(p, n)
  BY <1>2, <1>1
     DEF RenewBeforeFetch, RenewBeforeParse, RenewBeforePersist,
         RenewBeforeIngest
<1>3. CASE Fetch(p, n)
  BY <1>3 DEF Fetch, Report, TypeOK
<1>4. CASE Persist(p, n)
  BY <1>4 DEF Persist, Report, TypeOK
<1>5. CASE Ingest(p, n)
  BY <1>5 DEF Ingest, Report, TypeOK
<1>9. CASE Raise(p, n)
  BY <1>9 DEF Raise, Report, TypeOK
<1>6. CASE SettleRenew(p, n)
  BY <1>6 DEF SettleRenew, MarkLost, Forget, TypeOK
<1>7. CASE Complete(p, n)
  BY <1>7 DEF Complete, Rejected, Committed, FinishAttempt, ClearLease, MarkLost, Forget,
              memory, TypeOK
<1>8. CASE Fail(p, n)
  BY <1>8 DEF Fail, Rejected, Committed, FinishAttempt, ClearLease, MarkLost, Forget,
              memory, TypeOK
<1> QED
  BY <1>2, <1>3, <1>4, <1>5, <1>6, <1>7, <1>8, <1>9 DEF Crawl

\* What a step of the crawl does to the claim it is about, as far as the row
\* and the memory of the worker have to agree.
LEMMA CrawlOwn ==
  ASSUME TypeOK, NEW p \in Pages, NEW n \in Attempts, Crawl(p, n)
  PROVE  /\ \/ stored'[p] = stored[p]
            \/ /\ phase[p][n] = "persist"
               /\ holder[p] = n
               /\ stored'[p] = seen[p][n]
         /\ phase'[p][n] \in Fetched
              => /\ stored'[p] = stored[p]
                 /\ \/ seen'[p][n] = site[p]
                    \/ phase[p][n] \in Fetched /\ seen'[p][n] = seen[p][n]
         /\ holder'[p] = n /\ (phase'[p][n] \in Unwritten \/ result'[p][n] = "missing")
              => /\ holder[p] = n
                 /\ phase[p][n] \in Unwritten \/ result[p][n] = "missing"
                 /\ claim'[p][n] = claim[p][n]
                 /\ failures'[p] = failures[p]
         /\ failures'[p] # failures[p] => holder[p] = n
<1> USE DEF row, lease, Goto, Fetched, Unwritten
<1>1. CASE RenewBeforeFetch(p, n)
  BY <1>1 DEF RenewBeforeFetch, RenewAndGo, Report, TypeOK
<1>2. CASE RenewBeforeParse(p, n)
  BY <1>2 DEF RenewBeforeParse, RenewAndGo, Report, TypeOK
<1>3. CASE RenewBeforePersist(p, n)
  BY <1>3 DEF RenewBeforePersist, RenewAndGo, Report, TypeOK
<1>4. CASE RenewBeforeIngest(p, n)
  BY <1>4 DEF RenewBeforeIngest, RenewAndGo, Report, TypeOK
<1>5. CASE Fetch(p, n)
  BY <1>5 DEF Fetch, Report, TypeOK
<1>6. CASE Persist(p, n)
  BY <1>6 DEF Persist, MayPersist, Owned, Report, TypeOK
<1>7. CASE Ingest(p, n)
  BY <1>7 DEF Ingest, Report, TypeOK
<1>11. CASE Raise(p, n)
  BY <1>11 DEF Raise, Report, TypeOK
<1>8. CASE SettleRenew(p, n)
  BY <1>8 DEF SettleRenew, Forget, TypeOK
<1>9. CASE Complete(p, n)
  BY <1>9 DEF Complete, Rejected, Committed, Owned, ClearLease, Forget, memory, TypeOK
<1>10. CASE Fail(p, n)
  <2>1. CASE Rejected(p, n)
    BY <1>10, <2>1 DEF Fail, Rejected, Owned, Forget, TypeOK
  <2>2. CASE ~Rejected(p, n)
    <3> DEFINE verdict == Verdict(result[p][n], claim[p][n].failures + 1)
    <3> HIDE DEF verdict
    <3>1. /\ Owned(p, n) /\ ClearLease(p) /\ Committed(p, n)
          /\ phase[p][n] = "settle" /\ stored' = stored
      BY <1>10, <2>2 DEF Fail, verdict
    <3>2. holder[p] = n /\ holder'[p] # n /\ phase'[p][n] \in {"gone", "settle"}
      <4>1. n # 0
        BY DEF Attempts
      <4> QED
        BY <3>1, <4>1 DEF Owned, ClearLease, Committed, Forget, memory, TypeOK
    <3> QED
      BY <3>1, <3>2
  <2> QED
    BY <2>1, <2>2
<1> QED
  BY <1>1, <1>2, <1>3, <1>4, <1>5, <1>6, <1>7, <1>8, <1>9, <1>10,
     <1>11 DEF Crawl

\* A step of a crawl keeps what the workers remember true.
LEMMA CrawlFence ==
  ASSUME TypeOK, FenceInv, NEW p \in Pages, NEW n \in Attempts, Crawl(p, n)
  PROVE  FenceInv'
<1> USE CrawlFrame, CrawlOwn
<1>1. ASSUME NEW q \in Pages
      PROVE  stored'[q] <= site'[q]
  <2>1. CASE q = p
    BY <2>1 DEF FenceInv, Fetched
  <2>2. CASE q # p
    BY <2>2 DEF FenceInv
  <2> QED
    BY <2>1, <2>2
<1>2. ASSUME NEW q \in Pages, NEW m \in Attempts, phase'[q][m] \in Fetched
      PROVE  /\ seen'[q][m] <= site'[q]
             /\ holder'[q] = m => stored'[q] <= seen'[q][m]
  <2>1. CASE q = p /\ m = n
    <3>1. \/ seen'[p][n] = site[p]
          \/ phase[p][n] \in Fetched /\ seen'[p][n] = seen[p][n]
      BY <1>2, <2>1
    <3>2. stored'[p] = stored[p] /\ site'[p] = site[p]
      BY <1>2, <2>1
    <3>3. holder'[p] = n => holder[p] = n
      BY DEF Attempts
    <3> QED
      BY <2>1, <3>1, <3>2, <3>3 DEF FenceInv, TypeOK
  <2>2. CASE ~(q = p /\ m = n)
    <3>1. /\ phase[q][m] \in Fetched
          /\ seen'[q][m] = seen[q][m]
          /\ site'[q] = site[q]
      BY <1>2, <2>2
    <3>2. holder'[q] = m => holder[q] = m /\ stored'[q] = stored[q]
      BY <2>2 DEF Attempts
    <3> QED
      BY <3>1, <3>2 DEF FenceInv
  <2> QED
    BY <2>1, <2>2
<1>3. ASSUME NEW q \in Pages, NEW m \in Attempts, holder'[q] = m,
             phase'[q][m] \in Unwritten \/ result'[q][m] = "missing"
      PROVE  claim'[q][m].failures = failures'[q]
  <2>1. CASE q = p /\ m = n
    BY <1>3, <2>1 DEF FenceInv
  <2>2. CASE ~(q = p /\ m = n)
    <3>1. /\ phase[q][m] \in Unwritten \/ result[q][m] = "missing"
          /\ claim'[q][m] = claim[q][m]
      BY <1>3, <2>2
    <3>2. holder[q] = m
      BY <1>3 DEF Attempts
    <3>3. failures'[q] = failures[q]
      BY <2>2, <3>2
    <3> QED
      BY <3>1, <3>2, <3>3 DEF FenceInv
  <2> QED
    BY <2>1, <2>2
<1> QED
  BY <1>1, <1>2, <1>3 DEF FenceInv

\* A claim replaces only leases that have expired, and starts with a true
\* memory of the row.
LEMMA ClaimFence ==
  ASSUME ConstantsAssumption, TypeOK, FenceInv, NEW w \in Workers, ClaimDue(w)
  PROVE  FenceInv'
<1>1. PICK S \in SUBSET Pages :
        /\ \A p \in S : attempts[p] < MaxAttempts /\ ~Live(p)
        /\ holder' = [p \in Pages |->
                        IF p \in S THEN attempts[p] + 1 ELSE holder[p]]
        /\ claim' = Issue(claim, S,
                          [p \in Pages |-> [worker   |-> w,
                                            expires  |-> now + LeaseDuration,
                                            failures |-> failures[p],
                                            hash     |-> stored[p]]])
        /\ phase' = Issue(phase, S, [p \in Pages |-> "claimed"])
  BY ClaimTakes, Zenon
<1>2. UNCHANGED <<site, stored, failures, seen, result>>
  BY DEF ClaimDue
<1>3. ASSUME NEW p \in Pages, p \notin S
      PROVE  /\ holder'[p] = holder[p]
             /\ claim'[p] = claim[p]
             /\ phase'[p] = phase[p]
  BY <1>1, <1>3 DEF Issue
<1>4. ASSUME NEW p \in Pages, p \in S
      PROVE  /\ attempts[p] + 1 \in Attempts
             /\ holder'[p] = attempts[p] + 1
             /\ claim'[p][attempts[p] + 1].failures = failures[p]
             /\ phase'[p][attempts[p] + 1] = "claimed"
             /\ \A n \in Attempts : n # attempts[p] + 1
                  => /\ claim'[p][n] = claim[p][n]
                     /\ phase'[p][n] = phase[p][n]
  <2>1. attempts[p] + 1 \in Attempts
    BY <1>1, <1>4, SMTT(40) DEF TypeOK, ConstantsAssumption, Attempts
  <2>2. /\ claim'[p] = [claim[p] EXCEPT ![attempts[p] + 1] =
                          [worker   |-> w,
                           expires  |-> now + LeaseDuration,
                           failures |-> failures[p],
                           hash     |-> stored[p]]]
        /\ phase'[p] = [phase[p] EXCEPT ![attempts[p] + 1] = "claimed"]
    BY <1>1, <1>4 DEF Issue
  <2>3. /\ claim[p] \in [Attempts -> ClaimRecords]
        /\ phase[p] \in [Attempts -> Phases]
    BY DEF TypeOK
  <2>4. /\ claim'[p][attempts[p] + 1].failures = failures[p]
        /\ phase'[p][attempts[p] + 1] = "claimed"
    BY <2>1, <2>2, <2>3
  <2>5. \A n \in Attempts : n # attempts[p] + 1
          => claim'[p][n] = claim[p][n] /\ phase'[p][n] = phase[p][n]
    BY <2>2, <2>3
  <2> QED
    BY <1>1, <1>4, <2>1, <2>4, <2>5
<1>5. "claimed" \notin Fetched
  BY DEF Fetched
<1> QED
  BY <1>2, <1>3, <1>4, <1>5 DEF FenceInv

\* Every action, without chat requests, keeps what the workers remember true.
LEMMA FenceStep ==
  ASSUME ConstantsAssumption, LiveSearch = FALSE, TypeOK, FenceInv, [Next]_vars
  PROVE  FenceInv'
<1>1. ASSUME NEW w \in Workers, ClaimDue(w)
      PROVE  FenceInv'
  BY <1>1, ClaimFence
<1>2. ASSUME NEW w \in Workers, Abandon(w)
      PROVE  FenceInv'
  <2>1. UNCHANGED <<site, stored, failures, holder>>
    BY <1>2 DEF Abandon, row, lease
  <2>2. \A p \in Pages, n \in Attempts :
          \/ phase'[p][n] = "gone" /\ result'[p][n] = "none"
          \/ /\ phase'[p][n] = phase[p][n]
             /\ seen'[p][n] = seen[p][n]
             /\ claim'[p][n] = claim[p][n]
             /\ result'[p][n] = result[p][n]
    BY <1>2 DEF Abandon
  <2> QED
    BY <2>1, <2>2 DEF FenceInv, Fetched, Unwritten
<1>3. ASSUME NEW p \in Pages, NEW n \in Attempts, Crawl(p, n)
      PROVE  FenceInv'
  BY <1>3, CrawlFence
<1>4. ASSUME UNCHANGED <<site, stored, failures, holder, memory>>
      PROVE  FenceInv'
  BY <1>4 DEF FenceInv, memory
<1>5. ASSUME NEW p \in Pages, Edit(p)
      PROVE  FenceInv'
  <2>1. UNCHANGED <<stored, failures, holder, claim, phase, seen, result>>
    BY <1>5 DEF Edit, row, lease, memory
  <2>2. \A q \in Pages : site[q] <= site'[q] /\ site[q] \in Nat /\ site'[q] \in Nat
    BY <1>5 DEF Edit, TypeOK
  <2>3. \A q \in Pages : /\ stored[q] \in Nat
                         /\ \A n \in Attempts : seen[q][n] \in Nat
    BY DEF TypeOK
  <2> QED
    BY <2>1, <2>2, <2>3 DEF FenceInv
<1>6. CASE \E urls \in SUBSET Pages, ahead \in 0..ScheduleAhead :
             Schedule(urls, now + ahead)
  BY <1>6, <1>4 DEF Schedule, lease
<1>7. CASE Tick \/ UNCHANGED vars
  BY <1>7, <1>4 DEF Tick, vars, row, lease
<1>8. \A p \in Pages : ~LiveFetched(p) /\ ~LiveFailed(p)
  BY DEF LiveFetched, LiveFailed
<1> QED
  BY <1>1, <1>2, <1>3, <1>5, <1>6, <1>7, <1>8 DEF Next

\* Between crawl workers what a worker remembers of a row it holds is true.
THEOREM FenceCorrect ==
  ASSUME LiveSearch = FALSE
  PROVE  Spec => []FenceInv
<1>1. Init => FenceInv
  BY DEF Init, FenceInv, Fetched, Unwritten, Attempts
<1>2. TypeOK /\ FenceInv /\ [Next]_vars => FenceInv'
  BY FenceStep, ConstantsAssumption
<1> QED
  BY <1>1, <1>2, TypeCorrect, PTL DEF Spec

StoredGrows == \A p \in Pages : stored'[p] >= stored[p]

\* No crawl worker, however long it stalled between its fetch and its write,
\* replaces a stored version by an older one.
THEOREM NoLostUpdate ==
  ASSUME LiveSearch = FALSE
  PROVE  Spec => StoredNeverRegresses
<1>1. TypeOK /\ FenceInv /\ [Next]_vars => [StoredGrows]_vars
  <2> SUFFICES ASSUME TypeOK, FenceInv, Next
               PROVE  StoredGrows
    BY DEF vars
  <2>1. ASSUME NEW p \in Pages, NEW n \in Attempts, Crawl(p, n)
        PROVE  StoredGrows
    <3>1. \A q \in Pages : stored[q] \in Nat /\ seen[q][n] \in Nat
      BY DEF TypeOK
    <3>2. \/ stored'[p] = stored[p]
          \/ /\ phase[p][n] = "persist"
             /\ holder[p] = n
             /\ stored'[p] = seen[p][n]
      BY <2>1, CrawlOwn
    <3>3. stored'[p] >= stored[p]
      BY <3>1, <3>2 DEF FenceInv, Fetched
    <3>4. \A q \in Pages : q # p => stored'[q] = stored[q]
      BY <2>1, CrawlFrame
    <3> QED
      BY <3>1, <3>3, <3>4 DEF StoredGrows
  <2>2. ASSUME UNCHANGED stored
        PROVE  StoredGrows
    BY <2>2 DEF StoredGrows, TypeOK
  <2>3. CASE \E w \in Workers : ClaimDue(w) \/ Abandon(w)
    BY <2>2, <2>3 DEF ClaimDue, Abandon, row
  <2>4. CASE \E urls \in SUBSET Pages, ahead \in 0..ScheduleAhead :
               Schedule(urls, now + ahead)
    BY <2>2, <2>4 DEF Schedule
  <2>5. CASE \E p \in Pages : LiveFetched(p) \/ LiveFailed(p) \/ Edit(p)
    BY <2>2, <2>5 DEF LiveFetched, LiveFailed, Edit, row
  <2>6. CASE Tick
    BY <2>2, <2>6 DEF Tick, row
  <2> QED
    BY <2>1, <2>3, <2>4, <2>5, <2>6 DEF Next
<1>2. Spec => [][StoredGrows]_vars
  BY <1>1, TypeCorrect, FenceCorrect, PTL DEF Spec
<1> QED
  BY <1>2, PTL DEF StoredNeverRegresses, StoredGrows

GoneOnlyConfirmed ==
  \A p \in Pages, n \in Attempts :
    /\ outcome[p][n] # outcome'[p][n]
    /\ outcome'[p][n] = "excluded"
    /\ result[p][n] = "missing"
    => failures'[p] >= NotFoundAfter

\* The step that closes an attempt as excluded is Fail, by the holder.
LEMMA ExcludedByFail ==
  ASSUME TypeOK, NEW p \in Pages, NEW n \in Attempts, Crawl(p, n),
         outcome[p][n] # outcome'[p][n],
         outcome'[p][n] = "excluded"
  PROVE  /\ Fail(p, n)
         /\ Owned(p, n)
         /\ Verdict(result[p][n], claim[p][n].failures + 1) = "excluded"
<1> USE DEF row, lease
<1>1. ~MarkLost(p, n)
  BY DEF MarkLost, TypeOK
<1>2. outcome' # outcome
  OBVIOUS
<1>3. CASE \/ RenewBeforeFetch(p, n)
           \/ RenewBeforeParse(p, n)
           \/ RenewBeforePersist(p, n)
           \/ RenewBeforeIngest(p, n)
           \/ SettleRenew(p, n)
  BY <1>1, <1>2, <1>3
     DEF RenewBeforeFetch, RenewBeforeParse, RenewBeforePersist,
         RenewBeforeIngest, RenewAndGo, SettleRenew
<1>4. CASE Fetch(p, n) \/ Persist(p, n) \/ Ingest(p, n) \/ Raise(p, n)
  BY <1>2, <1>4 DEF Fetch, Persist, Ingest, Raise
<1>5. CASE Complete(p, n)
  <2>1. FinishAttempt(p, n, "success")
    BY <1>1, <1>5 DEF Complete, Rejected
  <2> QED
    BY <2>1 DEF FinishAttempt, TypeOK
<1>6. CASE Fail(p, n)
  <2> DEFINE verdict == Verdict(result[p][n], claim[p][n].failures + 1)
  <2>1. /\ Owned(p, n)
        /\ \/ FinishAttempt(p, n, verdict)
           \/ FinishAttempt(p, n, "failed_transient")
    BY <1>1, <1>6 DEF Fail, Rejected
  <2>2. outcome'[p][n] \in {verdict, "failed_transient"}
    BY <2>1 DEF FinishAttempt, TypeOK
  <2> QED
    BY <1>6, <2>1, <2>2
<1> QED
  BY <1>3, <1>4, <1>5, <1>6 DEF Crawl

\* A page is given up as not found only on as many consecutive failures as
\* the policy asks for, counted in the row and not only in the claim.
THEOREM GoneConfirmed ==
  ASSUME LiveSearch = FALSE
  PROVE  Spec => GoneIsConfirmed
<1>1. TypeOK /\ FenceInv /\ [Next]_vars => [GoneOnlyConfirmed]_vars
  <2> SUFFICES ASSUME TypeOK, FenceInv, Next,
                      NEW p \in Pages, NEW n \in Attempts,
                      outcome[p][n] # outcome'[p][n],
                      outcome'[p][n] = "excluded",
                      result[p][n] = "missing"
               PROVE  failures'[p] >= NotFoundAfter
    BY DEF GoneOnlyConfirmed, vars
  <2>1. CASE Crawl(p, n)
    <3>1. /\ Fail(p, n)
          /\ holder[p] = n
          /\ Verdict("missing", claim[p][n].failures + 1) = "excluded"
      BY <2>1, ExcludedByFail DEF Owned
    <3>2. claim[p][n].failures + 1 >= NotFoundAfter
      BY <3>1 DEF Verdict
    <3>3. claim[p][n].failures = failures[p]
      BY <3>1 DEF FenceInv
    <3>4. failures' = [failures EXCEPT ![p] = @ + 1]
      BY <2>1, ExcludedByFail DEF Fail, Rejected
    <3> QED
      BY <3>2, <3>3, <3>4 DEF TypeOK
  <2>2. ASSUME NEW q \in Pages, NEW m \in Attempts, Crawl(q, m),
               ~(q = p /\ m = n)
        PROVE  FALSE
    BY <2>2, CrawlFrame
  <2>3. ASSUME NEW w \in Workers, ClaimDue(w)
        PROVE  FALSE
    <3>1. PICK S \in SUBSET Pages :
            /\ \A q \in S : attempts[q] < MaxAttempts /\ ~Live(q)
            /\ outcome' = Issue(outcome, S, [q \in Pages |-> "running"])
      BY <2>3, ClaimTakes, Zenon
    <3>2. \/ outcome'[p] = outcome[p]
          \/ outcome'[p] = [outcome[p] EXCEPT ![attempts[p] + 1] = "running"]
      BY <3>1 DEF Issue
    <3>3. outcome[p] \in [Attempts -> Outcomes]
      BY DEF TypeOK
    <3> QED
      BY <3>2, <3>3
  <2>4. outcome' # outcome
    OBVIOUS
  <2> QED
    BY <2>1, <2>2, <2>3, <2>4
       DEF Next, Abandon, Schedule, LiveFetched, LiveFailed, Edit, Tick
<1>2. Spec => [][GoneOnlyConfirmed]_vars
  BY <1>1, TypeCorrect, FenceCorrect, PTL DEF Spec
<1> QED
  BY <1>2, PTL DEF GoneIsConfirmed, GoneOnlyConfirmed

-----------------------------------------------------------------------------
(* The cap of a host.  Only a claim makes a lease live, and it takes of    *)
(* each host as many pages as are left under the cap: the pages it takes   *)
(* are those that fewer candidates of the host come before.  And only an   *)
(* active page is leased, so that a page found again adds no lease.        *)

LeasedIsActive == \A p \in Pages : holder[p] # 0 => active[p]

CapInv == LeasedIsActive /\ HostCapHeld

Busy(h) == {p \in Pages : HostOf[p] = h /\ active[p] /\ Live(p)}

\* pred[p] is what comes before p in a strict order of C.
Orders(pred, C) ==
  /\ \A p \in C : p \notin pred[p] /\ pred[p] \subseteq C
  /\ \A p, q \in C : p # q => p \in pred[q] \/ q \in pred[p]
  /\ \A p, q \in C : p \in pred[q] => pred[p] \subseteq pred[q]

\* Where pred[p] is what comes before p in a strict order of a finite set, every part of the
\* set that is not empty has a last element.
LEMMA LastOne ==
  ASSUME NEW C, IsFiniteSet(C), NEW pred,
         Orders(pred, C)
  PROVE  \A T \in SUBSET C : T # {} => \E m \in T : T \subseteq pred[m] \cup {m}
<1> SUFFICES ASSUME NEW T \in SUBSET C, T # {}
             PROVE  \E m \in T : T \subseteq pred[m] \cup {m}
  OBVIOUS
<1> DEFINE Rest(p) == C \ pred[p]
           Rests   == {Rest(p) : p \in T}
<1>1. Rests \subseteq FiniteSubsetsOf(C) /\ Rests # {}
  <2>1. \A p \in T : Rest(p) \in SUBSET C /\ IsFiniteSet(Rest(p))
    BY FS_Subset
  <2> QED
    BY <2>1 DEF FiniteSubsetsOf
<1>2. PICK x \in Rests : \A y \in Rests : <<y, x>> \notin StrictSubsetOrdering(C)
  BY <1>1, FS_StrictSubsetOrderingWellFounded, WFMin, Zenon
<1>3. PICK m \in T : x = Rest(m)
  BY <1>2
<1>4. ASSUME NEW q \in T, q # m
      PROVE  q \in pred[m]
  <2>1. SUFFICES ASSUME m \in pred[q] PROVE FALSE
    BY <1>4 DEF Orders
  <2>2. Rest(q) \subseteq Rest(m) /\ m \in Rest(m) /\ m \notin Rest(q)
    BY <2>1 DEF Orders
  <2>3. Rest(q) \in SUBSET C /\ Rest(m) \in SUBSET C /\ Rest(q) # Rest(m)
    BY <2>2
  <2>4. <<Rest(q), Rest(m)>> \in StrictSubsetOrdering(C)
    BY <2>2, <2>3 DEF StrictSubsetOrdering
  <2> QED
    BY <1>2, <1>3, <2>4
<1> QED
  BY <1>4

\* And no more than k elements of it have fewer than k before them.
LEMMA FewAreFirst ==
  ASSUME NEW C, IsFiniteSet(C), NEW k \in Nat, NEW pred,
         Orders(pred, C),
         NEW T \in SUBSET C,
         \A p \in T : 1 + Cardinality(pred[p]) <= k
  PROVE  IsFiniteSet(T) /\ Cardinality(T) <= k
<1>1. IsFiniteSet(T) /\ Cardinality(T) \in Nat
  BY FS_Subset, FS_CardinalityType
<1>2. CASE T = {}
  BY <1>1, <1>2, FS_EmptySet
<1>3. CASE T # {}
  <2>1. PICK m \in T : T \subseteq pred[m] \cup {m}
    BY <1>3, LastOne, SMT
  <2>2. IsFiniteSet(pred[m]) /\ m \notin pred[m]
    BY FS_Subset DEF Orders
  <2>3. Cardinality(pred[m]) \in Nat
    BY <2>2, FS_CardinalityType
  <2>4. /\ IsFiniteSet(pred[m] \cup {m})
        /\ Cardinality(pred[m] \cup {m}) = Cardinality(pred[m]) + 1
    BY <2>2, FS_AddElement, Zenon
  <2>5. Cardinality(T) <= Cardinality(pred[m] \cup {m})
    BY <2>1, <2>4, FS_Subset
  <2> QED
    BY <1>1, <2>3, <2>4, <2>5
<1> QED
  BY <1>2, <1>3

\* What due_pages_statement takes of a host fits into the slots it has left.
LEMMA DueFits ==
  ASSUME ConstantsAssumption, TableAssumption, TypeOK, HostCapHeld,
         NEW urls \in SUBSET Pages, NEW h \in Hosts,
         NEW S, S = {p \in Due(urls) : HostOf[p] = h}
  PROVE  /\ IsFiniteSet(Busy(h) \cup S)
         /\ Cardinality(Busy(h) \cup S) <= ActiveCap
<1> DEFINE C       == {p \in Candidates(urls) : HostOf[p] = h}
           pred    == [p \in C |-> {q \in C : Before(q, p)}]
           free    == ActiveCap - Cardinality(Busy(h))
<1>1. /\ IsFiniteSet(Busy(h)) /\ IsFiniteSet(C)
      /\ Cardinality(Busy(h)) \in Nat
      /\ Busy(h) \in SUBSET Pages /\ C \in SUBSET Pages
  <2>1. Busy(h) \in SUBSET Pages /\ C \in SUBSET Pages
    BY DEF Busy, Candidates
  <2> QED
    BY <2>1, FS_Subset, FS_CardinalityType, TableAssumption
<1>2. free \in Nat /\ Cardinality(Busy(h)) + free = ActiveCap
  BY <1>1 DEF HostCapHeld, Busy, ConstantsAssumption
<1>3. ASSUME NEW p \in C
      PROVE  BusyPages(p) = Busy(h)
  BY DEF BusyPages, Busy, Candidates
<1>4. Orders(pred, C)
  <2>1. \A p \in C : /\ Priority[p] \in Nat /\ failures[p] \in Nat
                     /\ IdOrder[p] \in Nat /\ dueAt[p] \in Int
    BY <1>1 DEF TypeOK, ConstantsAssumption, Never
  <2>2. \A p \in C : ~Before(p, p)
    BY <2>1 DEF Before
  <2>3. \A p, q \in C : p # q => Before(p, q) \/ Before(q, p)
    BY <1>1, <2>1, TableAssumption DEF Before
  <2>4. \A p, q, r \in C : Before(r, p) /\ Before(p, q) => Before(r, q)
    BY <2>1 DEF Before
  <2> HIDE DEF C
  <2> QED
    BY <2>2, <2>3, <2>4 DEF Orders
<1>5. S \in SUBSET C
  BY DEF Due
<1>6. ASSUME NEW p \in S
      PROVE  1 + Cardinality(pred[p]) <= free
  <2>1. p \in C
    BY <1>5
  <2>2. HostRank(p, Candidates(urls)) = 1 + Cardinality(pred[p])
    <3>1. {q \in Candidates(urls) : HostOf[q] = HostOf[p] /\ Before(q, p)} = pred[p]
      BY <2>1
    <3> QED
      BY <3>1 DEF HostRank
  <2>3. HostRank(p, Candidates(urls)) <= HostSlots(p)
    BY DEF Due
  <2>4. HostSlots(p) = IF free < DueCap THEN free ELSE DueCap
    BY <1>3, <2>1 DEF HostSlots
  <2>5. /\ IsFiniteSet(pred[p])
        /\ Cardinality(pred[p]) \in Nat
    BY <1>1, <2>1, FS_Subset, FS_CardinalityType
  <2> HIDE DEF C, pred, free
  <2> QED
    BY <1>2, <2>2, <2>3, <2>4, <2>5 DEF ConstantsAssumption
<1> HIDE DEF C, pred, free
<1>7. IsFiniteSet(S) /\ Cardinality(S) <= free
  BY <1>1, <1>2, <1>4, <1>5, <1>6, FewAreFirst
<1>8. /\ IsFiniteSet(Busy(h) \cup S)
      /\ Cardinality(Busy(h) \cup S)
           = Cardinality(Busy(h)) + Cardinality(S) - Cardinality(Busy(h) \cap S)
  BY <1>1, <1>7, FS_Union
<1>9. Cardinality(Busy(h) \cap S) \in Nat /\ Cardinality(S) \in Nat
  <2>1. IsFiniteSet(Busy(h) \cap S)
    BY <1>7, FS_Subset
  <2> QED
    BY <2>1, <1>7, FS_CardinalityType
<1> QED
  BY <1>1, <1>2, <1>7, <1>8, <1>9 DEF ConstantsAssumption

\* A claim keeps every host within its cap.
LEMMA ClaimKeepsCap ==
  ASSUME TypeOK, CapInv, NEW w \in Workers, ClaimDue(w)
  PROVE  CapInv'
<1>1. PICK urls \in SUBSET Pages :
        /\ attempts' = [p \in Pages |-> attempts[p] + IF p \in Due(urls) THEN 1 ELSE 0]
        /\ holder' = [p \in Pages |-> IF p \in Due(urls) THEN attempts[p] + 1
                                                       ELSE holder[p]]
        /\ expires' = On(expires, Due(urls), now + LeaseDuration)
  BY Zenon DEF ClaimDue
<1>2. UNCHANGED <<now, active>>
  BY DEF ClaimDue
<1>3. \A p \in Due(urls) : active[p]
  BY DEF Due, Candidates
<1>4. LeasedIsActive'
  BY <1>1, <1>2, <1>3 DEF CapInv, LeasedIsActive
<1>5. ASSUME NEW h \in Hosts
      PROVE  Cardinality(Busy(h)') <= ActiveCap
  <2> DEFINE S == {p \in Due(urls) : HostOf[p] = h}
  <2>1. Busy(h)' \in SUBSET (Busy(h) \cup S)
    BY <1>1, <1>2 DEF Busy, Live, On
  <2>2. /\ IsFiniteSet(Busy(h) \cup S)
        /\ Cardinality(Busy(h) \cup S) <= ActiveCap
    BY DueFits, ConstantsAssumption, TableAssumption DEF CapInv
  <2>3. /\ Cardinality(Busy(h)') <= Cardinality(Busy(h) \cup S)
        /\ Cardinality(Busy(h)') \in Nat
        /\ Cardinality(Busy(h) \cup S) \in Nat
    BY <2>1, <2>2, FS_Subset, FS_CardinalityType
  <2> QED
    BY <2>2, <2>3, ConstantsAssumption DEF ConstantsAssumption
<1> QED
  BY <1>4, <1>5 DEF CapInv, HostCapHeld, Busy

\* A step that makes no lease live, and leaves no lease to a page that is
\* not active, keeps every host within its cap.
LEMMA FewerKeepCap ==
  ASSUME TypeOK, CapInv,
         \A p \in Pages : Live(p)' => Live(p),
         \A p \in Pages : holder'[p] # 0 => active'[p]
  PROVE  CapInv'
<1>1. ASSUME NEW h \in Hosts
      PROVE  Cardinality(Busy(h)') <= ActiveCap
  <2>1. Busy(h)' \in SUBSET Busy(h)
    BY DEF Busy, CapInv, LeasedIsActive, Live
  <2>2. Busy(h) \in SUBSET Pages
    BY DEF Busy
  <2>3. /\ Cardinality(Busy(h)') <= Cardinality(Busy(h))
        /\ Cardinality(Busy(h)') \in Nat
        /\ Cardinality(Busy(h)) \in Nat
    BY <2>1, <2>2, FS_Subset, FS_CardinalityType, TableAssumption
  <2>4. Cardinality(Busy(h)) <= ActiveCap
    BY DEF CapInv, HostCapHeld, Busy
  <2> QED
    BY <2>3, <2>4, ConstantsAssumption DEF ConstantsAssumption
<1> QED
  BY <1>1 DEF CapInv, LeasedIsActive, HostCapHeld, Busy

\* A step of a crawl keeps every host within its cap.
LEMMA CrawlKeepsCap ==
  ASSUME TypeOK, CapInv, NEW p \in Pages, NEW n \in Attempts, Crawl(p, n)
  PROVE  CapInv'
<1>1. ASSUME UNCHANGED <<now, active, lease>>
      PROVE  CapInv'
  BY <1>1, FewerKeepCap DEF lease, CapInv, LeasedIsActive, Live
<1>2. ASSUME Owned(p, n),
             expires' = [expires EXCEPT ![p] = now + LeaseDuration],
             UNCHANGED <<now, active, holder>>
      PROVE  CapInv'
  <2>1. \A q \in Pages : Live(q)' => Live(q)
    BY <1>2 DEF Live, Owned, TypeOK, Attempts
  <2> QED
    BY <1>2, <2>1, FewerKeepCap DEF CapInv, LeasedIsActive
<1>3. ASSUME ClearLease(p), now' = now,
             \A q \in Pages : q # p => active'[q] = active[q]
      PROVE  CapInv'
  <2>1. /\ holder'[p] = 0
        /\ \A q \in Pages : q # p => /\ holder'[q] = holder[q]
                                      /\ expires'[q] = expires[q]
    BY <1>3 DEF ClearLease, TypeOK
  <2>2. \A q \in Pages : Live(q)' => Live(q)
    BY <1>3, <2>1 DEF Live
  <2> QED
    BY <1>3, <2>1, <2>2, FewerKeepCap DEF CapInv, LeasedIsActive
<1>4. ASSUME NEW from, NEW to, RenewAndGo(p, n, from, to)
      PROVE  CapInv'
  BY <1>4, <1>1, <1>2 DEF RenewAndGo, row, lease
<1>5. CASE \/ RenewBeforeFetch(p, n)
           \/ RenewBeforeParse(p, n)
           \/ RenewBeforePersist(p, n)
           \/ RenewBeforeIngest(p, n)
  BY <1>5, <1>4
     DEF RenewBeforeFetch, RenewBeforeParse, RenewBeforePersist,
         RenewBeforeIngest
<1>6. CASE Fetch(p, n) \/ Persist(p, n) \/ Ingest(p, n) \/ Raise(p, n)
  BY <1>6, <1>1 DEF Fetch, Persist, Ingest, Raise, row
<1>7. CASE SettleRenew(p, n)
  BY <1>7, <1>1, <1>2 DEF SettleRenew, row, lease
<1>8. CASE Complete(p, n)
  BY <1>8, <1>1, <1>3 DEF Complete, Rejected, row, lease
<1>9. CASE Fail(p, n)
  <2>1. CASE Rejected(p, n)
    BY <1>9, <2>1, <1>1 DEF Fail, Rejected, row, lease
  <2>2. CASE ~Rejected(p, n)
    <3>1. /\ ClearLease(p) /\ now' = now
          /\ active' = active \/ active' = [active EXCEPT ![p] = FALSE]
      BY <1>9, <2>2, Zenon DEF Fail
    <3> QED
      BY <3>1, <1>3 DEF TypeOK
  <2> QED
    BY <2>1, <2>2
<1> QED
  BY <1>5, <1>6, <1>7, <1>8, <1>9 DEF Crawl

\* Every action keeps every host within its cap.
LEMMA CapStep ==
  ASSUME TypeOK, CapInv, [Next]_vars
  PROVE  CapInv'
<1>1. ASSUME UNCHANGED <<now, active, holder, expires>>
      PROVE  CapInv'
  BY <1>1, FewerKeepCap DEF CapInv, LeasedIsActive, Live
<1>2. ASSUME NEW w \in Workers, ClaimDue(w) \/ Abandon(w)
      PROVE  CapInv'
  BY <1>2, <1>1, ClaimKeepsCap DEF Abandon, row, lease
<1>3. ASSUME NEW p \in Pages, NEW n \in Attempts, Crawl(p, n)
      PROVE  CapInv'
  BY <1>3, CrawlKeepsCap
<1>4. CASE \E urls \in SUBSET Pages, ahead \in 0..ScheduleAhead :
             Schedule(urls, now + ahead)
  BY <1>4, <1>1 DEF Schedule, lease
<1>5. ASSUME NEW p \in Pages, LiveFetched(p) \/ LiveFailed(p)
      PROVE  CapInv'
  <2>1. \A q \in Pages : active[q] => active'[q]
    BY <1>5 DEF LiveFetched, LiveFailed, Rediscover, TypeOK
  <2>2. UNCHANGED <<now, holder, expires>>
    BY <1>5 DEF LiveFetched, LiveFailed, lease
  <2> QED
    BY <2>1, <2>2, FewerKeepCap DEF CapInv, LeasedIsActive, Live
<1>6. ASSUME NEW p \in Pages, Edit(p)
      PROVE  CapInv'
  BY <1>6, <1>1 DEF Edit, row, lease
<1>7. CASE Tick
  <2>1. /\ now' = now + 1
        /\ UNCHANGED <<active, holder, expires>>
    BY <1>7 DEF Tick, row, lease
  <2>2. \A q \in Pages : Live(q)' => Live(q)
    BY <2>1 DEF Live, TypeOK
  <2> QED
    BY <2>1, <2>2, FewerKeepCap DEF CapInv, LeasedIsActive
<1>8. CASE UNCHANGED vars
  BY <1>8, <1>1 DEF vars, row, lease
<1> QED
  BY <1>2, <1>3, <1>4, <1>5, <1>6, <1>7, <1>8 DEF Next

\* No host is ever crawled by more pages at a time than its cap allows: also
\* when leases expire, are renewed late, and pages are found again.
THEOREM HostCap == Spec => []HostCapHeld
<1>1. Init => CapInv
  <2> SUFFICES ASSUME Init
               PROVE  CapInv
    OBVIOUS
  <2>1. \A p \in Pages : holder[p] = 0
    BY DEF Init
  <2>2. \A h \in Hosts : Busy(h) = {}
    BY <2>1 DEF Busy, Live
  <2>3. \A h \in Hosts : Cardinality(Busy(h)) <= ActiveCap
    <3>1. Cardinality({}) = 0 /\ 0 <= ActiveCap
      BY FS_EmptySet, ConstantsAssumption DEF ConstantsAssumption
    <3> QED
      BY <2>2, <3>1
  <2> QED
    BY <2>1, <2>3 DEF CapInv, LeasedIsActive, HostCapHeld, Busy
<1>2. TypeOK /\ CapInv /\ [Next]_vars => CapInv'
  BY CapStep
<1>3. CapInv => HostCapHeld
  BY DEF CapInv
<1> QED
  BY <1>1, <1>2, <1>3, TypeCorrect, PTL DEF Spec

-----------------------------------------------------------------------------
(* Who puts a page off.  Only complete and fail, in the hands of the holder, *)
(* move a due time back or erase it.                                        *)

PostponedByHolder ==
  \A p \in Pages :
    dueAt[p] # Never /\ (dueAt'[p] = Never \/ dueAt'[p] > dueAt[p])
      => /\ Live(p)
         /\ phase[p][holder[p]] = "settle"
         /\ holder'[p] = 0

\* A step of a crawl puts off no page but its own, and settles it then.
LEMMA CrawlPostpones ==
  ASSUME TypeOK, NEW p \in Pages, NEW n \in Attempts, Crawl(p, n)
  PROVE  PostponedByHolder
<1>1. ASSUME dueAt' = dueAt
      PROVE  PostponedByHolder
  BY <1>1 DEF PostponedByHolder, TypeOK, Never
<1>2. ASSUME phase[p][n] = "settle", Owned(p, n), ClearLease(p),
             \A q \in Pages : q # p => dueAt'[q] = dueAt[q]
      PROVE  PostponedByHolder
  <2>1. Live(p) /\ holder[p] = n /\ holder'[p] = 0
    BY <1>2 DEF Live, Owned, ClearLease, TypeOK, Attempts
  <2> QED
    BY <1>2, <2>1 DEF PostponedByHolder, TypeOK, Never
<1>3. CASE \/ RenewBeforeFetch(p, n)
           \/ RenewBeforeParse(p, n)
           \/ RenewBeforePersist(p, n)
           \/ RenewBeforeIngest(p, n)
           \/ SettleRenew(p, n)
  BY <1>3, <1>1
     DEF RenewBeforeFetch, RenewBeforeParse, RenewBeforePersist,
         RenewBeforeIngest, RenewAndGo, SettleRenew, row
<1>4. CASE Fetch(p, n) \/ Persist(p, n) \/ Ingest(p, n) \/ Raise(p, n)
  BY <1>4, <1>1 DEF Fetch, Persist, Ingest, Raise, row
<1>5. CASE Complete(p, n)
  <2>1. CASE Rejected(p, n)
    BY <2>1, <1>1 DEF Rejected, row
  <2>2. CASE ~Rejected(p, n)
    <3>1. /\ Owned(p, n) /\ ClearLease(p) /\ phase[p][n] = "settle"
          /\ \E d \in Delays : dueAt' = [dueAt EXCEPT ![p] = now + d]
      BY <1>5, <2>2, Zenon DEF Complete
    <3> QED
      BY <3>1, <1>2 DEF TypeOK
  <2> QED
    BY <2>1, <2>2
<1>6. CASE Fail(p, n)
  <2>1. CASE Rejected(p, n)
    BY <2>1, <1>1 DEF Rejected, row
  <2>2. CASE ~Rejected(p, n)
    <3>1. /\ Owned(p, n) /\ ClearLease(p) /\ phase[p][n] = "settle"
          /\ \/ dueAt' = [dueAt EXCEPT ![p] = Never]
             \/ \E d \in Delays : dueAt' = [dueAt EXCEPT ![p] = now + d]
      BY <1>6, <2>2, Zenon DEF Fail
    <3> QED
      BY <3>1, <1>2 DEF TypeOK
  <2> QED
    BY <2>1, <2>2
<1> QED
  BY <1>3, <1>4, <1>5, <1>6 DEF Crawl

\* The due time of a page moves back only by the hand of the worker whose live
\* lease covers the page; administrators, chat requests and workers that come
\* late only bring it forward.
THEOREM HolderPostpones == Spec => OnlyHolderPostpones
<1>1. TypeOK /\ [Next]_vars => [PostponedByHolder]_vars
  <2> SUFFICES ASSUME TypeOK, Next
               PROVE  PostponedByHolder
    BY DEF vars
  <2>1. ASSUME \A p \in Pages :
                 dueAt[p] # Never => dueAt'[p] # Never /\ dueAt'[p] <= dueAt[p]
        PROVE  PostponedByHolder
    <3> SUFFICES ASSUME NEW p \in Pages, dueAt[p] # Never
                 PROVE  ~(dueAt'[p] = Never \/ dueAt'[p] > dueAt[p])
      BY DEF PostponedByHolder
    <3>1. dueAt[p] \in Int /\ dueAt'[p] \in Int
      BY ConstantsAssumption, TypeOKStep DEF TypeOK, Never
    <3> QED
      BY <2>1, <3>1
  <2>2. ASSUME dueAt' = dueAt
        PROVE  PostponedByHolder
    BY <2>1, <2>2 DEF TypeOK, Never
  <2>3. ASSUME NEW p \in Pages, NEW n \in Attempts, Crawl(p, n)
        PROVE  PostponedByHolder
    BY <2>3, CrawlPostpones
  <2>4. CASE \E w \in Workers : ClaimDue(w) \/ Abandon(w)
    BY <2>2, <2>4 DEF ClaimDue, Abandon, row
  <2>5. ASSUME NEW urls \in SUBSET Pages, NEW ahead \in 0..ScheduleAhead,
               Schedule(urls, now + ahead)
        PROVE  PostponedByHolder
    <3> DEFINE S == {p \in urls : Schedulable(p, now + ahead)}
    <3>1. dueAt' = [p \in Pages |->
                      IF p \in S /\ (dueAt[p] = Never \/ dueAt[p] > now + ahead)
                      THEN now + ahead ELSE dueAt[p]]
      BY <2>5 DEF Schedule
    <3> HIDE DEF S
    <3> QED
      BY <2>1, <3>1 DEF TypeOK, Never
  <2>6. ASSUME NEW p \in Pages, LiveFetched(p) \/ LiveFailed(p)
        PROVE  PostponedByHolder
    <3>1. \A q \in Pages : dueAt[q] # Never => dueAt'[q] = dueAt[q]
      BY <2>6 DEF LiveFetched, LiveFailed, Rediscover, TypeOK
    <3> QED
      BY <2>1, <3>1 DEF TypeOK, Never
  <2>7. CASE Tick \/ \E p \in Pages : Edit(p)
    BY <2>2, <2>7 DEF Tick, Edit, row
  <2> QED
    BY <2>3, <2>4, <2>5, <2>6, <2>7 DEF Next
<1>2. Spec => [][PostponedByHolder]_vars
  BY <1>1, TypeCorrect, PTL DEF Spec
<1> QED
  BY <1>2, PTL DEF OnlyHolderPostpones, PostponedByHolder

-----------------------------------------------------------------------------
(* The promise of the lease.  With respect to it every step is a grant, the *)
(* passing of time, a write of the holder, the verdict on a claim, or a    *)
(* stutter.                                                                *)

PromiseVars == <<CurrentClaim, attempts, ClaimVerdicts, stored>>

PromiseKept == Promise!Next \/ UNCHANGED PromiseVars

\* Nothing the promise speaks of changes.
LEMMA StutterKeeps ==
  ASSUME UNCHANGED <<now, attempts, holder, expires, outcome, stored>>
  PROVE  PromiseKept
  BY DEF PromiseKept, PromiseVars, CurrentClaim, ClaimVerdicts, Live

\* The current claim of a page whose lease is not touched stays.
LEMMA CurrentKept ==
  ASSUME NEW p \in Pages, now' = now, holder'[p] = holder[p], expires'[p] = expires[p]
  PROVE  CurrentClaim'[p] = CurrentClaim[p]
  BY DEF CurrentClaim, Live

\* A claim is a grant of the pages it takes.
LEMMA ClaimGrants ==
  ASSUME ConstantsAssumption, TypeOK, NEW w \in Workers, ClaimDue(w)
  PROVE  PromiseKept
<1>1. PICK S \in SUBSET Pages :
        /\ \A p \in S : attempts[p] < MaxAttempts /\ ~Live(p)
        /\ attempts' = [p \in Pages |-> attempts[p] + IF p \in S THEN 1 ELSE 0]
        /\ holder' = [p \in Pages |->
                        IF p \in S THEN attempts[p] + 1 ELSE holder[p]]
        /\ expires' = On(expires, S, now + LeaseDuration)
        /\ outcome' = Issue(outcome, S, [p \in Pages |-> "running"])
  BY ClaimTakes, Zenon
<1>2. now' = now /\ stored' = stored
  BY DEF ClaimDue
<1>3. \A p \in Pages : p \in S => /\ CurrentClaim[p] = 0
                                  /\ attempts[p] + 1 \in Attempts
                                  /\ attempts'[p] = attempts[p] + 1
                                  /\ CurrentClaim'[p] = attempts[p] + 1
  BY <1>1, <1>2 DEF CurrentClaim, Live, On, TypeOK, ConstantsAssumption, Attempts
<1>4. \A p \in Pages : p \notin S => /\ attempts'[p] = attempts[p]
                                     /\ CurrentClaim'[p] = CurrentClaim[p]
  BY <1>1, <1>2 DEF CurrentClaim, Live, On, TypeOK
<1>5. attempts' = [p \in Pages |-> IF p \in S THEN attempts[p] + 1 ELSE attempts[p]]
  BY <1>1 DEF TypeOK
<1>6. CurrentClaim' = [p \in Pages |-> IF p \in S THEN attempts[p] + 1
                                       ELSE CurrentClaim[p]]
  BY <1>3, <1>4 DEF CurrentClaim
<1>7. ClaimVerdicts' = [p \in Pages |-> IF p \in S
                          THEN [ClaimVerdicts[p] EXCEPT ![attempts[p] + 1] = "running"]
                          ELSE ClaimVerdicts[p]]
  <2>1. ASSUME NEW p \in Pages, p \in S
        PROVE  ClaimVerdicts'[p] =
                 [ClaimVerdicts[p] EXCEPT ![attempts[p] + 1] = "running"]
    <3>1. outcome'[p] = [outcome[p] EXCEPT ![attempts[p] + 1] = "running"]
      BY <1>1, <2>1 DEF Issue
    <3>2. outcome[p] \in [Attempts -> Outcomes]
      BY DEF TypeOK
    <3>3. \A n \in Attempts :
            VerdictOn(outcome'[p][n]) = IF n = attempts[p] + 1 THEN "running"
                                        ELSE VerdictOn(outcome[p][n])
      BY <3>1, <3>2 DEF VerdictOn
    <3>4. /\ ClaimVerdicts'[p] = [n \in Attempts |-> VerdictOn(outcome'[p][n])]
          /\ ClaimVerdicts[p] = [n \in Attempts |-> VerdictOn(outcome[p][n])]
      BY DEF ClaimVerdicts
    <3> QED
      BY <3>3, <3>4
  <2>2. ASSUME NEW p \in Pages, p \notin S
        PROVE  ClaimVerdicts'[p] = ClaimVerdicts[p]
    BY <1>1, <2>2 DEF Issue, ClaimVerdicts
  <2> QED
    BY <2>1, <2>2 DEF ClaimVerdicts
<1>8. Promise!Grant(S)
  BY <1>2, <1>3, <1>5, <1>6, <1>7 DEF Promise!Grant
<1> QED
  BY <1>8 DEF PromiseKept, Promise!Next

\* A renewal changes nothing the promise speaks of.
LEMMA RenewalKeeps ==
  ASSUME ConstantsAssumption, TypeOK, NEW p \in Pages, NEW n \in Attempts,
         Owned(p, n),
         expires' = [expires EXCEPT ![p] = now + LeaseDuration],
         UNCHANGED <<now, attempts, holder, outcome, stored>>
  PROVE  PromiseKept
<1>1. /\ Live(p) /\ expires'[p] = now + LeaseDuration
      /\ \A q \in Pages : q # p => expires'[q] = expires[q]
  BY DEF Live, Owned, TypeOK, Attempts
<1>2. now + LeaseDuration > now
  BY DEF TypeOK, ConstantsAssumption
<1>3. \A q \in Pages : Live(q)' <=> Live(q)
  BY <1>1, <1>2 DEF Live
<1> QED
  BY <1>3 DEF PromiseKept, PromiseVars, CurrentClaim, ClaimVerdicts

\* A verdict on claim n of page p.
LEMMA VerdictGiven ==
  ASSUME TypeOK, NEW p \in Pages, NEW n \in Attempts, NEW o,
         outcome' = [outcome EXCEPT ![p][n] = o]
  PROVE  ClaimVerdicts' = [ClaimVerdicts EXCEPT ![p][n] = VerdictOn(o)]
<1>1. \A q \in Pages, m \in Attempts :
        outcome'[q][m] = IF q = p /\ m = n THEN o ELSE outcome[q][m]
  BY DEF TypeOK
<1>2. \A q \in Pages, m \in Attempts :
        ClaimVerdicts'[q][m] = IF q = p /\ m = n THEN VerdictOn(o)
                               ELSE ClaimVerdicts[q][m]
  BY <1>1 DEF ClaimVerdicts, VerdictOn
<1>3. /\ ClaimVerdicts = [q \in Pages |-> [m \in Attempts |-> ClaimVerdicts[q][m]]]
      /\ ClaimVerdicts' = [q \in Pages |-> [m \in Attempts |-> ClaimVerdicts'[q][m]]]
  BY DEF ClaimVerdicts
<1> QED
  BY <1>2, <1>3

\* _mark_lease_lost finds out a claim that is not the holder.
LEMMA LossKeeps ==
  ASSUME TypeOK, NEW p \in Pages, NEW n \in Attempts,
         MarkLost(p, n),
         UNCHANGED <<now, attempts, holder, expires, stored>>
  PROVE  PromiseKept
<1>1. CASE outcome[p][n] = "running" /\ ~Owned(p, n)
  <2>1. outcome' = [outcome EXCEPT ![p][n] = "lease_lost"]
    BY <1>1 DEF MarkLost
  <2>2. ClaimVerdicts' = [ClaimVerdicts EXCEPT ![p][n] = "lost"]
    BY <2>1, VerdictGiven DEF VerdictOn
  <2>3. CurrentClaim[p] # n /\ ClaimVerdicts[p][n] = "running"
    BY <1>1 DEF CurrentClaim, Live, Owned, Attempts, ClaimVerdicts, VerdictOn
  <2>4. CurrentClaim' = CurrentClaim
    BY DEF CurrentClaim, Live
  <2>5. Promise!Lose(p, n)
    BY <2>2, <2>3, <2>4 DEF Promise!Lose
  <2> QED
    BY <2>5 DEF PromiseKept, Promise!Next
<1>2. CASE ~(outcome[p][n] = "running" /\ ~Owned(p, n))
  <2>1. outcome' = outcome
    BY <1>2 DEF MarkLost, TypeOK
  <2> QED
    BY <2>1, StutterKeeps
<1> QED
  BY <1>1, <1>2

\* complete and fail settle the claim that holds the page.
LEMMA ClosingKeeps ==
  ASSUME TypeOK, LiveLeaseIsRunning, NEW p \in Pages, NEW n \in Attempts,
         NEW o \in Finished,
         Owned(p, n), FinishAttempt(p, n, o), ClearLease(p),
         UNCHANGED <<now, attempts, stored>>
  PROVE  PromiseKept
<1>1. CurrentClaim[p] = n /\ n # 0 /\ Live(p)
  BY DEF CurrentClaim, Live, Owned, Attempts
<1>2. ClaimVerdicts[p][n] = "running"
  BY <1>1 DEF LiveLeaseIsRunning, CurrentClaim, ClaimVerdicts, VerdictOn
<1>3. VerdictOn(o) = "settled"
  BY DEF VerdictOn, Finished
<1>4. ClaimVerdicts' = [ClaimVerdicts EXCEPT ![p][n] = "settled"]
  BY <1>3, VerdictGiven DEF FinishAttempt
<1>5. CurrentClaim' = [CurrentClaim EXCEPT ![p] = 0]
  <2>1. CurrentClaim'[p] = 0
    BY DEF ClearLease, CurrentClaim, Live, TypeOK
  <2>2. \A q \in Pages : q # p => CurrentClaim'[q] = CurrentClaim[q]
    BY CurrentKept DEF ClearLease, TypeOK
  <2> QED
    BY <2>1, <2>2 DEF CurrentClaim
<1>6. Promise!Settle(p)
  BY <1>1, <1>2, <1>4, <1>5 DEF Promise!Settle
<1> QED
  BY <1>6 DEF PromiseKept, Promise!Next

\* The fence of persist_fetched_page lets only the holder write, and FenceInv
\* says that what it writes is no older than what is stored.
LEMMA PersistKeeps ==
  ASSUME TypeOK, FenceInv, NEW p \in Pages, NEW n \in Attempts, Persist(p, n)
  PROVE  PromiseKept
<1>1. UNCHANGED <<now, attempts, holder, expires, outcome>>
  BY DEF Persist, lease
<1>2. CASE MayPersist(p, n)
  <2>1. stored' = [stored EXCEPT ![p] = seen[p][n]]
    BY <1>2 DEF Persist
  <2>2. Live(p) /\ holder[p] = n /\ n # 0
    BY <1>2 DEF MayPersist, Owned, Live, Attempts
  <2>3. stored[p] <= seen[p][n] /\ seen[p][n] \in Nat /\ stored'[p] = seen[p][n]
    BY <2>1, <2>2 DEF FenceInv, Fetched, Persist, TypeOK
  <2>4. CurrentClaim' = CurrentClaim /\ ClaimVerdicts' = ClaimVerdicts
    BY <1>1 DEF CurrentClaim, ClaimVerdicts, Live
  <2>5. CurrentClaim[p] # 0
    BY <2>2 DEF CurrentClaim
  <2>6. stored[p] \in Nat /\ stored'[p] >= stored[p]
    BY <2>3 DEF TypeOK
  <2>7. Promise!Write(p)
    BY <1>1, <2>1, <2>3, <2>4, <2>5, <2>6 DEF Promise!Write
  <2> QED
    BY <2>7 DEF PromiseKept, Promise!Next
<1>3. CASE ~MayPersist(p, n)
  BY <1>1, <1>3, StutterKeeps DEF Persist
<1> QED
  BY <1>2, <1>3

\* Every step of the crawl of a claim keeps the promise.
LEMMA CrawlKeeps ==
  ASSUME ConstantsAssumption, TypeOK, LiveLeaseIsRunning, FenceInv,
         NEW p \in Pages, NEW n \in Attempts, Crawl(p, n)
  PROVE  PromiseKept
<1> USE ConstantsAssumption DEF row, lease
<1>1. ASSUME NEW from, NEW to, RenewAndGo(p, n, from, to)
      PROVE  PromiseKept
  BY <1>1, RenewalKeeps, LossKeeps DEF RenewAndGo
<1>2. CASE \/ RenewBeforeFetch(p, n)
           \/ RenewBeforeParse(p, n)
           \/ RenewBeforePersist(p, n)
           \/ RenewBeforeIngest(p, n)
  BY <1>1, <1>2 DEF RenewBeforeFetch, RenewBeforeParse, RenewBeforePersist,
                    RenewBeforeIngest
<1>3. CASE Fetch(p, n) \/ Ingest(p, n) \/ Raise(p, n)
  BY <1>3, StutterKeeps DEF Fetch, Ingest, Raise
<1>4. CASE Persist(p, n)
  BY <1>4, PersistKeeps
<1>5. CASE SettleRenew(p, n)
  BY <1>5, RenewalKeeps, LossKeeps DEF SettleRenew
<1>6. CASE Complete(p, n)
  <2>1. "success" \in Finished
    BY DEF Finished
  <2> QED
    BY <1>6, <2>1, ClosingKeeps, LossKeeps DEF Complete, Rejected
<1>7. CASE Fail(p, n)
  <2>1. CASE Rejected(p, n)
    BY <1>7, <2>1, LossKeeps DEF Fail, Rejected
  <2>2. CASE ~Rejected(p, n)
    <3>1. /\ Owned(p, n)
          /\ ClearLease(p)
          /\ UNCHANGED <<now, attempts, stored>>
          /\ \E o \in Closed \cup {"failed_transient"} : FinishAttempt(p, n, o)
      BY <1>7, <2>2, Zenon DEF Fail
    <3>2. Closed \cup {"failed_transient"} \subseteq Finished
      BY DEF Closed, Finished
    <3> QED
      BY <3>1, <3>2, ClosingKeeps
  <2> QED
    BY <2>1, <2>2
<1> QED
  BY <1>2, <1>3, <1>4, <1>5, <1>6, <1>7 DEF Crawl

\* Leases lapse when their time comes.
LEMMA TickKeeps ==
  ASSUME TypeOK, Tick
  PROVE  PromiseKept
<1> DEFINE S == {p \in Pages : ~Live(p)'}
<1>1. \A p \in Pages : Live(p)' => Live(p)
  BY DEF Tick, Live, TypeOK, lease
<1>2. UNCHANGED <<attempts, holder, outcome, stored>>
  BY DEF Tick, lease, row
<1>3. CurrentClaim' = [p \in Pages |-> IF p \in S THEN 0 ELSE CurrentClaim[p]]
  BY <1>1, <1>2 DEF CurrentClaim
<1>4. ClaimVerdicts' = ClaimVerdicts
  BY <1>2 DEF ClaimVerdicts
<1>5. Promise!Lapse(S)
  BY <1>2, <1>3, <1>4 DEF Promise!Lapse
<1> QED
  BY <1>5 DEF PromiseKept, Promise!Next

\* Every step of CrawlLease is a step of PageLease or a stutter.
LEMMA PromiseStep ==
  ASSUME ConstantsAssumption, LiveSearch = FALSE, TypeOK, LiveLeaseIsRunning,
         FenceInv, [Next]_vars
  PROVE  PromiseKept
<1>1. ASSUME NEW w \in Workers, ClaimDue(w)
      PROVE  PromiseKept
  BY <1>1, ClaimGrants
<1>2. ASSUME NEW p \in Pages, NEW n \in Attempts, Crawl(p, n)
      PROVE  PromiseKept
  BY <1>2, CrawlKeeps
<1>3. CASE \E w \in Workers : Abandon(w)
  BY <1>3, StutterKeeps DEF Abandon, lease, row
<1>4. CASE \E urls \in SUBSET Pages, ahead \in 0..ScheduleAhead :
             Schedule(urls, now + ahead)
  BY <1>4, StutterKeeps DEF Schedule, lease
<1>5. CASE \E p \in Pages : LiveFetched(p) \/ LiveFailed(p) \/ Edit(p)
  BY <1>5, StutterKeeps DEF LiveFetched, LiveFailed, Edit, lease, row
<1>6. CASE Tick
  BY <1>6, TickKeeps
<1>7. CASE UNCHANGED vars
  BY <1>7, StutterKeeps DEF vars, lease, row
<1> QED
  BY <1>1, <1>2, <1>3, <1>4, <1>5, <1>6, <1>7 DEF Next

\* Between crawl workers the rows of a page keep the promise of its lease:
\* granted to one claim at a time, stored content that changes only under the
\* grant and never goes back, and one verdict for every claim, whatever
\* expires, is renewed, crashes or comes late.
THEOREM LeaseImplementsPromise ==
  ASSUME LiveSearch = FALSE
  PROVE  Spec => KeepsThePromise
<1>1. Init => Promise!Init
  <2> SUFFICES ASSUME Init
               PROVE  Promise!Init
    OBVIOUS
  <2>1. CurrentClaim = [p \in Pages |-> 0]
    BY DEF Init, CurrentClaim, Live
  <2>2. ClaimVerdicts = [p \in Pages |-> [n \in Attempts |-> "none"]]
    BY DEF Init, ClaimVerdicts, VerdictOn
  <2> QED
    BY <2>1, <2>2 DEF Init, Promise!Init
<1>2. TypeOK /\ LiveLeaseIsRunning /\ FenceInv /\ [Next]_vars
        => [Promise!Next]_(Promise!vars)
  BY PromiseStep, ConstantsAssumption DEF PromiseKept, PromiseVars, Promise!vars
<1> QED
  BY <1>1, <1>2, TypeCorrect, LiveLease, FenceCorrect, PTL
     DEF Spec, KeepsThePromise, Promise!Spec

=============================================================================
