-------------------------- MODULE SearchFlight_proofs --------------------------
(***************************************************************************)
(* Proofs about the searches for one question: at most one of them runs    *)
(* with the lock, what a cache gives out is younger than its time to live, *)
(* and nobody searches while the table has a good result, for any number   *)
(* of requests and processes and any time to live.                         *)
(***************************************************************************)
EXTENDS SearchFlight, FiniteSetTheorems, TLAPS

\* A request that passed the lock holds it, or lost it with its connection;
\* only such a request searches.
HeldIsLocked == \A r \in Seekers : stage[r] = "held" => locker = r \/ r \in lost

SearcherHolds == \A r \in Searching : stage[r] = "held"

\* At time t: a complete result, with the expiry it was written with.
Result(e, t) ==
  e \in Row /\ e.whole = TRUE /\ e.made <= t /\ e.until = e.made + Ttl

\* What a request read from the table: the time it has left is counted from the
\* moment of the read.
Reading(e, t) ==
  /\ e \in [made : Moments, whole : {TRUE}, left : Nat, readAt : Moments]
  /\ e.made <= t
  /\ e.readAt <= t
  /\ e.left + e.readAt = e.made + Ttl

RowIsResult == l2 # Absent => Result(l2, moment)

\* A copy in memory: as old as the row, up to the delay of the copy.
CopyInTime(c) == c.whole = TRUE /\ c.until <= c.made + Ttl + c.late

CopyIsResult == \A p \in Processes : l1[p] # Absent => CopyInTime(l1[p])

RequestKnows ==
  /\ DOMAIN fetched = Seekers /\ DOMAIN built = Seekers
  /\ \A r \in Seekers :
       /\ at[r] = "copy" => Reading(fetched[r], moment)
       /\ at[r] = "finish" => built[r] \in Row
       /\ at[r] = "store" => Result(built[r], moment)

\* The row of the table is the result that was written to it last.
SharedIsRow == sharedAt # Absent => l2 # Absent /\ l2.until = sharedAt + Ttl

IInv ==
  /\ FlightTypeOK
  /\ HeldIsLocked
  /\ SearcherHolds
  /\ RowIsResult
  /\ CopyIsResult
  /\ RequestKnows
  /\ SharedIsRow

-----------------------------------------------------------------------------

\* The copy of a row that is kept in memory.
Copy(e, t) ==
  [made |-> e.made, until |-> t + KeptFor(e.left), whole |-> e.whole, late |-> t - e.readAt]

\* A result that a search has made, and the copy of it in its process.
Made(t)     == [made |-> t, until |-> t + Ttl, whole |-> TRUE]
MadeCopy(t) == [made |-> t, until |-> t + Ttl, whole |-> TRUE, late |-> 0]

\* A row that is good when it is read can be copied later, up to the same age and
\* the delay.
LEMMA ReadingOfRow ==
  ASSUME NEW t \in Moments, NEW e, Result(e, t), e.until > t
  PROVE  Reading([made |-> e.made, whole |-> e.whole, left |-> e.until - t, readAt |-> t], t)
<1> DEFINE c == [made |-> e.made, whole |-> e.whole, left |-> e.until - t, readAt |-> t]
<1>1. /\ e.made \in 0..MaxMoment /\ e.until \in Nat /\ e.whole = TRUE /\ e.made <= t
      /\ e.until = e.made + Ttl /\ t \in 0..MaxMoment
  BY DEF Result, Row, Moments
<1>2. e.until - t \in Nat /\ (e.until - t) + t = e.made + Ttl
  BY <1>1, FlightAssumption
<1>3. c \in [made : Moments, whole : {TRUE}, left : Nat, readAt : Moments]
  BY <1>1, <1>2 DEF Moments
<1>4. c.made <= t /\ c.readAt <= t /\ c.left + c.readAt = c.made + Ttl
  BY <1>1, <1>2, FlightAssumption DEF Moments
<1> QED
  BY <1>3, <1>4 DEF Reading

\* A copy made now of a row read in time is an entry that ends when the row does.
LEMMA CopyOfReading ==
  ASSUME NEW t \in Moments, NEW e, Reading(e, t)
  PROVE  Copy(e, t) \in L1Entry /\ CopyInTime(Copy(e, t))
<1>1. /\ e.made \in Moments /\ e.whole = TRUE /\ e.left \in Nat /\ e.readAt \in Moments
      /\ e.readAt <= t /\ e.left + e.readAt = e.made + Ttl
  BY DEF Reading
<1>2. KeptFor(e.left) \in Nat /\ KeptFor(e.left) <= e.left
  BY <1>1, FlightAssumption DEF KeptFor, Shorter
<1>3. t + KeptFor(e.left) \in Nat /\ t - e.readAt \in Moments
  BY <1>1, <1>2, FlightAssumption DEF Moments
<1>4. Copy(e, t) \in L1Entry
  BY <1>1, <1>3 DEF Copy, L1Entry
<1>5. t + KeptFor(e.left) <= e.made + Ttl + (t - e.readAt)
  BY <1>1, <1>2, FlightAssumption DEF Moments
<1> QED
  BY <1>1, <1>4, <1>5 DEF Copy, CopyInTime

\* A result made now is one, and so is the copy that the searcher keeps of it.
LEMMA MadeIsResult ==
  ASSUME NEW t \in Moments
  PROVE  /\ Result(Made(t), t)
         /\ MadeCopy(t) \in L1Entry /\ CopyInTime(MadeCopy(t))
  BY FlightAssumption DEF Made, MadeCopy, Result, Row, L1Entry, CopyInTime, Moments

\* Time does not make a result less of one.
LEMMA Later ==
  ASSUME NEW t \in Moments, NEW e
  PROVE  /\ Result(e, t) => Result(e, t + 1)
         /\ Reading(e, t) => Reading(e, t + 1)
<1>1. ASSUME Result(e, t)
      PROVE  Result(e, t + 1)
  <2>1. e.made <= t + 1
    BY <1>1, FlightAssumption DEF Result, Row, Moments
  <2> QED
    BY <1>1, <2>1 DEF Result
<1>2. Reading(e, t) => Reading(e, t + 1)
  <2>1. ASSUME Reading(e, t)
        PROVE  e.made <= t + 1 /\ e.readAt <= t + 1
    BY <2>1, FlightAssumption DEF Reading, Moments
  <2> QED
    BY <2>1 DEF Reading
<1> QED
  BY <1>1, <1>2

\* What a search that ends leaves in its request and in the memory of its
\* process: the result, or nothing.
LEMMA SearchEnds ==
  ASSUME FlightTypeOK, NEW r \in Seekers, EndSearch(r), built[r] \in Row
  PROVE  \/ /\ built' = [built EXCEPT ![r] = Made(moment)]
            /\ l1' = [l1 EXCEPT ![ProcessOf[r]] = MadeCopy(moment)]
            /\ at' = [at EXCEPT ![r] = "store"]
         \/ /\ built' = [built EXCEPT ![r] = Absent]
            /\ l1' = l1
            /\ at' = [at EXCEPT ![r] = IF stage[r] = "held" THEN "release" ELSE "end"]
<1> DEFINE whole == built[r].whole /\ moment < deadline[r]
<1>1. /\ whole \in BOOLEAN
      /\ IF MayStore(whole)
           THEN /\ built' = [built EXCEPT ![r] =
                               [made |-> moment, until |-> moment + Ttl, whole |-> whole]]
                /\ l1' = [l1 EXCEPT ![ProcessOf[r]] =
                            [made |-> moment, until |-> moment + Ttl, whole |-> whole,
                             late |-> 0]]
                /\ MoveTo(r, "store")
           ELSE /\ built' = [built EXCEPT ![r] = Absent]
                /\ l1' = l1
                /\ Leave(r)
  BY DEF EndSearch, FlightTypeOK, Row
<1> HIDE DEF whole
<1>2. CASE whole
  <2>1. whole = TRUE
    BY <1>1, <1>2
  <2> QED
    BY <1>1, <2>1 DEF MayStore, Made, MadeCopy, MoveTo
<1>3. CASE ~whole
  BY <1>1, <1>3 DEF MayStore, Leave, MoveTo
<1> QED
  BY <1>2, <1>3

\* Each step keeps the types.
LEMMA StepType ==
  ASSUME IInv, [FlightNext]_flightVars
  PROVE  FlightTypeOK'
<1> USE FlightAssumption
<1> USE DEF IInv, FlightTypeOK, Moments, Row, L1Entry, Steps, RequestKnows, RowIsResult,
            Result, Reading, Good, caches
<1>1. ASSUME NEW r \in Seekers, Start(r)
      PROVE  FlightTypeOK'
  BY <1>1 DEF Start, MoveTo
<1>2. ASSUME NEW r \in Seekers, Acquire(r),
             deadline' = Remembered(deadline, 0)
      PROVE  FlightTypeOK'
  BY <1>2 DEF Acquire, HeldNext, Leave, MoveTo, Failure, Remembered
<1>3. ASSUME NEW r \in Seekers, ReadL1(r),
             stage' = Remembered(stage, "first"), deadline' = Remembered(deadline, 0)
      PROVE  FlightTypeOK'
  BY <1>3 DEF ReadL1, Leave, MoveTo, Remembered
<1>4. ASSUME NEW r \in Seekers, ReadL2(r),
             stage' = Remembered(stage, "first"), deadline' = Remembered(deadline, 0)
      PROVE  FlightTypeOK'
  BY <1>4 DEF ReadL2, AfterMiss, MoveTo, Failure, Remembered
<1>5. ASSUME NEW r \in Seekers, CopyToL1(r),
             stage' = Remembered(stage, "first"), deadline' = Remembered(deadline, 0)
      PROVE  FlightTypeOK'
  <2>1. Copy(fetched[r], moment) \in L1Entry
    BY <1>5, CopyOfReading DEF CopyToL1
  <2>2. /\ l1' = [l1 EXCEPT ![ProcessOf[r]] = Copy(fetched[r], moment)]
        /\ at' \in [Seekers -> Steps]
        /\ UNCHANGED <<moment, l2, locker, lost, sharedAt, errors>>
    BY <1>5 DEF CopyToL1, Copy, Leave, MoveTo
  <2>3. /\ stage' \in [Seekers -> {"first", "waiting", "held"}]
        /\ deadline' \in [Seekers -> 0..MaxMoment]
    BY <1>5 DEF Remembered
  <2> HIDE DEF L1Entry, Reading, Result
  <2> QED
    BY <2>1, <2>2, <2>3
<1>6. ASSUME NEW r \in Seekers, Wait(r),
             stage' = Remembered(stage, "first"), deadline' = Remembered(deadline, 0)
      PROVE  FlightTypeOK'
  BY <1>6 DEF Wait, Leave, MoveTo, Remembered
<1>7. ASSUME NEW r \in Seekers, SearchSite(r),
             stage' = Remembered(stage, "first"), deadline' = Remembered(deadline, 0)
      PROVE  FlightTypeOK'
  BY <1>7 DEF SearchSite, MoveTo, Failure, Remembered
<1>8. ASSUME NEW r \in Seekers, EndSearch(r),
             stage' = Remembered(stage, "first"), deadline' = Remembered(deadline, 0)
      PROVE  FlightTypeOK'
  <2>1. /\ l1' = l1 \/ l1' = [l1 EXCEPT ![ProcessOf[r]] = MadeCopy(moment)]
        /\ at' \in [Seekers -> Steps]
    BY <1>8, SearchEnds, ZenonT(40) DEF EndSearch
  <2>2. MadeCopy(moment) \in L1Entry
    BY MadeIsResult
  <2>3. /\ stage' \in [Seekers -> {"first", "waiting", "held"}]
        /\ deadline' \in [Seekers -> 0..MaxMoment]
    BY <1>8 DEF Remembered
  <2>4. UNCHANGED <<moment, l2, locker, lost, sharedAt, errors>>
    BY <1>8 DEF EndSearch
  <2> HIDE DEF L1Entry, Reading, Result
  <2> QED
    BY <2>1, <2>2, <2>3, <2>4
<1>9. ASSUME NEW r \in Seekers, StoreL2(r),
             stage' = Remembered(stage, "first"), deadline' = Remembered(deadline, 0)
      PROVE  FlightTypeOK'
  <2>1. built[r] \in Row /\ built[r].made \in 0..MaxMoment
    BY <1>9 DEF StoreL2
  <2>2. /\ l2' \in Row \cup {Absent}
        /\ sharedAt' \in 0..MaxMoment \cup {Absent}
        /\ errors' \in 0..MaxFailures
    <3> HIDE DEF Row, Result
    <3> QED
      BY <1>9, <2>1 DEF StoreL2, Failure
  <2>3. /\ stage' \in [Seekers -> {"first", "waiting", "held"}]
        /\ deadline' \in [Seekers -> 0..MaxMoment]
    BY <1>9 DEF Remembered
  <2>4. at' \in [Seekers -> Steps] /\ UNCHANGED <<moment, l1, locker, lost>>
    BY <1>9 DEF StoreL2, Leave, MoveTo
  <2> HIDE DEF L1Entry, Row, Reading, Result
  <2> QED
    BY <2>2, <2>3, <2>4
<1>10. ASSUME NEW r \in Seekers, Release(r),
             stage' = Remembered(stage, "first"), deadline' = Remembered(deadline, 0)
      PROVE  FlightTypeOK'
  BY <1>10 DEF Release, Unlock, MoveTo, Remembered
<1>11. ASSUME NEW r \in Seekers, Break(r)
      PROVE  FlightTypeOK'
  BY <1>11 DEF Break, RaiseTo, MoveTo, Failure
<1>12. ASSUME NEW r \in Seekers, LoseLock(r)
      PROVE  FlightTypeOK'
  BY <1>12 DEF LoseLock, Failure, locals, caches
<1>13. ASSUME NEW p \in Processes, Crash(p)
      PROVE  FlightTypeOK'
  BY <1>13 DEF Crash, Failure, Remembered
<1>14. ASSUME Elapse
      PROVE  FlightTypeOK'
  BY <1>14 DEF Elapse, caches, locals
<1>15. ASSUME UNCHANGED flightVars
      PROVE  FlightTypeOK'
  BY <1>15 DEF flightVars, caches, locals
<1> HIDE DEF IInv
<1> QED
  BY <1>1, <1>2, <1>3, <1>4, <1>5, <1>6, <1>7, <1>8, <1>9, <1>10, <1>11, <1>12, <1>13,
     <1>14, <1>15
     DEF FlightNext, Proceed

\* Each step keeps that the lock held is the one a request holds, and that whoever
\* searches holds it.
LEMMA StepLocks ==
  ASSUME IInv, [FlightNext]_flightVars
  PROVE  HeldIsLocked' /\ SearcherHolds'
<1> USE FlightAssumption
<1> USE DEF IInv, FlightTypeOK, Steps, HeldIsLocked, SearcherHolds, Searching
<1>1. ASSUME NEW r \in Seekers, Start(r)
      PROVE  HeldIsLocked' /\ SearcherHolds'
  BY <1>1 DEF Start, MoveTo
<1>2. ASSUME NEW r \in Seekers, Acquire(r),
             deadline' = Remembered(deadline, 0)
      PROVE  HeldIsLocked' /\ SearcherHolds'
  BY <1>2 DEF Acquire, HeldNext, Leave, MoveTo, Failure, Remembered
<1>3. ASSUME NEW r \in Seekers, ReadL1(r),
             stage' = Remembered(stage, "first"), deadline' = Remembered(deadline, 0)
      PROVE  HeldIsLocked' /\ SearcherHolds'
  BY <1>3 DEF ReadL1, Leave, MoveTo, Remembered
<1>4. ASSUME NEW r \in Seekers, ReadL2(r),
             stage' = Remembered(stage, "first"), deadline' = Remembered(deadline, 0)
      PROVE  HeldIsLocked' /\ SearcherHolds'
  BY <1>4 DEF ReadL2, AfterMiss, MoveTo, Failure, Remembered
<1>5. ASSUME NEW r \in Seekers, CopyToL1(r),
             stage' = Remembered(stage, "first"), deadline' = Remembered(deadline, 0)
      PROVE  HeldIsLocked' /\ SearcherHolds'
  BY <1>5 DEF CopyToL1, KeptFor, Shorter, Leave, MoveTo, Remembered
<1>6. ASSUME NEW r \in Seekers, Wait(r),
             stage' = Remembered(stage, "first"), deadline' = Remembered(deadline, 0)
      PROVE  HeldIsLocked' /\ SearcherHolds'
  BY <1>6 DEF Wait, Leave, MoveTo, Remembered
<1>7. ASSUME NEW r \in Seekers, SearchSite(r),
             stage' = Remembered(stage, "first"), deadline' = Remembered(deadline, 0)
      PROVE  HeldIsLocked' /\ SearcherHolds'
  BY <1>7 DEF SearchSite, MoveTo, Failure, Remembered
<1>8. ASSUME NEW r \in Seekers, EndSearch(r),
             stage' = Remembered(stage, "first"), deadline' = Remembered(deadline, 0)
      PROVE  HeldIsLocked' /\ SearcherHolds'
  BY <1>8 DEF EndSearch, MayStore, Leave, MoveTo, Remembered
<1>9. ASSUME NEW r \in Seekers, StoreL2(r),
             stage' = Remembered(stage, "first"), deadline' = Remembered(deadline, 0)
      PROVE  HeldIsLocked' /\ SearcherHolds'
  BY <1>9 DEF StoreL2, Leave, MoveTo, Failure, Remembered
<1>10. ASSUME NEW r \in Seekers, Release(r),
             stage' = Remembered(stage, "first"), deadline' = Remembered(deadline, 0)
      PROVE  HeldIsLocked' /\ SearcherHolds'
  BY <1>10 DEF Release, Unlock, MoveTo, Remembered
<1>11. ASSUME NEW r \in Seekers, Break(r)
      PROVE  HeldIsLocked' /\ SearcherHolds'
  BY <1>11 DEF Break, RaiseTo, MoveTo, Failure
<1>12. ASSUME NEW r \in Seekers, LoseLock(r)
      PROVE  HeldIsLocked' /\ SearcherHolds'
  BY <1>12 DEF LoseLock, Failure, locals, caches
<1>13. ASSUME NEW p \in Processes, Crash(p)
      PROVE  HeldIsLocked' /\ SearcherHolds'
  BY <1>13 DEF Crash, Failure, Remembered
<1>14. ASSUME Elapse
      PROVE  HeldIsLocked' /\ SearcherHolds'
  BY <1>14 DEF Elapse, caches, locals
<1>15. ASSUME UNCHANGED flightVars
      PROVE  HeldIsLocked' /\ SearcherHolds'
  BY <1>15 DEF flightVars, caches, locals
<1> HIDE DEF IInv
<1> QED
  BY <1>1, <1>2, <1>3, <1>4, <1>5, <1>6, <1>7, <1>8, <1>9, <1>10, <1>11, <1>12, <1>13,
     <1>14, <1>15
     DEF FlightNext, Proceed

\* Each step keeps that the copies in memory are of results, in their time.
LEMMA StepCopies ==
  ASSUME IInv, [FlightNext]_flightVars
  PROVE  CopyIsResult'
<1> USE FlightAssumption
<1> USE DEF IInv, FlightTypeOK, CopyIsResult, RequestKnows, caches
<1>1. ASSUME NEW r \in Seekers, Start(r)
      PROVE  CopyIsResult'
  BY <1>1 DEF Start, MoveTo
<1>2. ASSUME NEW r \in Seekers, Acquire(r),
             deadline' = Remembered(deadline, 0)
      PROVE  CopyIsResult'
  BY <1>2 DEF Acquire, HeldNext, Leave, MoveTo, Failure, Remembered
<1>3. ASSUME NEW r \in Seekers, ReadL1(r),
             stage' = Remembered(stage, "first"), deadline' = Remembered(deadline, 0)
      PROVE  CopyIsResult'
  BY <1>3 DEF ReadL1, Leave, MoveTo, Remembered
<1>4. ASSUME NEW r \in Seekers, ReadL2(r),
             stage' = Remembered(stage, "first"), deadline' = Remembered(deadline, 0)
      PROVE  CopyIsResult'
  BY <1>4 DEF ReadL2, AfterMiss, MoveTo, Failure, Remembered
<1>5. ASSUME NEW r \in Seekers, CopyToL1(r),
             stage' = Remembered(stage, "first"), deadline' = Remembered(deadline, 0)
      PROVE  CopyIsResult'
  <2>1. CopyInTime(Copy(fetched[r], moment))
    BY <1>5, CopyOfReading DEF CopyToL1
  <2>2. l1' = [l1 EXCEPT ![ProcessOf[r]] = Copy(fetched[r], moment)]
    BY <1>5 DEF CopyToL1, Copy
  <2> QED
    BY <2>1, <2>2
<1>6. ASSUME NEW r \in Seekers, Wait(r),
             stage' = Remembered(stage, "first"), deadline' = Remembered(deadline, 0)
      PROVE  CopyIsResult'
  BY <1>6 DEF Wait, Leave, MoveTo, Remembered
<1>7. ASSUME NEW r \in Seekers, SearchSite(r),
             stage' = Remembered(stage, "first"), deadline' = Remembered(deadline, 0)
      PROVE  CopyIsResult'
  BY <1>7 DEF SearchSite, MoveTo, Failure, Remembered
<1>8. ASSUME NEW r \in Seekers, EndSearch(r),
             stage' = Remembered(stage, "first"), deadline' = Remembered(deadline, 0)
      PROVE  CopyIsResult'
  <2>1. l1' = l1 \/ l1' = [l1 EXCEPT ![ProcessOf[r]] = MadeCopy(moment)]
    BY <1>8, SearchEnds DEF EndSearch
  <2> QED
    BY <2>1, MadeIsResult
<1>9. ASSUME NEW r \in Seekers, StoreL2(r),
             stage' = Remembered(stage, "first"), deadline' = Remembered(deadline, 0)
      PROVE  CopyIsResult'
  BY <1>9 DEF StoreL2, Leave, MoveTo, Failure, Remembered
<1>10. ASSUME NEW r \in Seekers, Release(r),
             stage' = Remembered(stage, "first"), deadline' = Remembered(deadline, 0)
      PROVE  CopyIsResult'
  BY <1>10 DEF Release, Unlock, MoveTo, Remembered
<1>11. ASSUME NEW r \in Seekers, Break(r)
      PROVE  CopyIsResult'
  BY <1>11 DEF Break, RaiseTo, MoveTo, Failure
<1>12. ASSUME NEW r \in Seekers, LoseLock(r)
      PROVE  CopyIsResult'
  BY <1>12 DEF LoseLock, Failure, locals, caches
<1>13. ASSUME NEW p \in Processes, Crash(p)
      PROVE  CopyIsResult'
  BY <1>13 DEF Crash, Failure, Remembered
<1>14. ASSUME Elapse
      PROVE  CopyIsResult'
  BY <1>14 DEF Elapse, caches, locals
<1>15. ASSUME UNCHANGED flightVars
      PROVE  CopyIsResult'
  BY <1>15 DEF flightVars, caches, locals
<1> HIDE DEF IInv
<1> QED
  BY <1>1, <1>2, <1>3, <1>4, <1>5, <1>6, <1>7, <1>8, <1>9, <1>10, <1>11, <1>12, <1>13,
     <1>14, <1>15
     DEF FlightNext, Proceed

\* Each step keeps that the shared row is a whole result.
LEMMA StepRow ==
  ASSUME IInv, [FlightNext]_flightVars
  PROVE  RowIsResult' /\ SharedIsRow'
<1> USE FlightAssumption
<1> USE DEF IInv, FlightTypeOK, RowIsResult, SharedIsRow, RequestKnows, caches
<1>1. ASSUME NEW r \in Seekers, Start(r)
      PROVE  RowIsResult' /\ SharedIsRow'
  BY <1>1 DEF Start, MoveTo
<1>2. ASSUME NEW r \in Seekers, Acquire(r),
             deadline' = Remembered(deadline, 0)
      PROVE  RowIsResult' /\ SharedIsRow'
  BY <1>2 DEF Acquire, HeldNext, Leave, MoveTo, Failure, Remembered
<1>3. ASSUME NEW r \in Seekers, ReadL1(r),
             stage' = Remembered(stage, "first"), deadline' = Remembered(deadline, 0)
      PROVE  RowIsResult' /\ SharedIsRow'
  BY <1>3 DEF ReadL1, Leave, MoveTo, Remembered
<1>4. ASSUME NEW r \in Seekers, ReadL2(r),
             stage' = Remembered(stage, "first"), deadline' = Remembered(deadline, 0)
      PROVE  RowIsResult' /\ SharedIsRow'
  BY <1>4 DEF ReadL2, AfterMiss, MoveTo, Failure, Remembered
<1>5. ASSUME NEW r \in Seekers, CopyToL1(r),
             stage' = Remembered(stage, "first"), deadline' = Remembered(deadline, 0)
      PROVE  RowIsResult' /\ SharedIsRow'
  BY <1>5 DEF CopyToL1, KeptFor, Shorter, Leave, MoveTo, Remembered
<1>6. ASSUME NEW r \in Seekers, Wait(r),
             stage' = Remembered(stage, "first"), deadline' = Remembered(deadline, 0)
      PROVE  RowIsResult' /\ SharedIsRow'
  BY <1>6 DEF Wait, Leave, MoveTo, Remembered
<1>7. ASSUME NEW r \in Seekers, SearchSite(r),
             stage' = Remembered(stage, "first"), deadline' = Remembered(deadline, 0)
      PROVE  RowIsResult' /\ SharedIsRow'
  BY <1>7 DEF SearchSite, MoveTo, Failure, Remembered
<1>8. ASSUME NEW r \in Seekers, EndSearch(r),
             stage' = Remembered(stage, "first"), deadline' = Remembered(deadline, 0)
      PROVE  RowIsResult' /\ SharedIsRow'
  BY <1>8 DEF EndSearch, MayStore, Leave, MoveTo, Remembered
<1>9. ASSUME NEW r \in Seekers, StoreL2(r),
             stage' = Remembered(stage, "first"), deadline' = Remembered(deadline, 0)
      PROVE  RowIsResult' /\ SharedIsRow'
  <2>1. Result(built[r], moment) /\ built[r] # Absent /\ moment' = moment
    BY <1>9, AbsentAssumption DEF StoreL2, Result
  <2>2. \/ l2' = built[r] /\ sharedAt' = built[r].made
        \/ l2' = l2 /\ sharedAt' = sharedAt
    BY <1>9 DEF StoreL2
  <2>3. built[r].until = built[r].made + Ttl
    BY <2>1 DEF Result
  <2> QED
    BY <2>1, <2>2, <2>3
<1>10. ASSUME NEW r \in Seekers, Release(r),
             stage' = Remembered(stage, "first"), deadline' = Remembered(deadline, 0)
      PROVE  RowIsResult' /\ SharedIsRow'
  BY <1>10 DEF Release, Unlock, MoveTo, Remembered
<1>11. ASSUME NEW r \in Seekers, Break(r)
      PROVE  RowIsResult' /\ SharedIsRow'
  BY <1>11 DEF Break, RaiseTo, MoveTo, Failure
<1>12. ASSUME NEW r \in Seekers, LoseLock(r)
      PROVE  RowIsResult' /\ SharedIsRow'
  BY <1>12 DEF LoseLock, Failure, locals, caches
<1>13. ASSUME NEW p \in Processes, Crash(p)
      PROVE  RowIsResult' /\ SharedIsRow'
  BY <1>13 DEF Crash, Failure, Remembered
<1>14. ASSUME Elapse
      PROVE  RowIsResult' /\ SharedIsRow'
  BY <1>14, Later DEF Elapse, caches
<1>15. ASSUME UNCHANGED flightVars
      PROVE  RowIsResult' /\ SharedIsRow'
  BY <1>15 DEF flightVars, caches, locals
<1> HIDE DEF IInv
<1> QED
  BY <1>1, <1>2, <1>3, <1>4, <1>5, <1>6, <1>7, <1>8, <1>9, <1>10, <1>11, <1>12, <1>13,
     <1>14, <1>15
     DEF FlightNext, Proceed

\* Each step keeps what a request has in hand a result, from its row or its search.
LEMMA StepRequests ==
  ASSUME IInv, [FlightNext]_flightVars
  PROVE  RequestKnows'
<1> USE FlightAssumption
<1> USE DEF IInv, FlightTypeOK, RequestKnows, caches
<1>1. ASSUME NEW r \in Seekers, Start(r)
      PROVE  RequestKnows'
  BY <1>1 DEF Start, MoveTo
<1>2. ASSUME NEW r \in Seekers, Acquire(r),
             deadline' = Remembered(deadline, 0)
      PROVE  RequestKnows'
  BY <1>2 DEF Acquire, HeldNext, Leave, MoveTo, Failure, Remembered
<1>3. ASSUME NEW r \in Seekers, ReadL1(r),
             stage' = Remembered(stage, "first"), deadline' = Remembered(deadline, 0)
      PROVE  RequestKnows'
  BY <1>3 DEF ReadL1, Leave, MoveTo, Remembered
<1>4. ASSUME NEW r \in Seekers, ReadL2(r),
             stage' = Remembered(stage, "first"), deadline' = Remembered(deadline, 0)
      PROVE  RequestKnows'
  <2>1. moment' = moment /\ built' = built
    BY <1>4 DEF ReadL2
  <2>2. CASE at'[r] = "copy"
    <3>1. Good(l2) /\ fetched'[r] = [made |-> l2.made, whole |-> l2.whole,
                                     left |-> l2.until - moment, readAt |-> moment]
      BY <1>4, <2>2 DEF ReadL2, AfterMiss, MoveTo
    <3>2. Reading(fetched'[r], moment)
      BY <3>1, ReadingOfRow DEF Good, RowIsResult
    <3>3. /\ \A s \in Seekers : s # r => at'[s] = at[s] /\ fetched'[s] = fetched[s]
          /\ DOMAIN fetched' = Seekers
      BY <1>4 DEF ReadL2, MoveTo
    <3> QED
      BY <2>1, <2>2, <3>2, <3>3
  <2>3. CASE at'[r] # "copy"
    BY <1>4, <2>1, <2>3 DEF ReadL2, AfterMiss, MoveTo
  <2> QED
    BY <2>2, <2>3
<1>5. ASSUME NEW r \in Seekers, CopyToL1(r),
             stage' = Remembered(stage, "first"), deadline' = Remembered(deadline, 0)
      PROVE  RequestKnows'
  BY <1>5 DEF CopyToL1, KeptFor, Shorter, Leave, MoveTo, Remembered
<1>6. ASSUME NEW r \in Seekers, Wait(r),
             stage' = Remembered(stage, "first"), deadline' = Remembered(deadline, 0)
      PROVE  RequestKnows'
  BY <1>6 DEF Wait, Leave, MoveTo, Remembered
<1>7. ASSUME NEW r \in Seekers, SearchSite(r),
             stage' = Remembered(stage, "first"), deadline' = Remembered(deadline, 0)
      PROVE  RequestKnows'
  <2>1. PICK whole \in BOOLEAN :
          built' = [built EXCEPT ![r] = [made |-> moment, until |-> 0, whole |-> whole]]
    BY <1>7 DEF SearchSite
  <2>2. [made |-> moment, until |-> 0, whole |-> whole] \in Row
    BY DEF Row
  <2>3. /\ moment' = moment /\ fetched' = fetched
        /\ at' = [at EXCEPT ![r] = "finish"]
    BY <1>7 DEF SearchSite, MoveTo
  <2> QED
    BY <2>1, <2>2, <2>3
<1>8. ASSUME NEW r \in Seekers, EndSearch(r),
             stage' = Remembered(stage, "first"), deadline' = Remembered(deadline, 0)
      PROVE  RequestKnows'
  <2>1. moment' = moment /\ fetched' = fetched /\ at[r] = "finish"
    BY <1>8 DEF EndSearch
  <2>2. CASE built' = [built EXCEPT ![r] = Made(moment)] /\ at' = [at EXCEPT ![r] = "store"]
    BY <2>1, <2>2, MadeIsResult
  <2>3. CASE /\ built' = [built EXCEPT ![r] = Absent]
             /\ at' = [at EXCEPT ![r] = IF stage[r] = "held" THEN "release" ELSE "end"]
    BY <2>1, <2>3
  <2> QED
    BY <1>8, <2>1, <2>2, <2>3, SearchEnds
<1>9. ASSUME NEW r \in Seekers, StoreL2(r),
             stage' = Remembered(stage, "first"), deadline' = Remembered(deadline, 0)
      PROVE  RequestKnows'
  BY <1>9 DEF StoreL2, Leave, MoveTo, Failure, Remembered
<1>10. ASSUME NEW r \in Seekers, Release(r),
             stage' = Remembered(stage, "first"), deadline' = Remembered(deadline, 0)
      PROVE  RequestKnows'
  BY <1>10 DEF Release, Unlock, MoveTo, Remembered
<1>11. ASSUME NEW r \in Seekers, Break(r)
      PROVE  RequestKnows'
  BY <1>11 DEF Break, RaiseTo, MoveTo, Failure
<1>12. ASSUME NEW r \in Seekers, LoseLock(r)
      PROVE  RequestKnows'
  BY <1>12 DEF LoseLock, Failure, locals, caches
<1>13. ASSUME NEW p \in Processes, Crash(p)
      PROVE  RequestKnows'
  BY <1>13 DEF Crash, Failure, Remembered
<1>14. ASSUME Elapse
      PROVE  RequestKnows'
  <2>1. moment' = moment + 1 /\ at' = at /\ fetched' = fetched /\ built' = built
    BY <1>14 DEF Elapse, locals
  <2> QED
    BY <2>1, Later
<1>15. ASSUME UNCHANGED flightVars
      PROVE  RequestKnows'
  BY <1>15 DEF flightVars, caches, locals
<1> HIDE DEF IInv
<1> QED
  BY <1>1, <1>2, <1>3, <1>4, <1>5, <1>6, <1>7, <1>8, <1>9, <1>10, <1>11, <1>12, <1>13,
     <1>14, <1>15
     DEF FlightNext, Proceed

\* The inductive invariant holds always.
LEMMA Invariant == FlightSpec => []IInv
<1>1. FlightInit => IInv
  <2> SUFFICES ASSUME FlightInit
               PROVE  IInv
    OBVIOUS
  <2>1. FlightTypeOK
    BY FlightAssumption DEF FlightInit, FlightTypeOK, Moments, Steps
  <2> QED
    BY <2>1 DEF FlightInit, IInv, HeldIsLocked, SearcherHolds, Searching, RowIsResult,
                CopyIsResult, RequestKnows, SharedIsRow
<1>2. IInv /\ [FlightNext]_flightVars => IInv'
  BY StepType, StepLocks, StepRow, StepCopies, StepRequests DEF IInv
<1> QED
  BY <1>1, <1>2, PTL DEF FlightSpec

\* The caches have rows, the lock and the requests are where they can be.
THEOREM TypeCorrect == FlightSpec => []FlightTypeOK
  BY Invariant, PTL DEF IInv

\* At most one search runs, apart from those whose lock was lost with its
\* connection.
THEOREM OneSearchAtATime == FlightSpec => []OneSearch
<1>1. IInv => OneSearch
  <2> SUFFICES ASSUME IInv
               PROVE  OneSearch
    OBVIOUS
  <2>1. Searching \ lost \in SUBSET {locker}
    BY DEF IInv, HeldIsLocked, SearcherHolds, Searching
  <2>2. IsFiniteSet({locker}) /\ Cardinality({locker}) = 1
    BY FS_Singleton
  <2> QED
    BY <2>1, <2>2, FS_Subset DEF OneSearch
<1> QED
  BY <1>1, Invariant, PTL

\* A cache gives out only complete results that are younger than the time to
\* live, up to the delay between a read of the table and the copy in memory.
THEOREM CachedYoung == FlightSpec => []CachedIsYoung
<1>1. IInv => CachedIsYoung
  <2> SUFFICES ASSUME IInv
               PROVE  CachedIsYoung
    OBVIOUS
  <2> USE FlightAssumption
  <2>1. ASSUME NEW p \in Processes, Good(l1[p])
        PROVE  l1[p].whole /\ moment - l1[p].made < Ttl + l1[p].late
    BY <2>1 DEF IInv, FlightTypeOK, CopyIsResult, CopyInTime, Good, L1Entry, Moments
  <2>2. ASSUME Good(l2)
        PROVE  l2.whole /\ moment - l2.made < Ttl
    BY <2>2 DEF IInv, FlightTypeOK, RowIsResult, Result, Good, Row, Moments
  <2> QED
    BY <2>1, <2>2 DEF CachedIsYoung
<1> QED
  BY <1>1, Invariant, PTL

SearchIsDue ==
  \A r \in Seekers :
    at[r] # "crawl" /\ at'[r] = "crawl" /\ errors' = 0 =>
      sharedAt = Absent \/ moment >= sharedAt + Ttl

\* As long as nothing fails, nobody searches while the result in the table is
\* good: the holder of the lock looks at the table again before it searches.
THEOREM SearchOnce == FlightSpec => SearchedOnce
<1>1. IInv /\ [FlightNext]_flightVars => [SearchIsDue]_flightVars
  <2> SUFFICES ASSUME IInv, [FlightNext]_flightVars, NEW r \in Seekers,
                      at[r] # "crawl", at'[r] = "crawl", errors' = 0, sharedAt # Absent
               PROVE  moment >= sharedAt + Ttl
    BY DEF SearchIsDue
  <2> USE DEF IInv, FlightTypeOK
  <2>1. ASSUME NEW s \in Seekers, ReadL2(s)
        PROVE  ~Good(l2)
    BY <2>1, FlightAssumption DEF ReadL2, Failure, MoveTo
  <2>2. ASSUME NEW s \in Seekers, Acquire(s) \/ Start(s) \/ Break(s) \/ LoseLock(s)
        PROVE  FALSE
    BY <2>2
       DEF Acquire, HeldNext, Leave, Start, Break, RaiseTo, LoseLock, MoveTo, locals
  <2>3. ASSUME NEW s \in Seekers,
               \/ ReadL1(s) \/ CopyToL1(s) \/ Wait(s) \/ SearchSite(s) \/ EndSearch(s)
               \/ StoreL2(s) \/ Release(s)
        PROVE  FALSE
    BY <2>3
       DEF ReadL1, CopyToL1, Wait, SearchSite, EndSearch, StoreL2, Release, Leave,
           MoveTo
  <2>4. ASSUME NEW p \in Processes, Crash(p)
        PROVE  FALSE
    BY <2>4 DEF Crash
  <2>5. ASSUME Elapse \/ UNCHANGED flightVars
        PROVE  FALSE
    BY <2>5 DEF Elapse, flightVars, locals
  <2>6. ~Good(l2)
    BY <2>1, <2>2, <2>3, <2>4, <2>5 DEF FlightNext, Proceed
  <2> QED
    BY <2>6, FlightAssumption DEF SharedIsRow, RowIsResult, Result, Row, Good, Moments
<1>2. FlightSpec => [][SearchIsDue]_flightVars
  BY <1>1, Invariant, PTL DEF FlightSpec
<1> QED
  BY <1>2, PTL DEF SearchedOnce, SearchIsDue

=============================================================================
