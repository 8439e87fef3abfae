------------------------ MODULE SourceRefresh_proofs ------------------------
(***************************************************************************)
(* Proofs about SourceRefresh, for any number of processes, any interval   *)
(* and any budgets of faults, lost locks, due signals and marks.           *)
(***************************************************************************)
EXTENDS SourceRefresh, TLAPS

\* What a process remembers of the crawl it is in: when it began, not before
\* the check that led to it, and what it read.
CrawlRemembers ==
  /\ site # 0
  /\ \A p \in Processes :
       at[p] \in Crawling
         => /\ startedAt[p] # Never
            /\ checkedAt[p] <= startedAt[p]
            /\ at[p] \in {"whole", "partial"} => seen[p] # 0

\* As long as no lock was lost, a crawl holds it, so that neither a snapshot
\* nor a due signal is later than its beginning.
CrawlIsLocked ==
  spent["drops"] = 0 =>
    \A p \in Processes :
      at[p] \in Crawling
        => locker = p /\ takenAt <= startedAt[p] /\ signalledAt <= startedAt[p]

\* As long as no signal cleared it, the watermark is not behind the snapshot.
WatermarkLeads == spent["signals"] = 0 => takenAt <= watermark

\* As long as no page crawl raised it, the watermark is that of the snapshot.
WatermarkTaken == spent["marks"] = 0 => watermark \in {Never, takenAt}

\* What a process takes for its success is in the row, or was replaced by the
\* snapshot of a later crawl.
SuccessIsTaken ==
  spent["marks"] = 0 /\ InOrder =>
    \A p \in Processes :
      /\ at[p] = "stored" => startedAt[p] <= takenAt
      /\ lastSuccess[p] <= takenAt

IInv ==
  /\ TypeOK
  /\ CrawlRemembers
  /\ CrawlIsLocked
  /\ WatermarkLeads
  /\ WatermarkTaken
  /\ SuccessIsTaken

\* Events are counted, never forgotten.
LEMMA SpendCounts ==
  ASSUME TypeOK, NEW what \in Events, Spend(what)
  PROVE  /\ spent' \in [Events -> Nat]
         /\ \A e \in Events : spent'[e] = IF e = what THEN spent[e] + 1 ELSE spent[e]
         /\ spent'[what] # 0
  BY DEF Spend, TypeOK

\* The events that the model spends are events.
LEMMA EventNames == {"faults", "drops", "signals", "marks"} \subseteq Events
  BY DEF Events

\* The types, and what a process remembers of its crawl.
LEMMA StepType ==
  ASSUME ConstantsAssumption, TypeOK, CrawlRemembers, [Next]_vars
  PROVE  TypeOK' /\ CrawlRemembers'
<1> USE ConstantsAssumption, SpendCounts, EventNames
    DEF TypeOK, CrawlRemembers, Never, Goto, End, Fault, Crawling, Resting, Places,
        source, memory
<1>1. ASSUME NEW p \in Processes, Check(p)
      PROVE  TypeOK' /\ CrawlRemembers'
  BY <1>1 DEF Check, Fresh
<1>2. ASSUME NEW p \in Processes, Recheck(p)
      PROVE  TypeOK' /\ CrawlRemembers'
  BY <1>2 DEF Recheck, Fresh
<1>3. ASSUME NEW p \in Processes, Command(p)
      PROVE  TypeOK' /\ CrawlRemembers'
  BY <1>3 DEF Command
<1>4. ASSUME NEW p \in Processes, Acquire(p)
      PROVE  TypeOK' /\ CrawlRemembers'
  BY <1>4 DEF Acquire
<1>5. ASSUME NEW p \in Processes, Fetch(p)
      PROVE  TypeOK' /\ CrawlRemembers'
  BY <1>5 DEF Fetch
<1>6. ASSUME NEW p \in Processes, Commit(p)
      PROVE  TypeOK' /\ CrawlRemembers'
  BY <1>6 DEF Commit, Superseded
<1>7. ASSUME NEW p \in Processes, Merge(p)
      PROVE  TypeOK' /\ CrawlRemembers'
  BY <1>7 DEF Merge, MergedMark
<1>8. ASSUME NEW p \in Processes, Raise(p)
      PROVE  TypeOK' /\ CrawlRemembers'
  BY <1>8 DEF Raise
<1>9. ASSUME NEW p \in Processes, Return(p)
      PROVE  TypeOK' /\ CrawlRemembers'
  BY <1>9 DEF Return, Unlocked, Succeeded
<1>10. ASSUME NEW p \in Processes, Crash(p)
      PROVE  TypeOK' /\ CrawlRemembers'
  BY <1>10 DEF Crash, Unlocked
<1>11. ASSUME NEW p \in Processes, Drop(p)
      PROVE  TypeOK' /\ CrawlRemembers'
  BY <1>11 DEF Drop
<1>12. CASE Signal
  BY <1>12 DEF Signal, MaySignal
<1>13. CASE MarkIncremental
  BY <1>13 DEF MarkIncremental
<1>14. CASE Publish
  BY <1>14 DEF Publish
<1>15. CASE Tick
  BY <1>15 DEF Tick
<1>16. CASE UNCHANGED vars
  BY <1>16 DEF vars
<1> QED
  BY <1>1, <1>2, <1>3, <1>4, <1>5, <1>6, <1>7, <1>8, <1>9,
     <1>10, <1>11, <1>12, <1>13, <1>14, <1>15, <1>16
     DEF Next, Refresh

\* A lock is taken when no other crawl runs, and the crawl begins now.
LEMMA StepCrawlIsLocked ==
  ASSUME ConstantsAssumption, TypeOK, CrawlRemembers, CrawlIsLocked, [Next]_vars
  PROVE  CrawlIsLocked'
<1> USE ConstantsAssumption, SpendCounts, EventNames
    DEF TypeOK, CrawlRemembers, Never, Goto, End, Fault, Crawling, Resting,
        source, memory, CrawlIsLocked
<1>1. ASSUME NEW p \in Processes, Check(p)
      PROVE  CrawlIsLocked'
  BY <1>1 DEF Check, Fresh
<1>2. ASSUME NEW p \in Processes, Recheck(p)
      PROVE  CrawlIsLocked'
  BY <1>2 DEF Recheck, Fresh
<1>3. ASSUME NEW p \in Processes, Command(p)
      PROVE  CrawlIsLocked'
  BY <1>3 DEF Command
<1>4. ASSUME NEW p \in Processes, Acquire(p)
      PROVE  CrawlIsLocked'
  BY <1>4 DEF Acquire
<1>5. ASSUME NEW p \in Processes, Fetch(p)
      PROVE  CrawlIsLocked'
  BY <1>5 DEF Fetch
<1>6. ASSUME NEW p \in Processes, Commit(p)
      PROVE  CrawlIsLocked'
  BY <1>6 DEF Commit, Superseded
<1>7. ASSUME NEW p \in Processes, Merge(p)
      PROVE  CrawlIsLocked'
  BY <1>7 DEF Merge, MergedMark
<1>8. ASSUME NEW p \in Processes, Raise(p)
      PROVE  CrawlIsLocked'
  BY <1>8 DEF Raise
<1>9. ASSUME NEW p \in Processes, Return(p)
      PROVE  CrawlIsLocked'
  BY <1>9 DEF Return, Unlocked, Succeeded
<1>10. ASSUME NEW p \in Processes, Crash(p)
      PROVE  CrawlIsLocked'
  BY <1>10 DEF Crash, Unlocked
<1>11. ASSUME NEW p \in Processes, Drop(p)
      PROVE  CrawlIsLocked'
  BY <1>11 DEF Drop
<1>12. CASE Signal
  BY <1>12 DEF Signal, MaySignal
<1>13. CASE MarkIncremental
  BY <1>13 DEF MarkIncremental
<1>14. CASE Publish
  BY <1>14 DEF Publish
<1>15. CASE Tick
  BY <1>15 DEF Tick
<1>16. CASE UNCHANGED vars
  BY <1>16 DEF vars
<1> QED
  BY <1>1, <1>2, <1>3, <1>4, <1>5, <1>6, <1>7, <1>8, <1>9,
     <1>10, <1>11, <1>12, <1>13, <1>14, <1>15, <1>16
     DEF Next, Refresh

\* An event that has not happened after a step had not happened before it.
LEMMA EventsGrow ==
  ASSUME TypeOK, [Next]_vars
  PROVE  \A e \in Events : spent'[e] = 0 => spent[e] = 0
<1>1. ASSUME spent' = spent
      PROVE  \A e \in Events : spent'[e] = 0 => spent[e] = 0
  BY <1>1
<1>2. ASSUME NEW what \in Events, Spend(what)
      PROVE  \A e \in Events : spent'[e] = 0 => spent[e] = 0
  BY <1>2, SpendCounts
<1>3. spent' = spent \/ \E what \in Events : Spend(what)
  BY EventNames
     DEF Next, vars, Refresh, Check, Recheck, Command, Acquire, Fetch, Commit, Merge,
         Raise, Return, Crash, Drop, Signal, MarkIncremental, Publish, Tick, Fault
<1> QED
  BY <1>1, <1>2, <1>3

\* The columns of the source are written by commits, signals and page crawls.
LEMMA SourceWriters ==
  ASSUME [Next]_vars, source' # source
  PROVE  (\E p \in Processes : Commit(p)) \/ Signal \/ MarkIncremental
  BY DEF Next, vars, Refresh, Check, Recheck, Command, Acquire, Fetch, Merge,
         MergedMark,
         Raise, Return, Crash, Drop, Publish, Tick, source

\* Only a signal brings the watermark behind the snapshot, and only a page
\* crawl gives it a time that no snapshot has.
LEMMA StepWatermark ==
  ASSUME TypeOK, CrawlRemembers, WatermarkLeads, WatermarkTaken, [Next]_vars
  PROVE  WatermarkLeads' /\ WatermarkTaken'
<1> USE DEF WatermarkLeads, WatermarkTaken
<1>1. /\ spent'["signals"] = 0 => spent["signals"] = 0
      /\ spent'["marks"] = 0 => spent["marks"] = 0
  BY EventsGrow, EventNames
<1>2. ASSUME NEW p \in Processes, Commit(p)
      PROVE  WatermarkLeads' /\ WatermarkTaken'
  BY <1>1, <1>2 DEF Commit, source, TypeOK
<1>3. CASE Signal
  <2>1. watermark' = Never /\ spent'["signals"] # 0
    BY <1>3, SpendCounts, EventNames DEF Signal
  <2> QED
    BY <2>1
<1>4. CASE MarkIncremental
  <2>1. /\ watermark' \in Nat /\ watermark' >= watermark /\ takenAt' = takenAt
        /\ spent'["marks"] # 0
    BY <1>4, SpendCounts, EventNames DEF MarkIncremental, TypeOK
  <2> QED
    BY <1>1, <2>1 DEF TypeOK
<1>5. CASE source' = source
  BY <1>1, <1>5 DEF source
<1> QED
  BY <1>2, <1>3, <1>4, <1>5, SourceWriters

\* In order, no snapshot is replaced by that of a crawl that began earlier: the
\* crawl holds the lock since it began, or finds a later watermark.
LEMMA SnapshotGrows ==
  ASSUME IInv, [Next]_vars, InOrder
  PROVE  takenAt' >= takenAt
<1>1. ASSUME NEW p \in Processes, Commit(p)
      PROVE  takenAt' >= takenAt
  <2>1. CASE Superseded(p)
    BY <1>1, <2>1 DEF Commit, source, IInv, TypeOK
  <2>2. CASE ~Superseded(p)
    <3>1. takenAt' = startedAt[p] /\ at[p] \in Crawling
      BY <1>1, <2>2 DEF Commit, Crawling
    <3>2. CASE spent["drops"] = 0
      BY <3>1, <3>2 DEF IInv, CrawlIsLocked, TypeOK
    <3>3. CASE spent["signals"] = 0
      BY <2>2, <3>1, <3>3 DEF IInv, WatermarkLeads, Superseded, TypeOK, Never
    <3> QED
      BY <3>2, <3>3 DEF InOrder
  <2> QED
    BY <2>1, <2>2
<1>2. CASE Signal \/ MarkIncremental
  BY <1>2 DEF Signal, MarkIncremental, IInv, TypeOK
<1>3. CASE source' = source
  BY <1>3 DEF source, IInv, TypeOK
<1> QED
  BY <1>1, <1>2, <1>3, SourceWriters

\* A crawl that ends as a success was committed, or found the snapshot of a
\* later one.
LEMMA StepSuccess ==
  ASSUME IInv, [Next]_vars
  PROVE  SuccessIsTaken'
<1> SUFFICES ASSUME spent'["marks"] = 0, InOrder', NEW p \in Processes
             PROVE  /\ at'[p] = "stored" => startedAt'[p] <= takenAt'
                    /\ lastSuccess'[p] <= takenAt'
  BY DEF SuccessIsTaken
<1>1. spent["marks"] = 0 /\ InOrder
  BY EventsGrow, EventNames DEF InOrder, IInv
<1>2. takenAt' >= takenAt /\ takenAt \in Nat /\ takenAt' \in Nat
  BY <1>1, SnapshotGrows, StepType, ConstantsAssumption DEF IInv, TypeOK
<1>3. /\ at[p] = "stored" => startedAt[p] <= takenAt
      /\ lastSuccess[p] <= takenAt
      /\ startedAt[p] \in Nat /\ lastSuccess[p] \in Nat /\ checkedAt[p] \in Nat
  BY <1>1 DEF SuccessIsTaken, IInv, TypeOK
<1>4. CASE Commit(p)
  <2>1. startedAt'[p] = startedAt[p] /\ lastSuccess'[p] = lastSuccess[p]
    BY <1>4 DEF Commit
  <2>2. startedAt[p] <= takenAt'
    BY <1>1, <1>3, <1>4
       DEF Commit, Superseded, source, IInv, WatermarkTaken, TypeOK, Never
  <2> QED
    BY <1>2, <1>3, <2>1, <2>2
<1>5. CASE Return(p)
  <2>1. at'[p] # "stored"
    BY <1>5 DEF Return, End, Goto, IInv, TypeOK
  <2>2. \/ lastSuccess'[p] = lastSuccess[p]
        \/ at[p] = "stored" /\ lastSuccess'[p] = checkedAt[p]
    BY <1>5 DEF Return, Succeeded, IInv, TypeOK
  <2>3. at[p] = "stored" => checkedAt[p] <= startedAt[p]
    BY DEF IInv, CrawlRemembers, Crawling
  <2> QED
    BY <1>2, <1>3, <2>1, <2>2, <2>3
<1>6. CASE Crash(p)
  BY <1>2, <1>6 DEF Crash, End, Goto, IInv, TypeOK, Never
<1>7. CASE ~Commit(p) /\ ~Return(p) /\ ~Crash(p)
  <2> DEFINE Kept == /\ at'[p] = "stored" => at[p] = "stored" /\ startedAt'[p] = startedAt[p]
                    /\ lastSuccess'[p] = lastSuccess[p]
  <2> USE DEF IInv, TypeOK
  <2>1. ASSUME NEW q \in Processes, Check(q)
        PROVE  Kept
    BY <2>1 DEF Check, Fresh, End, Goto
  <2>2. ASSUME NEW q \in Processes, Recheck(q)
        PROVE  Kept
    BY <2>2 DEF Recheck, Fresh, End, Goto
  <2>3. ASSUME NEW q \in Processes, Command(q)
        PROVE  Kept
    BY <2>3 DEF Command, Goto
  <2>4. ASSUME NEW q \in Processes, Acquire(q)
        PROVE  Kept
    BY <2>4 DEF Acquire, End, Goto
  <2>5. ASSUME NEW q \in Processes, Fetch(q)
        PROVE  Kept
    BY <2>5 DEF Fetch, Goto
  <2>6. ASSUME NEW q \in Processes, Merge(q)
        PROVE  Kept
    BY <2>6 DEF Merge, Goto
  <2>7. ASSUME NEW q \in Processes, Raise(q)
        PROVE  Kept
    BY <2>7 DEF Raise, Goto
  <2>8. ASSUME NEW q \in Processes, Drop(q)
        PROVE  Kept
    BY <2>8 DEF Drop, memory
  <2>9. ASSUME NEW q \in Processes, Commit(q)
        PROVE  Kept
    BY <1>7, <2>9 DEF Commit, Goto
  <2>10. ASSUME NEW q \in Processes, Return(q)
        PROVE  Kept
    BY <1>7, <2>10 DEF Return, End, Goto
  <2>11. ASSUME NEW q \in Processes, Crash(q)
        PROVE  Kept
    BY <1>7, <2>11 DEF Crash, End, Goto
  <2>12. ASSUME Signal \/ MarkIncremental \/ Publish \/ Tick \/ UNCHANGED vars
         PROVE  Kept
    <3>1. UNCHANGED memory
      BY <2>12 DEF Signal, MarkIncremental, Publish, Tick, vars
    <3> QED
      BY <3>1 DEF memory
  <2>13. Kept
    <3> HIDE DEF Kept, IInv, TypeOK
    <3> QED
      BY <2>1, <2>2, <2>3, <2>4, <2>5, <2>6, <2>7, <2>8, <2>9, <2>10, <2>11, <2>12
         DEF Next, Refresh
  <2> QED
    BY <1>2, <1>3, <2>13
<1> QED
  BY <1>4, <1>5, <1>6, <1>7

\* The inductive invariant.
LEMMA Invariant == Spec => []IInv
<1>1. Init => IInv
  BY ConstantsAssumption
     DEF Init, IInv, TypeOK, CrawlRemembers, CrawlIsLocked, WatermarkLeads,
         WatermarkTaken, SuccessIsTaken, Never, Crawling, Resting, Places
<1>2. IInv /\ [Next]_vars => IInv'
  BY ConstantsAssumption, StepType, StepCrawlIsLocked, StepWatermark, StepSuccess
     DEF IInv
<1> QED
  BY <1>1, <1>2, PTL DEF Spec

\* Watermark, snapshot, lock and the memory of every process are always of
\* their types; a snapshot has a time, and the lock a crawl.
THEOREM TypeCorrect == Spec => []TypeOK
  BY Invariant, PTL DEF IInv

SnapshotStays == InOrder => takenAt' >= takenAt

\* A snapshot is never replaced by that of a crawl that began earlier, also when
\* the crawl lost its lock, as long as no due signal cleared the watermark.
THEOREM SnapshotOrder == Spec => SnapshotNeverRegresses
<1>1. IInv /\ [Next]_vars => [SnapshotStays]_vars
  BY SnapshotGrows DEF SnapshotStays
<1>2. Spec => [][SnapshotStays]_vars
  BY <1>1, Invariant, PTL DEF Spec
<1> QED
  BY <1>2, PTL DEF SnapshotNeverRegresses, SnapshotStays

SignalAnswer ==
  /\ watermark = Never /\ watermark' # Never
  /\ spent'["drops"] = 0 /\ spent'["marks"] = 0
  => takenAt' = watermark' /\ takenAt' >= signalledAt

\* A due signal is answered only by the snapshot of a crawl that began after it.
THEOREM SignalAnswered == Spec => SignalIsAnswered
<1>1. IInv /\ [Next]_vars => [SignalAnswer]_vars
  <2> SUFFICES ASSUME IInv, [Next]_vars, watermark = Never, watermark' # Never,
                      spent'["drops"] = 0, spent'["marks"] = 0
               PROVE  takenAt' = watermark' /\ takenAt' >= signalledAt
    BY DEF SignalAnswer
  <2>1. spent["drops"] = 0
    BY EventsGrow, EventNames DEF IInv
  <2>2. ~Signal /\ ~MarkIncremental
    BY SpendCounts, EventNames DEF Signal, MarkIncremental, IInv
  <2>3. PICK p \in Processes : Commit(p)
    BY <2>2, SourceWriters DEF source
  <2>4. watermark' = startedAt[p] /\ takenAt' = startedAt[p] /\ at[p] \in Crawling
    BY <2>3 DEF Commit, source, Crawling
  <2> QED
    BY <2>1, <2>4 DEF IInv, CrawlIsLocked, TypeOK
<1>2. Spec => [][SignalAnswer]_vars
  BY <1>1, Invariant, PTL DEF Spec
<1> QED
  BY <1>2, PTL DEF SignalIsAnswered, SignalAnswer

FreshAnswer ==
  spent["marks"] = 0 /\ InOrder => \A p \in Processes :
    at'[p] = "fresh" /\ at[p] # "fresh"
      => takenAt # Never /\ now - takenAt < Interval

\* A process that answers fresh relies on the watermark, which is that of the
\* snapshot, or on its memory, which the snapshot is not behind.
THEOREM FreshSnapshots == Spec => FreshIsYoung
<1>1. IInv /\ [Next]_vars => [FreshAnswer]_vars
  <2> SUFFICES ASSUME IInv, [Next]_vars, spent["marks"] = 0, InOrder,
                      NEW p \in Processes, at'[p] = "fresh", at[p] # "fresh"
               PROVE  takenAt # Never /\ now - takenAt < Interval
    BY DEF FreshAnswer
  <2>1. ~Due(p)
    BY DEF Next, vars, Refresh, Check, Recheck, Command, Acquire, Fetch, Commit,
         Merge, Raise, Return, Crash, Drop, Signal, MarkIncremental, Publish, Tick,
         Fresh, End, Goto, memory, IInv, TypeOK
  <2>2. PICK t \in {watermark, lastSuccess[p]} : t # Never /\ ~(now - t >= Interval)
    BY <2>1 DEF Due
  <2>3. t <= takenAt
    BY <2>2 DEF IInv, WatermarkTaken, SuccessIsTaken, TypeOK
  <2> QED
    BY <2>2, <2>3, ConstantsAssumption DEF IInv, TypeOK, Never
<1>2. Spec => [][FreshAnswer]_vars
  BY <1>1, Invariant, PTL DEF Spec
<1> QED
  BY <1>2, PTL DEF FreshIsYoung, FreshAnswer

RefreshedAnswer ==
  spent["marks"] = 0 /\ InOrder => \A p \in Processes :
    at'[p] = "refreshed" /\ at[p] # "refreshed" => takenAt >= startedAt[p]

\* A process that answers refreshed has its snapshot, or a later one, in the row.
THEOREM RefreshedSnapshots == Spec => RefreshedIsStored
<1>1. IInv /\ [Next]_vars => [RefreshedAnswer]_vars
  <2> SUFFICES ASSUME IInv, [Next]_vars, spent["marks"] = 0, InOrder,
                      NEW p \in Processes, at'[p] = "refreshed", at[p] # "refreshed"
               PROVE  takenAt >= startedAt[p]
    BY DEF RefreshedAnswer
  <2>1. at[p] = "stored"
    BY DEF Next, vars, Refresh, Check, Recheck, Command, Acquire, Fetch, Commit,
         Merge, Raise, Return, Crash, Drop, Signal, MarkIncremental, Publish, Tick,
         Fresh, End, Goto, Succeeded, memory, IInv, TypeOK
  <2> QED
    BY <2>1 DEF IInv, SuccessIsTaken, TypeOK
<1>2. Spec => [][RefreshedAnswer]_vars
  BY <1>1, Invariant, PTL DEF Spec
<1> QED
  BY <1>2, PTL DEF RefreshedIsStored, RefreshedAnswer

=============================================================================
