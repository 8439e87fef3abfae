------------------------- MODULE PageIngestion_proofs -------------------------
(***************************************************************************)
(* Proofs about the ingestion of a page: what a worker that owns the crawl *)
(* lease knows about the row and the documents stays true until it settles *)
(* the claim, for every number of workers, versions and faults.  Every     *)
(* safety property of the module follows from that.                        *)
(***************************************************************************)
EXTENDS PageIngestion, TLAPS

\* The row and the documents say of version c what a crawl that is settled as
\* a success must leave behind.
Searchable(c) ==
  /\ c \in docs
  /\ status \in Ingested
  /\ isAnnouncement /\ listing # "not_applicable"
       => ingested = c /\ (c \in Notices => listing \in Terminal)

\* Announcements are begun, stored and failed of announcement pages only.
OnlyAnnouncements == isAnnouncement \/ listing = "not_applicable"

\* A worker that is past the fetch has a version of the page.
FetchedIsVersion ==
  \A w \in Workers : at[w] \in {"fetched"} \cup Ingesting => seen[w] # 0

\* The worker that owns the crawl lease of the page is the only one that
\* writes what it will report: when it decided that no ingestion is needed,
\* none is needed until the claim is settled; the row has the version it
\* ingests, unless a chat request wrote it; what it saved, completed or is
\* about to report as a success is as it left it; and it still has the lease
\* on the ingestion while it stores announcements only when the page is an
\* announcement page.
OwnerKnows(w) ==
  /\ at[w] \in {"checked", "fetched"} /\ ~pending[w] /\ known[w] # 0
       => Searchable(known[w])
  /\ at[w] \in Ingesting => liveSearch \/ stored = seen[w]
  /\ at[w] \in {"saved", "completed", "dated", "undated"} => seen[w] \in docs
  /\ at[w] \in {"completed", "dated", "undated"} => ingested = seen[w]
  /\ at[w] \in {"completed", "dated", "undated", "partial"} /\ ilease = w => isAnnouncement
  /\ /\ at[w] = "result"
     /\ outcome[w] \in {"changed", "unchanged"}
     /\ seen[w] \notin Blanks
     => Searchable(seen[w])

OwnerIsRight == \A w \in Workers : Owns(w) => OwnerKnows(w)

IInv == TypeOK /\ FetchedIsVersion /\ OnlyAnnouncements /\ OwnerIsRight

\* When the site never goes back, the current document is the newest, nothing
\* is newer than what the site serves, and the owner of the lease has fetched
\* a version at least as new as the current document.
NewestIsCurrent ==
  /\ current <= site
  /\ \A d \in docs : d <= current
  /\ \A w \in Workers : seen[w] <= site

\* While the owner replaces the current document the row is not recorded as
\* ingested, and it is again only for the version that was made current.
OwnerSwitches(w) ==
  /\ at[w] \in {"fetched"} \cup Ingesting => current <= seen[w]
  /\ at[w] = "begun" => status = "pending"
  /\ at[w] = "saved" => current = seen[w] /\ status = "pending"
  /\ at[w] \in {"completed", "dated", "undated", "partial"} => ingested = current

OwnerIsNewest == \A w \in Workers : Owns(w) => OwnerSwitches(w)

OrderInv == NewestIsCurrent /\ OwnerIsNewest /\ CurrentIsIngested

-----------------------------------------------------------------------------

\* Each step keeps the types.
LEMMA StepType ==
  ASSUME IInv, [Next]_vars
  PROVE  TypeOK'
<1> USE ConstantsAssumption
<1> USE DEF IInv, TypeOK, FetchedIsVersion, Places, Crawling, Ingesting, Versions,
            Tokens, Terminal, Owns, world, setting, crawl, columns, library, memory
<1>1. ASSUME NEW v \in Workers, Claim(v)
      PROVE  TypeOK'
  BY <1>1 DEF Claim, Goto
<1>2. ASSUME NEW v \in Workers, Check(v)
      PROVE  TypeOK'
  BY <1>2, ZenonT(40) DEF Check, Report, Goto, Needs, HasDocument
<1>3. ASSUME NEW v \in Workers, Fetch(v)
      PROVE  TypeOK'
  BY <1>3 DEF Fetch, Report, Goto
<1>4. ASSUME NEW v \in Workers, Persist(v)
      PROVE  TypeOK'
  BY <1>4 DEF Persist, MustIngest, Report, Goto, Fault
<1>5. ASSUME NEW v \in Workers, Begin(v)
      PROVE  TypeOK'
  BY <1>5 DEF Begin, Enter, MarkSuccess, HasDocument, Report, Goto
<1>6. ASSUME NEW v \in Workers, Save(v)
      PROVE  TypeOK'
  <2>1. seen[v] \in Versions
    BY <1>6 DEF Save
  <2>2. /\ docs' \subseteq Versions
        /\ current' \in docs' \/ (current' = 0 /\ docs' = {})
    BY <1>6, <2>1 DEF Save, CurrentAfter
  <2>3. current' \in 0..MaxVersion
    BY <1>6, <2>1 DEF Save, CurrentAfter
  <2> QED
    BY <1>6, <2>2, <2>3 DEF Save, Goto
<1>7. ASSUME NEW v \in Workers, CompleteIngestion(v)
      PROVE  TypeOK'
  BY <1>7 DEF CompleteIngestion, MarkSuccess, IsNotice, Holds, Goto
<1>8. ASSUME NEW v \in Workers, PersistAnnouncements(v)
      PROVE  TypeOK'
  BY <1>8 DEF PersistAnnouncements, Goto, Fault
<1>9. ASSUME NEW v \in Workers, CompleteAnnouncement(v)
      PROVE  TypeOK'
  BY <1>9 DEF CompleteAnnouncement, Holds, Goto
<1>10. ASSUME NEW v \in Workers, FailAnnouncement(v)
      PROVE  TypeOK'
  BY <1>10 DEF FailAnnouncement, Holds, Report, Goto
<1>11. ASSUME NEW v \in Workers, FailIngestion(v)
      PROVE  TypeOK'
  BY <1>11 DEF FailIngestion, MayFail, Holds, Report, Goto, Fault
<1>12. ASSUME NEW v \in Workers, Settle(v)
      PROVE  TypeOK'
  <2>1. CASE Owns(v)
    BY <1>12, <2>1 DEF Settle, Forget, Goto
  <2>2. CASE ~Owns(v)
    <3>1. lease' = lease /\ live' = live
      BY <1>12, <2>2 DEF Settle
    <3>2. /\ at' \in [Workers -> Places]
          /\ known' \in [Workers -> 0..MaxVersion]
          /\ pending' \in [Workers -> BOOLEAN]
          /\ seen' \in [Workers -> 0..MaxVersion]
          /\ outcome' \in [Workers -> {"none", "changed", "unchanged", "lost", "failed"}]
      BY <1>12 DEF Settle, Forget, Goto
    <3>3. UNCHANGED <<world, site, faults, stored, columns, library>>
      BY <1>12 DEF Settle
    <3> QED
      BY <3>1, <3>2, <3>3
  <2> QED
    BY <2>1, <2>2
<1>13. ASSUME NEW v \in Workers, Raise(v)
      PROVE  TypeOK'
  BY <1>13 DEF Raise, Report, Goto, Fault
<1>14. ASSUME NEW v \in Workers, Crash(v)
      PROVE  TypeOK'
  BY <1>14 DEF Crash, Forget, Goto, Fault
<1>15. CASE Expire
  <2>1. live' = FALSE /\ lease' = lease /\ faults' \in Nat
    BY <1>15 DEF Expire, Fault
  <2>2. UNCHANGED <<world, site, stored, columns, library, memory>>
    BY <1>15 DEF Expire
  <2> QED
    BY <2>1, <2>2
<1>16. CASE LiveStore
  <2>1. isAnnouncement' \in BOOLEAN
    BY <1>16 DEF LiveStore
  <2>2. stored' \in 0..MaxVersion
    BY <1>16 DEF LiveStore
  <2>3. UNCHANGED <<setting, site, faults, crawl, columns, library, memory>>
    BY <1>16 DEF LiveStore
  <2> QED
    BY <2>1, <2>2, <2>3
<1>17. CASE Reclassify
  BY <1>17 DEF Reclassify
<1>18. CASE Edit
  BY <1>18 DEF Edit
<1>19. CASE UNCHANGED vars
  BY <1>19 DEF vars
<1> QED
  BY <1>1, <1>2, <1>3, <1>4, <1>5, <1>6, <1>7, <1>8, <1>9, <1>10, <1>11, <1>12, <1>13,
     <1>14, <1>15, <1>16, <1>17, <1>18, <1>19
     DEF Next, Work

\* Each step keeps what a crawl fetched a version that was published.
LEMMA StepFetched ==
  ASSUME IInv, [Next]_vars
  PROVE  FetchedIsVersion'
<1> USE DEF IInv, TypeOK, FetchedIsVersion, Crawling, Ingesting, Versions,
            Owns, world, setting, crawl, columns, library, memory
<1>1. ASSUME NEW v \in Workers, Claim(v)
      PROVE  FetchedIsVersion'
  BY <1>1 DEF Claim, Goto
<1>2. ASSUME NEW v \in Workers, Check(v)
      PROVE  FetchedIsVersion'
  BY <1>2 DEF Check, Report, Goto, Needs, HasDocument
<1>3. ASSUME NEW v \in Workers, Fetch(v)
      PROVE  FetchedIsVersion'
  BY <1>3 DEF Fetch, Report, Goto
<1>4. ASSUME NEW v \in Workers, Persist(v)
      PROVE  FetchedIsVersion'
  BY <1>4 DEF Persist, MustIngest, Report, Goto, Fault
<1>5. ASSUME NEW v \in Workers, Begin(v)
      PROVE  FetchedIsVersion'
  BY <1>5 DEF Begin, Enter, MarkSuccess, HasDocument, Report, Goto
<1>6. ASSUME NEW v \in Workers, Save(v)
      PROVE  FetchedIsVersion'
  BY <1>6 DEF Save, MaySave, CurrentAfter, Holds, Goto
<1>7. ASSUME NEW v \in Workers, CompleteIngestion(v)
      PROVE  FetchedIsVersion'
  BY <1>7 DEF CompleteIngestion, MarkSuccess, IsNotice, Holds, Goto
<1>8. ASSUME NEW v \in Workers, PersistAnnouncements(v)
      PROVE  FetchedIsVersion'
  BY <1>8 DEF PersistAnnouncements, Goto, Fault
<1>9. ASSUME NEW v \in Workers, CompleteAnnouncement(v)
      PROVE  FetchedIsVersion'
  BY <1>9 DEF CompleteAnnouncement, Holds, Goto
<1>10. ASSUME NEW v \in Workers, FailAnnouncement(v)
      PROVE  FetchedIsVersion'
  BY <1>10 DEF FailAnnouncement, Holds, Report, Goto
<1>11. ASSUME NEW v \in Workers, FailIngestion(v)
      PROVE  FetchedIsVersion'
  BY <1>11 DEF FailIngestion, MayFail, Holds, Report, Goto, Fault
<1>12. ASSUME NEW v \in Workers, Settle(v)
      PROVE  FetchedIsVersion'
  BY <1>12 DEF Settle, Forget, Goto
<1>13. ASSUME NEW v \in Workers, Raise(v)
      PROVE  FetchedIsVersion'
  BY <1>13 DEF Raise, Report, Goto, Fault
<1>14. ASSUME NEW v \in Workers, Crash(v)
      PROVE  FetchedIsVersion'
  BY <1>14 DEF Crash, Forget, Goto, Fault
<1>15. CASE Expire
  BY <1>15 DEF Expire, Fault
<1>16. CASE LiveStore
  BY <1>16 DEF LiveStore
<1>17. CASE Reclassify
  BY <1>17 DEF Reclassify
<1>18. CASE Edit
  BY <1>18 DEF Edit
<1>19. CASE UNCHANGED vars
  BY <1>19 DEF vars
<1> QED
  BY <1>1, <1>2, <1>3, <1>4, <1>5, <1>6, <1>7, <1>8, <1>9, <1>10, <1>11, <1>12, <1>13,
     <1>14, <1>15, <1>16, <1>17, <1>18, <1>19
     DEF Next, Work

\* Each step keeps the announcements of a page that has none unbegun: the lease
\* that their end is written under is kept for an announcement page only.
LEMMA StepOnlyAnnouncements ==
  ASSUME IInv, [Next]_vars
  PROVE  OnlyAnnouncements'
<1> USE DEF IInv, OnlyAnnouncements, OwnerIsRight, OwnerKnows, world, setting, columns
<1>1. ASSUME NEW v \in Workers, Begin(v)
      PROVE  OnlyAnnouncements'
  BY <1>1 DEF Begin, Enter, MarkSuccess
<1>2. ASSUME NEW v \in Workers, CompleteIngestion(v)
      PROVE  OnlyAnnouncements'
  BY <1>2 DEF CompleteIngestion
<1>3. ASSUME NEW v \in Workers, CompleteAnnouncement(v) \/ FailAnnouncement(v)
      PROVE  OnlyAnnouncements'
  BY <1>3 DEF CompleteAnnouncement, FailAnnouncement, Holds
<1>4. ASSUME NEW v \in Workers,
             \/ Claim(v) \/ Check(v) \/ Fetch(v) \/ Persist(v) \/ Save(v)
             \/ PersistAnnouncements(v) \/ FailIngestion(v) \/ Settle(v)
             \/ Raise(v) \/ Crash(v)
      PROVE  OnlyAnnouncements'
  BY <1>4
     DEF Claim, Check, Fetch, Persist, Save, PersistAnnouncements, FailIngestion,
         Settle, Raise, Crash
<1>5. ASSUME Expire \/ LiveStore \/ Reclassify \/ Edit \/ UNCHANGED vars
      PROVE  OnlyAnnouncements'
  BY <1>5 DEF Expire, LiveStore, Reclassify, Edit, vars
<1> QED
  BY <1>1, <1>2, <1>3, <1>4, <1>5 DEF Next, Work

\* Each step keeps what the owner of a lease knows of the row and the library.
LEMMA StepOwner ==
  ASSUME IInv, [Next]_vars
  PROVE  OwnerIsRight'
<1> USE ConstantsAssumption
<1> USE DEF IInv, TypeOK, FetchedIsVersion, OnlyAnnouncements, OwnerIsRight, OwnerKnows,
            Searchable, Crawling, Ingesting, Versions, Ingested, Terminal, Owns,
            world, setting, crawl, columns, library, memory
<1>1. ASSUME NEW v \in Workers, Claim(v)
      PROVE  OwnerIsRight'
  BY <1>1 DEF Claim, Goto
<1>2. ASSUME NEW v \in Workers, Check(v)
      PROVE  OwnerIsRight'
  <2> SUFFICES ASSUME NEW w \in Workers, Owns(w)'
               PROVE  OwnerKnows(w)'
    OBVIOUS
  <2>1. Owns(w) /\ OwnerKnows(w) /\ UNCHANGED <<columns, library, stored, world>>
    BY <1>2 DEF Check, Report, Goto
  <2>2. CASE w = v
    <3>1. /\ at'[v] = "checked"
          /\ known'[v] = known[v]
          /\ pending'[v] = (known[v] # 0 /\ Needs(known[v]))
      BY <1>2, <2>1, <2>2 DEF Check, Goto
    <3>2. ~pending'[v] /\ known[v] # 0 => ~Needs(known[v])
      BY <3>1
    <3>3. ~Needs(known[v]) => Searchable(known[v])'
      BY <2>1, <3>1 DEF Needs, HasDocument
    <3> QED
      BY <2>2, <3>1, <3>2, <3>3
  <2>3. CASE w # v
    <3>1. /\ at'[w] = at[w] /\ known'[w] = known[w] /\ pending'[w] = pending[w]
          /\ seen'[w] = seen[w] /\ outcome'[w] = outcome[w]
      BY <1>2, <2>3 DEF Check, Report, Goto
    <3> QED
      BY <2>1, <3>1
  <2> QED
    BY <2>2, <2>3
<1>3. ASSUME NEW v \in Workers, Fetch(v)
      PROVE  OwnerIsRight'
  BY <1>3 DEF Fetch, Report, Goto
<1>4. ASSUME NEW v \in Workers, Persist(v)
      PROVE  OwnerIsRight'
  BY <1>4 DEF Persist, MustIngest, Report, Goto, Fault
<1>5. ASSUME NEW v \in Workers, Begin(v)
      PROVE  OwnerIsRight'
  BY <1>5 DEF Begin, Enter, MarkSuccess, HasDocument, Report, Goto
<1>6. ASSUME NEW v \in Workers, Save(v)
      PROVE  OwnerIsRight'
  BY <1>6 DEF Save, MaySave, CurrentAfter, Holds, Goto
<1>7. ASSUME NEW v \in Workers, CompleteIngestion(v)
      PROVE  OwnerIsRight'
  BY <1>7 DEF CompleteIngestion, MarkSuccess, IsNotice, Holds, Goto
<1>8. ASSUME NEW v \in Workers, PersistAnnouncements(v)
      PROVE  OwnerIsRight'
  BY <1>8 DEF PersistAnnouncements, Goto, Fault
<1>9. ASSUME NEW v \in Workers, CompleteAnnouncement(v)
      PROVE  OwnerIsRight'
  BY <1>9 DEF CompleteAnnouncement, Holds, Goto
<1>10. ASSUME NEW v \in Workers, FailAnnouncement(v)
      PROVE  OwnerIsRight'
  BY <1>10 DEF FailAnnouncement, Holds, Report, Goto
<1>11. ASSUME NEW v \in Workers, FailIngestion(v)
      PROVE  OwnerIsRight'
  BY <1>11 DEF FailIngestion, MayFail, Holds, Report, Goto, Fault
<1>12. ASSUME NEW v \in Workers, Settle(v)
      PROVE  OwnerIsRight'
  BY <1>12, ZenonT(40) DEF Settle, Forget, Goto
<1>13. ASSUME NEW v \in Workers, Raise(v)
      PROVE  OwnerIsRight'
  BY <1>13 DEF Raise, Report, Goto, Fault
<1>14. ASSUME NEW v \in Workers, Crash(v)
      PROVE  OwnerIsRight'
  BY <1>14 DEF Crash, Forget, Goto, Fault
<1>15. CASE Expire
  BY <1>15 DEF Expire, Fault
<1>16. CASE LiveStore
  <2> SUFFICES ASSUME NEW w \in Workers, Owns(w)'
               PROVE  OwnerKnows(w)'
    OBVIOUS
  <2>1. UNCHANGED <<setting, crawl, columns, library, memory>>
    BY <1>16 DEF LiveStore
  <2>2. liveSearch' /\ (isAnnouncement => isAnnouncement')
    <3>1. liveSearch
      BY <1>16 DEF LiveStore
    <3>2. isAnnouncement' = isAnnouncement \/ isAnnouncement' = TRUE
      BY <1>16 DEF LiveStore
    <3> QED
      BY <2>1, <3>1, <3>2
  <2>3. \A c : Searchable(c) => Searchable(c)'
    BY <2>1, <2>2
  <2>4. OwnerKnows(w)
    BY <2>1
  <2> QED
    BY <2>1, <2>2, <2>3, <2>4
<1>17. CASE Reclassify
  <2> SUFFICES ASSUME NEW w \in Workers, Owns(w)'
               PROVE  OwnerKnows(w)'
    OBVIOUS
  <2>1. /\ listing = "not_applicable" /\ isAnnouncement'
        /\ UNCHANGED <<setting, stored, crawl, columns, library, memory>>
    BY <1>17 DEF Reclassify
  <2>2. \A c : Searchable(c) => Searchable(c)'
    BY <2>1
  <2>3. OwnerKnows(w)
    BY <2>1
  <2> QED
    BY <2>1, <2>2, <2>3
<1>18. CASE Edit
  BY <1>18 DEF Edit
<1>19. CASE UNCHANGED vars
  BY <1>19 DEF vars
<1> QED
  BY <1>1, <1>2, <1>3, <1>4, <1>5, <1>6, <1>7, <1>8, <1>9, <1>10, <1>11, <1>12, <1>13,
     <1>14, <1>15, <1>16, <1>17, <1>18, <1>19
     DEF Next, Work

\* When a page never returns to an earlier version, each step keeps the order of
\* the versions, and with it that the current version is the one ingested.
LEMMA StepOrder ==
  ASSUME Reverts = FALSE, IInv, OrderInv, [Next]_vars
  PROVE  OrderInv'
<1> USE ConstantsAssumption
<1> USE DEF IInv, TypeOK, FetchedIsVersion, OrderInv, NewestIsCurrent, OwnerIsNewest,
            OwnerSwitches, CurrentIsIngested, Crawling, Ingesting, Versions,
            Ingested, Terminal, Owns, world, setting, crawl, columns, library, memory
<1>1. ASSUME NEW v \in Workers, Claim(v)
      PROVE  OrderInv'
  BY <1>1 DEF Claim, Goto
<1>2. ASSUME NEW v \in Workers, Check(v)
      PROVE  OrderInv'
  BY <1>2 DEF Check, Report, Goto, Needs, HasDocument
<1>3. ASSUME NEW v \in Workers, Fetch(v)
      PROVE  OrderInv'
  BY <1>3 DEF Fetch, Report, Goto
<1>4. ASSUME NEW v \in Workers, Persist(v)
      PROVE  OrderInv'
  BY <1>4 DEF Persist, MustIngest, Report, Goto, Fault
<1>5. ASSUME NEW v \in Workers, Begin(v)
      PROVE  OrderInv'
  BY <1>5 DEF Begin, Enter, MarkSuccess, HasDocument, Report, Goto
<1>6. ASSUME NEW v \in Workers, Save(v)
      PROVE  OrderInv'
  <2>1. CASE Holds(v)
    <3>1. /\ at[v] = "begun" /\ status = "pending" /\ current <= seen[v]
          /\ seen[v] \in Versions /\ lease = v
      BY <1>6, <2>1 DEF Save, Holds
    <3>2. current' = seen[v]
      BY <1>6, <2>1, <3>1 DEF Save, MaySave, CurrentAfter, Holds
    <3>3. /\ docs' = docs \cup {seen[v]}
          /\ UNCHANGED <<site, crawl, columns, seen>>
          /\ at' = [at EXCEPT ![v] = "saved"]
      BY <1>6, <2>1 DEF Save, MaySave, Goto
    <3>4. NewestIsCurrent'
      BY <3>1, <3>2, <3>3
    <3>5. OwnerIsNewest'
      BY <3>1, <3>2, <3>3
    <3> QED
      BY <3>1, <3>3, <3>4, <3>5
  <2>2. CASE ~Holds(v)
    <3>1. /\ UNCHANGED <<site, crawl, columns, library, seen>>
          /\ at' = [at EXCEPT ![v] = "failing"]
      BY <1>6, <2>2 DEF Save, MaySave, Goto
    <3> QED
      BY <3>1
  <2> QED
    BY <2>1, <2>2
<1>7. ASSUME NEW v \in Workers, CompleteIngestion(v)
      PROVE  OrderInv'
  BY <1>7 DEF CompleteIngestion, MarkSuccess, IsNotice, Holds, Goto
<1>8. ASSUME NEW v \in Workers, PersistAnnouncements(v)
      PROVE  OrderInv'
  BY <1>8 DEF PersistAnnouncements, Goto, Fault
<1>9. ASSUME NEW v \in Workers, CompleteAnnouncement(v)
      PROVE  OrderInv'
  BY <1>9 DEF CompleteAnnouncement, Holds, Goto
<1>10. ASSUME NEW v \in Workers, FailAnnouncement(v)
      PROVE  OrderInv'
  BY <1>10 DEF FailAnnouncement, Holds, Report, Goto
<1>11. ASSUME NEW v \in Workers, FailIngestion(v)
      PROVE  OrderInv'
  BY <1>11 DEF FailIngestion, MayFail, Holds, Report, Goto, Fault
<1>12. ASSUME NEW v \in Workers, Settle(v)
      PROVE  OrderInv'
  BY <1>12 DEF Settle, Forget, Goto
<1>13. ASSUME NEW v \in Workers, Raise(v)
      PROVE  OrderInv'
  BY <1>13 DEF Raise, Report, Goto, Fault
<1>14. ASSUME NEW v \in Workers, Crash(v)
      PROVE  OrderInv'
  BY <1>14 DEF Crash, Forget, Goto, Fault
<1>15. CASE Expire
  BY <1>15 DEF Expire, Fault
<1>16. CASE LiveStore
  BY <1>16 DEF LiveStore
<1>17. CASE Reclassify
  BY <1>17 DEF Reclassify
<1>18. CASE Edit
  BY <1>18 DEF Edit
<1>19. CASE UNCHANGED vars
  BY <1>19 DEF vars
<1> HIDE DEF IInv, OrderInv
<1> QED
  BY <1>1, <1>2, <1>3, <1>4, <1>5, <1>6, <1>7, <1>8, <1>9, <1>10, <1>11, <1>12, <1>13,
     <1>14, <1>15, <1>16, <1>17, <1>18, <1>19
     DEF Next, Work

\* The inductive invariant holds always.
LEMMA Invariant == Spec => []IInv
<1>1. Init => IInv
  <2> SUFFICES ASSUME Init
               PROVE  IInv
    OBVIOUS
  <2>1. /\ {isAnnouncement, allowlisted, liveSearch} \subseteq BOOLEAN
        /\ live \in BOOLEAN
        /\ at \in [Workers -> Places]
        /\ pending \in [Workers -> BOOLEAN]
    BY DEF Init, Places
  <2>2. /\ site \in Versions
        /\ stored \in 0..MaxVersion
        /\ docs \subseteq Versions
        /\ current \in 0..MaxVersion
        /\ current \in docs \/ (current = 0 /\ docs = {})
    BY ConstantsAssumption DEF Init, Versions
  <2>3. TypeOK
    BY <2>1, <2>2, ConstantsAssumption DEF Init, TypeOK, Tokens
  <2> QED
    BY <2>3 DEF Init, IInv, FetchedIsVersion, OnlyAnnouncements, OwnerIsRight, Owns, Ingesting
<1>2. IInv /\ [Next]_vars => IInv'
  BY StepType, StepFetched, StepOnlyAnnouncements, StepOwner DEF IInv
<1> QED
  BY <1>1, <1>2, PTL DEF Spec

\* The columns of the page, the documents and the memory of the workers are
\* always of their types; there is a current document as soon as there is one.
THEOREM TypeCorrect == Spec => []TypeOK
  BY Invariant, PTL DEF IInv

FollowsRow ==
  ~liveSearch => /\ current' # current => current' = stored
                 /\ ingested' # ingested => ingested' = stored

\* The current document and the version recorded as ingested move only to the
\* version in the page row: a stalled worker has no lease to write with.
THEOREM RowIsFollowed == Spec => VersionsFollowRow
<1>1. IInv /\ [Next]_vars => [FollowsRow]_vars
  <2> SUFFICES ASSUME IInv, [Next]_vars, ~liveSearch
               PROVE  /\ current' # current => current' = stored
                      /\ ingested' # ingested => ingested' = stored
    BY DEF FollowsRow
  <2> USE DEF IInv, TypeOK, OwnerIsRight, OwnerKnows, Ingesting, Owns, columns, library
  <2>1. ASSUME NEW v \in Workers, Save(v)
        PROVE  /\ current' # current => current' = stored
               /\ ingested' = ingested
    BY <2>1 DEF Save, MaySave, CurrentAfter, Holds
  <2>2. ASSUME NEW v \in Workers, Begin(v)
        PROVE  /\ ingested' # ingested => ingested' = stored
               /\ current' = current
    BY <2>2 DEF Begin, Enter, MarkSuccess
  <2>3. ASSUME NEW v \in Workers, CompleteIngestion(v)
        PROVE  /\ ingested' # ingested => ingested' = stored
               /\ current' = current
    BY <2>3 DEF CompleteIngestion, MarkSuccess, IsNotice, Holds
  <2>4. ASSUME NEW v \in Workers,
               \/ Claim(v) \/ Check(v) \/ Fetch(v) \/ Persist(v)
               \/ PersistAnnouncements(v) \/ CompleteAnnouncement(v)
               \/ FailAnnouncement(v) \/ FailIngestion(v) \/ Settle(v)
               \/ Raise(v) \/ Crash(v)
        PROVE  ingested' = ingested /\ current' = current
    BY <2>4
       DEF Claim, Check, Fetch, Persist, PersistAnnouncements, CompleteAnnouncement,
                FailAnnouncement, FailIngestion, Settle, Raise, Crash
  <2>5. ASSUME Expire \/ LiveStore \/ Reclassify \/ Edit \/ UNCHANGED vars
        PROVE  ingested' = ingested /\ current' = current
    BY <2>5 DEF Expire, LiveStore, Reclassify, Edit, vars
  <2> QED
    BY <2>1, <2>2, <2>3, <2>4, <2>5 DEF Next, Work
<1>2. Spec => [][FollowsRow]_vars
  BY <1>1, Invariant, PTL DEF Spec
<1> QED
  BY <1>2, PTL DEF VersionsFollowRow, FollowsRow

SuccessHolds ==
  \A w \in Workers :
    /\ Owns(w)
    /\ lease' = Nobody
    /\ outcome[w] \in {"changed", "unchanged"}
    /\ seen[w] \notin Blanks
    => /\ seen[w] \in docs
       /\ status \in Ingested
       /\ isAnnouncement /\ listing # "not_applicable"
            => /\ ingested = seen[w]
               /\ seen[w] \in Notices => listing \in Terminal

\* A crawl that is recorded as a success leaves the version it reports
\* searchable, whatever crashed or failed in the crawls before it.  When the
\* page is an announcement page whose ingestion was begun as one, the row is
\* recorded with that version, and its announcements are settled when the
\* version is a notice.
THEOREM SuccessSearchable == Spec => SuccessIsIngested
<1>1. IInv /\ [Next]_vars => [SuccessHolds]_vars
  <2> SUFFICES ASSUME IInv, [Next]_vars, NEW w \in Workers, Owns(w), lease' = Nobody,
                      outcome[w] \in {"changed", "unchanged"}, seen[w] \notin Blanks
               PROVE  Searchable(seen[w])
    BY DEF SuccessHolds, Searchable
  <2>1. lease = w /\ w # Nobody
    BY ConstantsAssumption DEF Owns
  <2>2. ASSUME NEW v \in Workers, Settle(v)
        PROVE  at[w] = "result"
    BY <2>1, <2>2 DEF Settle, Owns
  <2>3. ASSUME NEW v \in Workers, Claim(v)
        PROVE  FALSE
    BY <2>1, <2>3, ConstantsAssumption DEF Claim
  <2>4. ASSUME NEW v \in Workers,
               \/ Check(v) \/ Fetch(v) \/ Persist(v) \/ Begin(v) \/ Save(v)
               \/ CompleteIngestion(v) \/ PersistAnnouncements(v)
               \/ CompleteAnnouncement(v) \/ FailAnnouncement(v) \/ FailIngestion(v)
               \/ Raise(v) \/ Crash(v)
        PROVE  FALSE
    BY <2>1, <2>4
       DEF Check, Fetch, Persist, Begin, Save, CompleteIngestion, PersistAnnouncements,
           CompleteAnnouncement, FailAnnouncement, FailIngestion, Raise, Crash, crawl
  <2>5. ASSUME Expire \/ LiveStore \/ Reclassify \/ Edit \/ UNCHANGED vars
        PROVE  FALSE
    BY <2>1, <2>5 DEF Expire, LiveStore, Reclassify, Edit, vars, crawl
  <2>6. at[w] = "result"
    BY <2>2, <2>3, <2>4, <2>5 DEF Next, Work
  <2> QED
    BY <2>6 DEF IInv, OwnerIsRight, OwnerKnows
<1>2. Spec => [][SuccessHolds]_vars
  BY <1>1, Invariant, PTL DEF Spec
<1> QED
  BY <1>2, PTL DEF SuccessIsIngested, SuccessHolds

\* When the page never goes back to a version that has a document, the current
\* document of a page recorded as ingested is the version it is recorded for.
THEOREM CurrentIngested ==
  ASSUME Reverts = FALSE
  PROVE  Spec => []CurrentIsIngested
<1>1. Init => OrderInv
  BY ConstantsAssumption
     DEF Init, OrderInv, NewestIsCurrent, OwnerIsNewest, CurrentIsIngested, Owns, Ingested
<1>2. IInv /\ OrderInv /\ [Next]_vars => OrderInv'
  BY StepOrder
<1>3. OrderInv => CurrentIsIngested
  BY DEF OrderInv
<1> QED
  BY <1>1, <1>2, <1>3, Invariant, PTL DEF Spec

=============================================================================
