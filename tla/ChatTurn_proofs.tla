--------------------------- MODULE ChatTurn_proofs ---------------------------
(***************************************************************************)
(* Proofs about turns of conversations: a turn that was answered is lost   *)
(* only with its conversation, and a conversation that is gone stays gone, *)
(* for any number of requests, conversations and rounds of tools.          *)
(***************************************************************************)
EXTENDS ChatTurn, SequenceTheorems, TLAPS

Evidence == SUBSET Items
TurnRow  == [by : Requests, found : Evidence, kind : Kinds, sources : Evidence]
TalkRow  == [until : Nat, turns : Seq(TurnRow), recent : Seq(Evidence), there : BOOLEAN]
CallsRow == [rounds : 0 .. MaxToolRounds, found : Evidence, last : Seq(Evidence)]
DraftRow == [kind : Kinds, sources : Evidence]

\* The types that the properties do not need TLC to test.
RowsOK ==
  /\ talks \in [Conversations -> TalkRow]
  /\ unused \subseteq Conversations
  /\ locked \in [Conversations -> Requests \cup {NoRequest}]
  /\ calls \in [Requests -> CallsRow]
  /\ draft \in [Requests -> DraftRow]
  /\ counted \in [Requests -> Nat]
  /\ loadedAt \in [Requests -> 0 .. time]
  /\ dropped \in [Requests -> BOOLEAN]

\* A request that is past the choice of its conversation has one.
AboutOne == \A r \in Requests : stepOf[r] # "new" => about[r] \in Conversations

\* The user deleted the conversation of r, or its lifetime since the load passed.
MayBeGone(r) == dropped[r] \/ time >= loadedAt[r] + ConversationTtl

\* Until it is locked, the conversation that was loaded is there, with the
\* lifetime the load gave it, or it may be gone.
LoadedLasts ==
  \A r \in Requests : stepOf[r] \in {"turn", "save"} =>
    \/ MayBeGone(r)
    \/ There(about[r]) /\ talks[about[r]].until >= loadedAt[r] + ConversationTtl

\* From the lock to the commit, the row is as the request counted it.
LockedStands ==
  \A r \in Requests : stepOf[r] = "commit" =>
    /\ locked[about[r]] = r
    /\ There(about[r])
    /\ counted[r] = Len(talks[about[r]].turns)

IInv ==
  /\ ChatTypeOK
  /\ RowsOK
  /\ AboutOne
  /\ LoadedLasts
  /\ LockedStands
  /\ LostOnlyIfDeleted

-----------------------------------------------------------------------------

\* The last two results of tools are results of tools.
LEMMA LastTwoType ==
  ASSUME NEW S, NEW s \in Seq(S)
  PROVE  LastTwo(s) \in Seq(S)
<1>1. CASE Len(s) <= 2
  BY <1>1 DEF LastTwo
<1>2. CASE Len(s) > 2
  <2>1. Len(s) \in Nat
    OBVIOUS
  <2>2. /\ Len(s) - 1 \in 1 .. Len(s) + 1
        /\ Len(s) \in Len(s) - 2 .. Len(s)
        /\ \A i \in Len(s) - 1 .. Len(s) : s[i] \in S
    BY <1>2, <2>1
  <2>3. SubSeq(s, Len(s) - 1, Len(s)) \in Seq(S)
    BY <2>1, <2>2, SubSeqProperties
  <2> QED
    BY <1>2, <2>1, <2>3 DEF LastTwo
<1> QED
  BY <1>1, <1>2

\* The rows and records that the actions make.
Gone1 == [NoRow EXCEPT !.until = 1]

\* The empty rows, and the row of a conversation that is gone, are rows.
LEMMA NoRowType ==
  /\ NoRow \in TalkRow /\ Gone1 \in TalkRow
  /\ Gone1.until = 1 /\ Gone1.there = FALSE
  /\ NoCalls \in CallsRow /\ NoDraft \in DraftRow
<1>1. NoRow \in TalkRow
  BY DEF NoRow, TalkRow
<1>2. Gone1 \in TalkRow
  BY <1>1 DEF Gone1, TalkRow
<1>3. Gone1.until = 1 /\ Gone1.there = FALSE
  BY DEF Gone1, NoRow
<1>4. NoCalls \in CallsRow
  BY ChatAssumption DEF NoCalls, CallsRow, Evidence
<1>5. NoDraft \in DraftRow
  BY DEF NoDraft, DraftRow, Evidence, Kinds
<1> QED
  BY <1>1, <1>2, <1>3, <1>4, <1>5

\* A prolonged conversation is there, until the time to live from now, and unchanged
\* in what it holds.
LEMMA ProlongedType ==
  ASSUME NEW row \in TalkRow, time \in Nat
  PROVE  /\ Prolonged(row) \in TalkRow
         /\ Prolonged(row).there = TRUE
         /\ Prolonged(row).until = time + ConversationTtl
         /\ Prolonged(row).turns = row.turns
         /\ Prolonged(row).recent = row.recent
<1>1. time + ConversationTtl \in Nat
  BY ChatAssumption
<1>2. Prolonged(row) \in TalkRow
  BY <1>1 DEF Prolonged, TalkRow
<1>3. /\ Prolonged(row).there = TRUE
      /\ Prolonged(row).until = time + ConversationTtl
      /\ Prolonged(row).turns = row.turns
      /\ Prolonged(row).recent = row.recent
  BY DEF Prolonged, TalkRow
<1> QED
  BY <1>2, <1>3

\* The turn that a request saves is a turn.
LEMMA TurnType ==
  ASSUME RowsOK, NEW r \in Requests
  PROVE  Turn(r) \in TurnRow
  BY DEF RowsOK, Turn, TurnRow, CallsRow, DraftRow

\* A conversation after a saved turn is there, until the time to live from now.
LEMMA SavedType ==
  ASSUME RowsOK, time \in Nat, NEW row \in TalkRow, NEW r \in Requests
  PROVE  /\ Saved(row, r) \in TalkRow
         /\ Saved(row, r).there = TRUE
         /\ Saved(row, r).until = time + ConversationTtl
<1>1. /\ row.turns \in Seq(TurnRow) /\ row.recent \in Seq(Evidence)
      /\ Turn(r) \in TurnRow /\ calls[r].last \in Seq(Evidence)
  BY TurnType DEF RowsOK, TalkRow, CallsRow
<1>2. Append(row.turns, Turn(r)) \in Seq(TurnRow)
  BY <1>1
<1>3. LastTwo(row.recent \o calls[r].last) \in Seq(Evidence)
  <2>1. row.recent \o calls[r].last \in Seq(Evidence)
    BY <1>1
  <2> QED
    BY <2>1, LastTwoType
<1>4. Saved(row, r)
        = [Prolonged(row) EXCEPT !.turns = Append(row.turns, Turn(r)),
                                 !.recent = LastTwo(row.recent \o calls[r].last)]
  BY ProlongedType DEF Saved, TalkRow
<1>5. Prolonged(row) \in TalkRow /\ Prolonged(row).there = TRUE
        /\ Prolonged(row).until = time + ConversationTtl
  BY ProlongedType
<1> QED
  BY <1>2, <1>3, <1>4, <1>5 DEF TalkRow

\* A round of tool calls leaves a count within the limit.
LEMMA CountRoundType ==
  ASSUME RowsOK, NEW r \in Requests, calls[r].rounds < MaxToolRounds, NEW items \in SUBSET Items
  PROVE  CountRound(r, items) \in CallsRow
<1>1. /\ calls[r].rounds \in 0 .. MaxToolRounds
      /\ calls[r].found \in Evidence
      /\ calls[r].last \in Seq(Evidence)
  BY DEF RowsOK, CallsRow
<1>2. Append(calls[r].last, items) \in Seq(Evidence)
  BY <1>1 DEF Evidence
<1>3. LastTwo(Append(calls[r].last, items)) \in Seq(Evidence)
  BY <1>2, LastTwoType
<1>4. calls[r].rounds + 1 \in 0 .. MaxToolRounds /\ calls[r].found \cup items \in Evidence
  BY <1>1, ChatAssumption DEF Evidence
<1> QED
  BY <1>3, <1>4 DEF CountRound, CallsRow

\* A draft answer names evidence.
LEMMA DraftType ==
  ASSUME ChatTypeOK, NEW r \in Requests, NEW kind \in Kinds, NEW named \in SUBSET Items
  PROVE  Draft(r, kind, named) \in DraftRow
<1>1. Used(r, named) \in Evidence
  BY DEF Used, Evidence
<1> QED
  BY <1>1 DEF Draft, DraftRow, Evidence, Kinds

\* What a conversation remembers of its tools is evidence.
LEMMA RecentType ==
  ASSUME NEW row \in TalkRow
  PROVE  UNION ToSet(row.recent) \in SUBSET Items
<1>1. row.recent \in Seq(Evidence)
  BY DEF TalkRow
<1>2. \A x \in ToSet(row.recent) : x \in Evidence
  BY <1>1 DEF ToSet
<1> QED
  BY <1>2 DEF Evidence

\* Each step leaves conversations, and the locks on them, of their types.
LEMMA StepTalks ==
  ASSUME IInv, [ChatNext]_chatVars
  PROVE  /\ talks' \in [Conversations -> TalkRow]
         /\ unused' \subseteq Conversations
         /\ locked' \in [Conversations -> Requests \cup {NoRequest}]
<1> USE DEF IInv, RowsOK
<1> DEFINE Goal == /\ talks' \in [Conversations -> TalkRow]
                   /\ unused' \subseteq Conversations
                   /\ locked' \in [Conversations -> Requests \cup {NoRequest}]
<1>0. time \in Nat
  BY ChatAssumption DEF ChatTypeOK
<1>1. ASSUME NEW r \in Requests, FindConversation(r)
      PROVE  Goal
  BY <1>1 DEF FindConversation
<1>2. ASSUME NEW r \in Requests, LoadConversation(r)
      PROVE  Goal
  <2>1. \A d \in Conversations : Prolonged(talks[d]) \in TalkRow
    BY <1>0, ProlongedType
  <2>2. \/ talks' = talks
        \/ talks' = [d \in Conversations |->
                       IF d = about[r] THEN Prolonged(talks[d])
                       ELSE IF d \in Purged(r) THEN Gone1
                       ELSE talks[d]]
    BY <1>2 DEF LoadConversation, Gone1
  <2>3. UNCHANGED <<unused, locked>>
    BY <1>2 DEF LoadConversation
  <2> QED
    BY <2>1, <2>2, <2>3, NoRowType
<1>3. ASSUME NEW r \in Requests, CallTool(r)
      PROVE  Goal
  BY <1>3 DEF CallTool, table
<1>4. ASSUME NEW r \in Requests, FailTurn(r)
      PROVE  Goal
  BY <1>4 DEF FailTurn, table
<1>5. ASSUME NEW r \in Requests, BuildResponse(r)
      PROVE  Goal
  BY <1>5 DEF BuildResponse, table
<1>6. ASSUME NEW r \in Requests, LockConversation(r)
      PROVE  Goal
  <2>1. about[r] \in Conversations
    BY <1>6 DEF LockConversation, AboutOne
  <2>2. /\ talks' = talks /\ unused' = unused
        /\ locked' = locked \/ locked' = [locked EXCEPT ![about[r]] = r]
    BY <1>6 DEF LockConversation
  <2> QED
    BY <2>1, <2>2
<1>7. ASSUME NEW r \in Requests, SaveTurn(r)
      PROVE  Goal
  <2>1. about[r] \in Conversations
    BY <1>7 DEF SaveTurn, AboutOne
  <2>3. Saved(talks[about[r]], r) \in TalkRow
    BY <1>0, <2>1, SavedType
  <2>4. \/ talks' = talks
        \/ talks' = [talks EXCEPT ![about[r]] = Saved(talks[about[r]], r)]
    BY <1>7 DEF SaveTurn
  <2>5. unused' = unused /\ locked' = [locked EXCEPT ![about[r]] = NoRequest]
    BY <1>7 DEF SaveTurn
  <2> QED
    BY <2>3, <2>4, <2>5
<1>8. ASSUME NEW c \in Conversations, DeleteConversation(c)
      PROVE  Goal
  BY <1>8, NoRowType DEF DeleteConversation, Gone1
<1>9. ASSUME PassTime
      PROVE  Goal
  BY <1>9 DEF PassTime, table, work
<1>10. ASSUME UNCHANGED chatVars
      PROVE  Goal
  BY <1>10 DEF chatVars, table, work
<1> HIDE DEF IInv, RowsOK, Goal
<1>11. Goal
  BY <1>1, <1>2, <1>3, <1>4, <1>5, <1>6, <1>7, <1>8, <1>9, <1>10 DEF ChatNext, Answer
<1> QED
  BY <1>11 DEF Goal

\* Each step leaves the calls and drafts of the requests of their types.
LEMMA StepWork ==
  ASSUME IInv, [ChatNext]_chatVars
  PROVE  /\ calls' \in [Requests -> CallsRow]
         /\ draft' \in [Requests -> DraftRow]
         /\ counted' \in [Requests -> Nat]
         /\ found' \in [Requests -> SUBSET Items]
<1> USE DEF IInv, RowsOK
<1> DEFINE Goal == /\ calls' \in [Requests -> CallsRow]
                   /\ draft' \in [Requests -> DraftRow]
                   /\ counted' \in [Requests -> Nat]
                   /\ found' \in [Requests -> SUBSET Items]
<1>0. found \in [Requests -> SUBSET Items]
  BY DEF ChatTypeOK
<1>00. ASSUME NEW r \in Requests, NEW s, End(r, s)
       PROVE  Goal
  BY <1>0, <1>00, NoRowType DEF End
<1>1. ASSUME NEW r \in Requests, FindConversation(r)
      PROVE  Goal
  BY <1>1, <1>0 DEF FindConversation
<1>2. ASSUME NEW r \in Requests, LoadConversation(r)
      PROVE  Goal
  <2>1. about[r] \in Conversations
    BY <1>2 DEF LoadConversation, AboutOne
  <2>2. UNION ToSet(talks[about[r]].recent) \in SUBSET Items
    BY <2>1, RecentType
  <2>3. CASE stepOf' = [stepOf EXCEPT ![r] = "failed"] /\ End(r, "failed")
    BY <1>00, <2>3
  <2>4. CASE /\ found' = [found EXCEPT ![r] = UNION ToSet(talks[about[r]].recent)]
             /\ UNCHANGED <<calls, draft, counted>>
    BY <1>0, <2>2, <2>4
  <2> QED
    BY <1>2, <2>3, <2>4 DEF LoadConversation, End, GoOn
<1>3. ASSUME NEW r \in Requests, CallTool(r)
      PROVE  Goal
  <2>1. PICK items \in SUBSET Items :
          /\ calls' = [calls EXCEPT ![r] = CountRound(r, items)]
          /\ found' = [found EXCEPT ![r] = found[r] \cup items]
    BY <1>3 DEF CallTool
  <2>2. CountRound(r, items) \in CallsRow
    BY <1>3, CountRoundType DEF CallTool
  <2>3. UNCHANGED <<draft, counted>>
    BY <1>3 DEF CallTool
  <2>4. calls' \in [Requests -> CallsRow]
    BY <2>1, <2>2
  <2>5. found' \in [Requests -> SUBSET Items]
    BY <1>0, <2>1
  <2> QED
    BY <2>3, <2>4, <2>5
<1>4. ASSUME NEW r \in Requests, FailTurn(r)
      PROVE  Goal
  BY <1>4, <1>00 DEF FailTurn
<1>5. ASSUME NEW r \in Requests, BuildResponse(r)
      PROVE  Goal
  <2>1. PICK kind \in Kinds, named \in SUBSET Items :
          draft' = [draft EXCEPT ![r] = Draft(r, kind, named)]
    BY <1>5 DEF BuildResponse
  <2>2. Draft(r, kind, named) \in DraftRow
    BY DraftType
  <2>3. UNCHANGED <<found, calls, counted>>
    BY <1>5 DEF BuildResponse
  <2> QED
    BY <1>0, <2>1, <2>2, <2>3
<1>6. ASSUME NEW r \in Requests, LockConversation(r)
      PROVE  Goal
  <2>1. CASE End(r, "lost")
    BY <1>00, <2>1
  <2>2. CASE /\ ~Gone(about[r])
             /\ counted' = [counted EXCEPT ![r] = Len(talks[about[r]].turns)]
             /\ UNCHANGED <<found, calls, draft>>
    <3>1. talks[about[r]].turns \in Seq(TurnRow)
      BY <1>6 DEF LockConversation, AboutOne, TalkRow
    <3>2. Len(talks[about[r]].turns) \in Nat
      BY <3>1
    <3> QED
      BY <1>0, <2>2, <3>2
  <2> QED
    BY <1>6, <2>1, <2>2 DEF LockConversation
<1>7. ASSUME NEW r \in Requests, SaveTurn(r)
      PROVE  Goal
  BY <1>7, <1>00 DEF SaveTurn
<1>8. ASSUME NEW c \in Conversations, DeleteConversation(c)
      PROVE  Goal
  BY <1>8, <1>0 DEF DeleteConversation, work
<1>9. ASSUME PassTime
      PROVE  Goal
  BY <1>9, <1>0 DEF PassTime, work
<1>10. ASSUME UNCHANGED chatVars
      PROVE  Goal
  BY <1>10, <1>0 DEF chatVars, work
<1> HIDE DEF IInv, RowsOK, Goal
<1>11. Goal
  BY <1>1, <1>2, <1>3, <1>4, <1>5, <1>6, <1>7, <1>8, <1>9, <1>10 DEF ChatNext, Answer
<1> QED
  BY <1>11 DEF Goal

\* Each step leaves the clock, the steps of the requests and what they loaded of
\* their types; nothing is loaded in the future.
LEMMA StepClocks ==
  ASSUME IInv, [ChatNext]_chatVars
  PROVE  /\ time' \in 0 .. MaxTime
         /\ stepOf' \in [Requests -> {"new", "load", "turn", "save", "commit"} \cup Ends]
         /\ about' \in [Requests -> Conversations \cup {NoConversation}]
         /\ loadedAt' \in [Requests -> 0 .. time']
         /\ dropped' \in [Requests -> BOOLEAN]
<1>0. /\ time \in 0 .. MaxTime /\ MaxTime \in Nat
      /\ stepOf \in [Requests -> {"new", "load", "turn", "save", "commit"} \cup Ends]
      /\ about \in [Requests -> Conversations \cup {NoConversation}]
      /\ loadedAt \in [Requests -> 0 .. time]
      /\ dropped \in [Requests -> BOOLEAN]
      /\ unused \subseteq Conversations
  BY ChatAssumption DEF IInv, ChatTypeOK, RowsOK, ChatAssumption
<1> USE DEF Ends
<1> DEFINE Goal == /\ time' \in 0 .. MaxTime
                   /\ stepOf' \in [Requests -> {"new", "load", "turn", "save", "commit"}
                                                 \cup Ends]
                   /\ about' \in [Requests -> Conversations \cup {NoConversation}]
                   /\ loadedAt' \in [Requests -> 0 .. time']
                   /\ dropped' \in [Requests -> BOOLEAN]
<1>1. ASSUME NEW r \in Requests, FindConversation(r)
      PROVE  Goal
  <2>1. \E x \in Conversations \cup {NoConversation} : about' = [about EXCEPT ![r] = x]
    BY <1>0, <1>1 DEF FindConversation
  <2>2. /\ stepOf' = [stepOf EXCEPT ![r] = "load"]
        /\ time' = time /\ loadedAt' = loadedAt /\ dropped' = dropped
    BY <1>1 DEF FindConversation, GoOn
  <2>3. about' \in [Requests -> Conversations \cup {NoConversation}]
    BY <1>0, <2>1
  <2>4. stepOf' \in [Requests -> {"new", "load", "turn", "save", "commit"} \cup Ends]
    BY <1>0, <2>2
  <2> QED
    BY <1>0, <2>2, <2>3, <2>4
<1>2. ASSUME NEW r \in Requests, LoadConversation(r)
      PROVE  Goal
  <2>1. time' = time /\ about' = about
    BY <1>2 DEF LoadConversation
  <2>2. \/ loadedAt' = loadedAt /\ dropped' = dropped
        \/ /\ loadedAt' = [loadedAt EXCEPT ![r] = time]
           /\ dropped' = [dropped EXCEPT ![r] = FALSE]
    BY <1>2 DEF LoadConversation
  <2>3. \E st \in {"turn", "failed"} : stepOf' = [stepOf EXCEPT ![r] = st]
    BY <1>2 DEF LoadConversation, GoOn, End
  <2>4. stepOf' \in [Requests -> {"new", "load", "turn", "save", "commit"} \cup Ends]
    BY <1>0, <2>3
  <2>5. loadedAt' \in [Requests -> 0 .. time']
    BY <1>0, <2>1, <2>2
  <2>6. dropped' \in [Requests -> BOOLEAN]
    BY <1>0, <2>2
  <2> QED
    BY <1>0, <2>1, <2>4, <2>5, <2>6
<1>3. ASSUME NEW r \in Requests, CallTool(r)
      PROVE  Goal
  BY <1>0, <1>3 DEF CallTool
<1>4. ASSUME NEW r \in Requests, FailTurn(r)
      PROVE  Goal
  BY <1>0, <1>4 DEF FailTurn, GoOn, End
<1>5. ASSUME NEW r \in Requests, BuildResponse(r)
      PROVE  Goal
  BY <1>0, <1>5 DEF BuildResponse, GoOn
<1>6. ASSUME NEW r \in Requests, LockConversation(r)
      PROVE  Goal
  BY <1>0, <1>6 DEF LockConversation, GoOn, End
<1>7. ASSUME NEW r \in Requests, SaveTurn(r)
      PROVE  Goal
  BY <1>0, <1>7 DEF SaveTurn, GoOn, End
<1>8. ASSUME NEW c \in Conversations, DeleteConversation(c)
      PROVE  Goal
  BY <1>0, <1>8 DEF DeleteConversation, work
<1>9. ASSUME PassTime
      PROVE  Goal
  BY <1>0, <1>9 DEF PassTime, work
<1>10. ASSUME UNCHANGED chatVars
      PROVE  Goal
  BY <1>0, <1>10 DEF chatVars, work
<1> HIDE DEF Goal
<1>11. Goal
  BY <1>1, <1>2, <1>3, <1>4, <1>5, <1>6, <1>7, <1>8, <1>9, <1>10 DEF ChatNext, Answer
<1> QED
  BY <1>11 DEF Goal

\* Each step keeps the types.
LEMMA StepType ==
  ASSUME IInv, [ChatNext]_chatVars
  PROVE  ChatTypeOK' /\ RowsOK'
<1>1. RowsOK'
  BY StepTalks, StepWork, StepClocks DEF RowsOK
<1>2. \A r \in Requests : calls'[r].rounds \in 0 .. MaxToolRounds /\ draft'[r].kind \in Kinds
  BY <1>1 DEF RowsOK, CallsRow, DraftRow
<1> QED
  BY <1>1, <1>2, StepTalks, StepWork, StepClocks DEF ChatTypeOK, RowsOK

\* A step of r at one of its own conversations leaves the others what they know.
LEMMA StepTurns ==
  ASSUME IInv, [ChatNext]_chatVars
  PROVE  AboutOne' /\ LoadedLasts' /\ LockedStands' /\ LostOnlyIfDeleted'
<1> USE ChatAssumption
<1> USE DEF IInv, ChatTypeOK, RowsOK, AboutOne, LoadedLasts, LockedStands, LostOnlyIfDeleted,
            MayBeGone, There, Ends
<1> DEFINE Goal == AboutOne' /\ LoadedLasts' /\ LockedStands' /\ LostOnlyIfDeleted'
<1>0. time \in Nat /\ ConversationTtl \in Nat /\ \A c \in Conversations :
        talks[c].until \in Nat /\ talks[c].there \in BOOLEAN
  BY DEF TalkRow
<1>1. ASSUME NEW r \in Requests, FindConversation(r)
      PROVE  Goal
  BY <1>1 DEF FindConversation, There, Expired, GoOn
<1>2. ASSUME NEW r \in Requests, LoadConversation(r)
      PROVE  Goal
  <2>1. stepOf[r] = "load" /\ about' = about /\ time' = time /\ locked' = locked
        /\ counted'[r] \in {0, counted[r]} /\ about[r] \in Conversations
        /\ \A d \in Purged(r) \cup {about[r]} : locked[d] = NoRequest
        /\ \A s \in Requests : s # r => /\ stepOf'[s] = stepOf[s]
                                        /\ counted'[s] = counted[s]
                                        /\ loadedAt'[s] = loadedAt[s]
                                        /\ dropped'[s] = dropped[s]
    BY <1>2 DEF LoadConversation, GoOn, End
  <2>2. CASE talks' = talks /\ stepOf'[r] = "failed"
    <3>1. /\ AboutOne /\ LoadedLasts /\ LockedStands /\ LostOnlyIfDeleted
          /\ "failed" \notin {"new", "turn", "save", "commit", "lost"}
      OBVIOUS
    <3>2. AboutOne'
      BY <2>1, <2>2, <3>1
    <3>3. LoadedLasts'
      BY <2>1, <2>2, <3>1
    <3>4. LockedStands'
      BY <2>1, <2>2, <3>1
    <3>5. LostOnlyIfDeleted'
      BY <2>1, <2>2, <3>1
    <3> QED
      BY <3>2, <3>3, <3>4, <3>5
  <2>3. CASE /\ talks' = [d \in Conversations |->
                            IF d = about[r] THEN Prolonged(talks[d])
                            ELSE IF d \in Purged(r) THEN Gone1
                            ELSE talks[d]]
             /\ stepOf'[r] = "turn" /\ loadedAt'[r] = time /\ dropped'[r] = FALSE
    <3>1. /\ talks'[about[r]].there
          /\ talks'[about[r]].until = time + ConversationTtl
          /\ talks'[about[r]].turns = talks[about[r]].turns
      BY <1>0, <2>1, <2>3, ProlongedType
    <3>2. \A d \in Conversations : d \in Purged(r) => talks[d].until <= time
      BY DEF Purged, Expired
    <3>3. \A d \in Conversations : d \notin Purged(r) /\ d # about[r] => talks'[d] = talks[d]
      BY <2>3
    <3>4. ASSUME NEW s \in Requests, s # r, stepOf[s] \in {"turn", "save"}
          PROVE  (\/ MayBeGone(s)
                  \/ There(about[s]) /\ talks[about[s]].until >= loadedAt[s] + ConversationTtl)'
      <4>1. loadedAt[s] \in Nat /\ loadedAt[s] <= time /\ about[s] \in Conversations
        BY <1>0, <3>4
      <4>0. \/ MayBeGone(s)
            \/ talks[about[s]].there /\ talks[about[s]].until >= loadedAt[s] + ConversationTtl
        BY <3>4
      <4>5. /\ MayBeGone(s) => MayBeGone(s)'
            /\ loadedAt'[s] = loadedAt[s] /\ about'[s] = about[s]
        BY <2>1, <3>4
      <4> HIDE DEF IInv, ChatTypeOK, RowsOK, AboutOne, LoadedLasts, LockedStands,
                  LostOnlyIfDeleted, MayBeGone, Goal
      <4>2. CASE about[s] = about[r]
        BY <1>0, <2>1, <3>1, <3>4, <4>1, <4>2
      <4>3. CASE about[s] \in Purged(r)
        <5>1. talks[about[s]].until <= time /\ talks[about[s]].until \in Nat
          BY <1>0, <3>2, <4>1, <4>3
        <5>2. CASE talks[about[s]].until >= loadedAt[s] + ConversationTtl
          <6>1. MayBeGone(s)
            BY <1>0, <4>1, <5>1, <5>2 DEF MayBeGone
          <6> QED
            BY <4>5, <6>1
        <5> QED
          BY <4>0, <4>5, <5>2
      <4>4. CASE about[s] \notin Purged(r) /\ about[s] # about[r]
        <5>1. talks'[about[s]] = talks[about[s]]
          BY <3>3, <4>1, <4>4
        <5> QED
          BY <2>1, <4>0, <4>1, <4>5, <5>1
      <4> QED
        BY <4>2, <4>3, <4>4
    <3>5. ASSUME NEW s \in Requests, stepOf'[s] = "commit"
          PROVE  /\ s # r
                 /\ talks'[about[s]] = talks[about[s]]
      BY <2>1, <2>3, <3>3, <3>5
    <3>6. AboutOne' /\ LostOnlyIfDeleted'
      BY <2>1, <2>3
    <3>7. LoadedLasts'
      <4>1. (\/ MayBeGone(r)
             \/ There(about[r]) /\ talks[about[r]].until >= loadedAt[r] + ConversationTtl)'
        BY <1>0, <2>1, <2>3, <3>1
      <4> QED
        BY <2>1, <2>3, <3>4, <4>1
    <3>8. LockedStands'
      BY <2>1, <2>3, <3>5
    <3> QED
      BY <3>6, <3>7, <3>8
  <2> QED
    <3> HIDE DEF IInv, ChatTypeOK, RowsOK, AboutOne, LoadedLasts, LockedStands,
                LostOnlyIfDeleted, Goal
    <3>1. DOMAIN stepOf = Requests /\ DOMAIN loadedAt = Requests /\ DOMAIN dropped = Requests
      BY DEF IInv, ChatTypeOK, RowsOK
    <3> QED
      BY <1>2, <2>2, <2>3, <3>1 DEF LoadConversation, GoOn, End, Gone1
<1>3. ASSUME NEW r \in Requests, CallTool(r)
      PROVE  Goal
  BY <1>3 DEF CallTool, CountRound, table
<1>4. ASSUME NEW r \in Requests, FailTurn(r)
      PROVE  Goal
  BY <1>4 DEF FailTurn, End, GoOn, NoCalls, NoDraft, table
<1>5. ASSUME NEW r \in Requests, BuildResponse(r)
      PROVE  Goal
  BY <1>5 DEF BuildResponse, Draft, Used, GoOn, table
<1>6. ASSUME NEW r \in Requests, LockConversation(r)
      PROVE  Goal
  BY <1>6 DEF LockConversation, MayLock, Gone, End, GoOn, NoCalls, NoDraft
<1>7. ASSUME NEW r \in Requests, SaveTurn(r)
      PROVE  Goal
  <2>1. /\ stepOf[r] = "commit" /\ about[r] \in Conversations /\ locked[about[r]] = r
        /\ There(about[r]) /\ Len(talks[about[r]].turns) = counted[r]
    BY <1>7 DEF SaveTurn
  <2> DEFINE row == Saved(talks[about[r]], r)
  <2>3. row.there = TRUE /\ row.until = time + ConversationTtl
    <3>1. talks[about[r]] \in TalkRow
      BY <2>1
    <3>2. RowsOK
      OBVIOUS
    <3> HIDE DEF IInv, ChatTypeOK, RowsOK, AboutOne, LoadedLasts, LockedStands, LostOnlyIfDeleted
    <3> QED
      BY <1>0, <3>1, <3>2, SavedType
  <2>4. /\ talks' = [talks EXCEPT ![about[r]] = row]
        /\ locked' = [locked EXCEPT ![about[r]] = NoRequest]
        /\ stepOf' = [stepOf EXCEPT ![r] = "done"]
        /\ counted' = [counted EXCEPT ![r] = 0]
        /\ UNCHANGED <<time, about, loadedAt, dropped>>
    <3> HIDE DEF IInv, ChatTypeOK, RowsOK, AboutOne, LoadedLasts, LockedStands, LostOnlyIfDeleted
    <3> QED
      BY <1>7, <2>1 DEF SaveTurn, GoOn, End
  <2> HIDE DEF row
  <2>5. \A s \in Requests : s # r /\ stepOf[s] = "commit" => about[s] # about[r]
    BY <2>1
  <2>6. AboutOne' /\ LostOnlyIfDeleted'
    BY <2>1, <2>4
  <2>7. LockedStands'
    BY <2>1, <2>4, <2>5
  <2>8. LoadedLasts'
    BY <1>0, <2>1, <2>3, <2>4
  <2> QED
    BY <2>6, <2>7, <2>8
<1>8. ASSUME NEW c \in Conversations, DeleteConversation(c)
      PROVE  Goal
  <2>1. /\ talks' = [talks EXCEPT ![c] = Gone1]
        /\ dropped' = [r \in Requests |-> dropped[r] \/ about[r] = c]
        /\ locked[c] = NoRequest
        /\ UNCHANGED <<time, locked, stepOf, about, counted, loadedAt>>
    BY <1>8 DEF DeleteConversation, work, Gone1
  <2>2. \A r \in Requests : /\ dropped[r] => dropped'[r]
                            /\ about[r] = c => dropped'[r]
    BY <2>1
  <2>3. AboutOne' /\ LostOnlyIfDeleted'
    BY <2>1, <2>2
  <2>4. LockedStands'
    BY <2>1
  <2>5. LoadedLasts'
    BY <2>1, <2>2
  <2> QED
    BY <2>3, <2>4, <2>5
<1>9. ASSUME PassTime
      PROVE  Goal
  BY <1>9 DEF PassTime, table, work
<1>10. ASSUME UNCHANGED chatVars
      PROVE  Goal
  BY <1>10 DEF chatVars, table, work
<1> HIDE DEF IInv, Goal
<1>11. Goal
  BY <1>1, <1>2, <1>3, <1>4, <1>5, <1>6, <1>7, <1>8, <1>9, <1>10 DEF ChatNext, Answer
<1> QED
  BY <1>11 DEF Goal

\* The inductive invariant holds always.
LEMMA Invariant == ChatSpec => []IInv
<1>1. ChatInit => IInv
  BY ChatAssumption
     DEF ChatInit, IInv, ChatTypeOK, RowsOK, AboutOne, LoadedLasts, LockedStands,
         LostOnlyIfDeleted, TalkRow, CallsRow, DraftRow, Evidence, Kinds, NoRow, NoCalls, NoDraft
<1>2. IInv /\ [ChatNext]_chatVars => IInv'
  BY StepType, StepTurns DEF IInv
<1> QED
  BY <1>1, <1>2, PTL DEF ChatSpec

\* The requests, their evidence and the locks are always of their types.
THEOREM TypeCorrect == ChatSpec => []ChatTypeOK
  BY Invariant, PTL DEF IInv

\* A turn that was answered is lost only when the user deleted the conversation
\* or its lifetime since the load has passed.
THEOREM LostIfDeleted == ChatSpec => []LostOnlyIfDeleted
  BY Invariant, PTL DEF IInv

GoneStaysGone ==
  \A c \in Conversations : talks[c].until > 0 /\ ~There(c) => ~talks'[c].there

\* A conversation that was deleted or purged does not come back.
THEOREM DeletedForGood == ChatSpec => DeletedStaysDeleted
<1>1. IInv /\ [ChatNext]_chatVars => [GoneStaysGone]_chatVars
  <2> SUFFICES ASSUME IInv, [ChatNext]_chatVars, NEW c \in Conversations,
                      talks[c].until > 0, ~There(c)
               PROVE  ~talks'[c].there
    BY DEF GoneStaysGone
  <2> USE DEF IInv, RowsOK, TalkRow, There
  <2>1. ASSUME NEW r \in Requests, LoadConversation(r)
        PROVE  ~talks'[c].there
    <3>1. CASE c = about[r]
      <4>1. ~New(c)
        BY DEF New, NoRow
      <4> QED
        BY <2>1, <3>1, <4>1 DEF LoadConversation
    <3>2. CASE c # about[r]
      BY <2>1, <3>2, NoRowType DEF LoadConversation, Gone1
    <3> QED
      BY <3>1, <3>2
  <2>2. ASSUME NEW r \in Requests, SaveTurn(r)
        PROVE  ~talks'[c].there
    BY <2>2 DEF SaveTurn, LockedStands
  <2>3. ASSUME NEW d \in Conversations, DeleteConversation(d)
        PROVE  ~talks'[c].there
    BY <2>3 DEF DeleteConversation, NoRow
  <2>4. ASSUME NEW r \in Requests,
               \/ FindConversation(r) \/ CallTool(r) \/ FailTurn(r) \/ BuildResponse(r)
               \/ LockConversation(r)
        PROVE  talks' = talks
    BY <2>4
       DEF FindConversation, CallTool, FailTurn, BuildResponse, LockConversation, table
  <2>5. ASSUME PassTime \/ UNCHANGED chatVars
        PROVE  talks' = talks
    BY <2>5 DEF PassTime, chatVars, table
  <2> QED
    BY <2>1, <2>2, <2>3, <2>4, <2>5 DEF ChatNext, Answer
<1>2. ChatSpec => [][GoneStaysGone]_chatVars
  BY <1>1, Invariant, PTL DEF ChatSpec
<1> QED
  BY <1>2, PTL DEF DeletedStaysDeleted, GoneStaysGone

=============================================================================
