------------------------------ MODULE ChatTurn ------------------------------
(***************************************************************************)
(* Questions asked in conversations: the conversation is loaded or made,   *)
(* the language model asks for tools in a bounded number of rounds, and    *)
(* the turn is saved under a lock of the conversation's row, while other   *)
(* requests, the user's deletion and the purge of what expired go on       *)
(* (answer of rag/service.py, and rag/conversation.py).  A message is its  *)
(* kind, an evidence an item; the events of a turn are one record, whose   *)
(* sequence numbers follow from its place.                                 *)
(***************************************************************************)
EXTENDS Integers, SequencesExt

CONSTANTS
  Requests, Conversations,
  NoConversation, NoRequest,
  Items,           \* what tools find
  MaxToolRounds,   \* MAX_TOOL_ROUNDS
  ConversationTtl, \* CONVERSATION_TTL
  MaxTime          \* bound on the clock

ASSUME ChatAssumption ==
  /\ NoConversation \notin Conversations /\ NoRequest \notin Requests
  /\ MaxToolRounds \in Nat /\ ConversationTtl \in Nat \ {0} /\ MaxTime \in Nat

VARIABLES
  time,
  talks,       \* the conversations in the table
  unused,     \* identifiers not given out yet
  locked,     \* the request that holds the row of a conversation
  stepOf,       \* where a request is
  about,      \* the conversation it works on
  found,      \* evidence it may cite
  calls,      \* its tool results: how many, what they found, the last two
  draft,      \* kind and sources of its answer
  counted,    \* turns seen under the lock, for the sequence numbers
  loadedAt, dropped  \* history: its load; the user deleted its conversation

table == <<talks, unused, locked>>
work  == <<stepOf, about, found, calls, draft, counted>>
chatVars == <<time, table, work, loadedAt, dropped>>

Kinds   == {"answer", "clarification", "insufficient"}
NoCalls == [rounds |-> 0, found |-> {}, last |-> <<>>]
NoDraft == [kind |-> "insufficient", sources |-> {}]
NoRow   == [until |-> 0, turns |-> <<>>, recent |-> <<>>, there |-> FALSE]
Ends    == {"done", "failed", "lost"}

There(c)   == c \in Conversations /\ talks[c].there
Expired(c) == There(c) /\ talks[c].until <= time
LastTwo(s) == IF Len(s) <= 2 THEN s ELSE SubSeq(s, Len(s) - 1, Len(s))
GoOn(r, s) == stepOf' = [stepOf EXCEPT ![r] = s]

\* What a request that ended remembers is gone.
End(r, s) ==
  /\ GoOn(r, s)
  /\ found' = [found EXCEPT ![r] = {}]
  /\ calls' = [calls EXCEPT ![r] = NoCalls]
  /\ draft' = [draft EXCEPT ![r] = NoDraft]
  /\ counted' = [counted EXCEPT ![r] = 0]

ChatInit ==
  /\ time = 0
  /\ talks = [c \in Conversations |-> NoRow]
  /\ unused = Conversations
  /\ locked = [c \in Conversations |-> NoRequest]
  /\ stepOf = [r \in Requests |-> "new"]
  /\ about = [r \in Requests |-> NoConversation]
  /\ found = [r \in Requests |-> {}]
  /\ calls = [r \in Requests |-> NoCalls]
  /\ draft = [r \in Requests |-> NoDraft]
  /\ counted = [r \in Requests |-> 0]
  /\ loadedAt = [r \in Requests |-> 0]
  /\ dropped = [r \in Requests |-> FALSE]

\* load_or_create, up to the SELECT: the conversation the user names, or a new
\* one when it is gone, expired, or none is named.
FindConversation(r) ==
  /\ stepOf[r] = "new"
  /\ \E wanted \in {c \in Conversations : c \notin unused} \cup {NoConversation} :
       IF There(wanted) /\ ~Expired(wanted)
         THEN /\ about' = [about EXCEPT ![r] = wanted]
              /\ UNCHANGED unused
         ELSE \E c \in unused : /\ about' = [about EXCEPT ![r] = c]
                                /\ unused' = unused \ {c}
  /\ GoOn(r, "load")
  /\ UNCHANGED <<time, talks, locked, found, calls, draft, counted, loadedAt, dropped>>

New(c) == talks[c] = NoRow

\* What is purged by the transaction of r, and the lifetime its load gives.
Purged(r) == {c \in Conversations : Expired(c)} \ {about[r]}
Prolonged(row) == [row EXCEPT !.until = time + ConversationTtl, !.there = TRUE]

\* The transaction of the load ends: the expired rows are gone, the evidence of
\* the last two tool results is known.  It waits for rows that are locked; the
\* UPDATE of a row that was deleted since the SELECT raises StaleDataError.
LoadConversation(r) ==
  LET c == about[r] IN
  /\ stepOf[r] = "load"
  /\ \A d \in Purged(r) \cup {c} : locked[d] = NoRequest
  /\ \/ /\ There(c) \/ New(c)
        /\ talks' = [d \in Conversations |->
                      IF d = c THEN Prolonged(talks[d])
                      ELSE IF d \in Purged(r) THEN [NoRow EXCEPT !.until = 1]
                      ELSE talks[d]]
        /\ found' = [found EXCEPT ![r] = UNION ToSet(talks[c].recent)]
        /\ loadedAt' = [loadedAt EXCEPT ![r] = time]
        /\ dropped' = [dropped EXCEPT ![r] = FALSE]
        /\ GoOn(r, "turn")
        /\ UNCHANGED <<calls, draft, counted>>
     \/ /\ ~There(c) /\ ~New(c)
        /\ End(r, "failed")
        /\ UNCHANGED <<talks, loadedAt, dropped>>
  /\ UNCHANGED <<time, unused, locked, about>>

CountRound(r, items) ==
  [rounds |-> calls[r].rounds + 1, found |-> calls[r].found \cup items,
   last |-> LastTwo(Append(calls[r].last, items))]

\* The model asks for a tool, whose evidence it may cite from now on.
CallTool(r) ==
  /\ stepOf[r] = "turn"
  /\ calls[r].rounds < MaxToolRounds
  /\ \E items \in SUBSET Items :
       /\ calls' = [calls EXCEPT ![r] = CountRound(r, items)]
       /\ found' = [found EXCEPT ![r] = @ \cup items]
  /\ UNCHANGED <<time, table, stepOf, about, draft, counted, loadedAt, dropped>>

\* One round too many, an error of the model, or no answer in its turn.
FailTurn(r) ==
  /\ stepOf[r] = "turn"
  /\ End(r, "failed")
  /\ UNCHANGED <<time, table, about, loadedAt, dropped>>

\* Of the sources the model names, those that a tool returned.
Used(r, named) == named \cap found[r]

\* _build_response: an answer without a source is replaced.
Draft(r, kind, named) ==
  IF Used(r, named) # {} THEN [kind |-> "answer", sources |-> Used(r, named)]
  ELSE [kind |-> IF kind = "clarification" THEN kind ELSE "insufficient",
        sources |-> {}]

BuildResponse(r) ==
  /\ stepOf[r] = "turn"
  /\ \E kind \in Kinds, named \in SUBSET Items :
       draft' = [draft EXCEPT ![r] = Draft(r, kind, named)]
  /\ GoOn(r, "save")
  /\ UNCHANGED <<time, table, about, found, calls, counted, loadedAt, dropped>>

\* Mutant: the row is read without FOR UPDATE.
MayLockAlways(c) == TRUE

MayLock(c) == locked[c] = NoRequest

\* Mutant: a conversation that is gone is made again.
GoneMadeAgain(c) == FALSE

Gone(c) == ~There(c)

\* save_turn: the row is locked and the greatest sequence number read.
LockConversation(r) ==
  LET c == about[r] IN
  /\ stepOf[r] = "save"
  /\ MayLock(c)
  /\ \/ /\ Gone(c)
        /\ End(r, "lost")
        /\ UNCHANGED locked
     \/ /\ ~Gone(c)
        /\ locked' = [locked EXCEPT ![c] = r]
        /\ counted' = [counted EXCEPT ![r] = Len(talks[c].turns)]
        /\ GoOn(r, "commit")
        /\ UNCHANGED <<found, calls, draft>>
  /\ UNCHANGED <<time, talks, unused, about, loadedAt, dropped>>

Turn(r) == [by |-> r, found |-> calls[r].found, kind |-> draft[r].kind,
            sources |-> draft[r].sources]

\* The row of a conversation with the turn of r and its tool results.
Saved(row, r) ==
  [Prolonged(row) EXCEPT !.turns = Append(@, Turn(r)),
                         !.recent = LastTwo(@ \o calls[r].last)]

\* The events are inserted; a sequence number that is taken breaks the unique
\* constraint.
SaveTurn(r) ==
  LET c == about[r] IN
  /\ stepOf[r] = "commit"
  /\ locked' = [locked EXCEPT ![c] = NoRequest]
  /\ \/ /\ Len(talks[c].turns) = counted[r]
        /\ talks' = [talks EXCEPT ![c] = Saved(@, r)]
        /\ End(r, "done")
     \/ /\ Len(talks[c].turns) # counted[r]
        /\ talks' = talks
        /\ End(r, "lost")
  /\ UNCHANGED <<time, unused, about, loadedAt, dropped>>

\* The user deletes a conversation, with all its events.
DeleteConversation(c) ==
  /\ There(c)
  /\ locked[c] = NoRequest
  /\ talks' = [talks EXCEPT ![c] = [NoRow EXCEPT !.until = 1]]
  /\ dropped' = [r \in Requests |-> dropped[r] \/ about[r] = c]
  /\ UNCHANGED <<time, unused, locked, work, loadedAt>>

\* Hours pass; a transaction does not last that long.
PassTime ==
  /\ time < MaxTime
  /\ \A r \in Requests : stepOf[r] \notin {"load", "commit"}
  /\ time' = time + 1
  /\ UNCHANGED <<table, work, loadedAt, dropped>>

Answer(r) == \/ FindConversation(r) \/ LoadConversation(r) \/ CallTool(r)
             \/ FailTurn(r) \/ BuildResponse(r) \/ LockConversation(r) \/ SaveTurn(r)

ChatNext == \/ \E r \in Requests : Answer(r)
            \/ \E c \in Conversations : DeleteConversation(c)
            \/ PassTime

ChatSpec == ChatInit /\ [][ChatNext]_chatVars /\ \A r \in Requests : WF_chatVars(Answer(r))

-----------------------------------------------------------------------------
ChatTypeOK ==
  /\ time \in 0 .. MaxTime
  /\ \A c \in Conversations : locked[c] \in Requests \cup {NoRequest}
  /\ stepOf \in [Requests -> {"new", "load", "turn", "save", "commit"} \cup Ends]
  /\ about \in [Requests -> Conversations \cup {NoConversation}]
  /\ found \in [Requests -> SUBSET Items]
  /\ \A r \in Requests : /\ calls[r].rounds \in 0 .. MaxToolRounds
                         /\ draft[r].kind \in Kinds

\* A turn that was answered is lost only when the user deleted the conversation
\* or its lifetime since the load has passed: neither another turn of it nor the
\* purge by a request for another one loses it (conversation.py:135, :186, :198).
LostOnlyIfDeleted ==
  \A r \in Requests :
    stepOf[r] = "lost" => dropped[r] \/ time >= loadedAt[r] + ConversationTtl

\* A conversation that was deleted or purged does not come back with the turns
\* that were under way (conversation.py:193-194).
DeletedStaysDeleted ==
  [][\A c \in Conversations :
       talks[c].until > 0 /\ ~There(c) => ~talks'[c].there]_chatVars

=============================================================================
