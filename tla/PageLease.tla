----------------------------- MODULE PageLease -----------------------------
(***************************************************************************)
(* What the crawl lease of a page promises, without clocks, workers and    *)
(* rows: a page is granted to one claim at a time, what is stored of it    *)
(* changes only while it is granted and never goes back, and every grant   *)
(* gets one verdict, that it was settled under its lease or that it lost   *)
(* it.                                                                     *)
(***************************************************************************)
EXTENDS Integers

CONSTANTS Pages, Attempts   \* ordinals of the claims of a page

VARIABLES
  current,   \* the claim a page is granted to, 0 if it is to nobody
  granted,   \* number of grants of a page
  verdict,   \* of each claim
  content    \* what is stored of a page

vars == <<current, granted, verdict, content>>

Verdicts == {"none", "running", "settled", "lost"}

Init ==
  /\ current = [p \in Pages |-> 0]
  /\ granted = [p \in Pages |-> 0]
  /\ verdict = [p \in Pages |-> [n \in Attempts |-> "none"]]
  /\ content = [p \in Pages |-> 0]

\* Pages that are granted to nobody are granted, each to its next claim.
Grant(S) ==
  /\ \A p \in S : current[p] = 0 /\ granted[p] + 1 \in Attempts
  /\ granted' = [p \in Pages |-> IF p \in S THEN granted[p] + 1 ELSE granted[p]]
  /\ current' = [p \in Pages |-> IF p \in S THEN granted[p] + 1 ELSE current[p]]
  /\ verdict' = [p \in Pages |-> IF p \in S
                   THEN [verdict[p] EXCEPT ![granted[p] + 1] = "running"]
                   ELSE verdict[p]]
  /\ UNCHANGED content

\* Grants end by themselves; their claims do not know yet.
Lapse(S) ==
  /\ current' = [p \in Pages |-> IF p \in S THEN 0 ELSE current[p]]
  /\ UNCHANGED <<granted, verdict, content>>

\* While a page is granted, something newer is stored.
Write(p) ==
  /\ current[p] # 0
  /\ content'[p] \in Nat /\ content'[p] >= content[p]
  /\ content' = [content EXCEPT ![p] = content'[p]]
  /\ UNCHANGED <<current, granted, verdict>>

\* The holder gives the page back.
Settle(p) ==
  /\ current[p] # 0
  /\ verdict[p][current[p]] = "running"
  /\ verdict' = [verdict EXCEPT ![p][current[p]] = "settled"]
  /\ current' = [current EXCEPT ![p] = 0]
  /\ UNCHANGED <<granted, content>>

\* A claim that is not the holder is found out.
Lose(p, n) ==
  /\ current[p] # n
  /\ verdict[p][n] = "running"
  /\ verdict' = [verdict EXCEPT ![p][n] = "lost"]
  /\ UNCHANGED <<current, granted, content>>

Next ==
  \/ \E S \in SUBSET Pages : Grant(S) \/ Lapse(S)
  \/ \E p \in Pages : Write(p) \/ Settle(p)
  \/ \E p \in Pages, n \in Attempts : Lose(p, n)

Spec == Init /\ [][Next]_vars

=============================================================================
