--------------------------- MODULE MCPageIngestion ---------------------------
(* Instances of PageIngestion for TLC.                                     *)
EXTENDS PageIngestion

\* The chat writes the row of an announcement page of a configured source; a
\* page without a source is one that was just found as an announcement page.
MCInit ==
  /\ Init
  /\ liveSearch = (isAnnouncement /\ allowlisted)
  /\ ~allowlisted => isAnnouncement /\ stored = 0

MCSpec == MCInit /\ [][Next]_vars /\ Fairness

=============================================================================
