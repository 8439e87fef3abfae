--------------------------- MODULE MCSourceRefresh ---------------------------
(* Instances of SourceRefresh for TLC.                                     *)
EXTENDS SourceRefresh, TLC

Budget(faults, drops, signals, marks) ==
  "faults" :> faults @@ "drops" :> drops @@ "signals" :> signals @@ "marks" :> marks

\* A failure with a due signal, or with the mark of a page crawl; or a lost
\* connection with a mark.
MCBudgets == {Budget(1, 0, 1, 0), Budget(1, 0, 0, 1), Budget(0, 1, 0, 1)}

=============================================================================
