-------------------------------- MODULE Lists --------------------------------
(***************************************************************************)
(* Lists in their order: [x for x in s if x in S].  A recursive function,  *)
(* so that what it gives can be proved (Lists_proofs).                     *)
(***************************************************************************)
EXTENDS Naturals, Sequences

\* The members of s that are in S, in the order of s.
Among(s, S) ==
  LET upto[i \in 0 .. Len(s)] ==
        IF i = 0 THEN <<>>
        ELSE IF s[i] \in S THEN Append(upto[i - 1], s[i]) ELSE upto[i - 1]
  IN  upto[Len(s)]

=============================================================================
