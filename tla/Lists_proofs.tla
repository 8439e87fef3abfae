----------------------------- MODULE Lists_proofs -----------------------------
(***************************************************************************)
(* Induction over numbers, for the recursive functions of the models, and  *)
(* what Among gives.  The induction theorems of the library take an        *)
(* operator as a parameter; here the statement is the membership in a set. *)
(***************************************************************************)
EXTENDS Lists, FiniteSets, FiniteSetTheorems, WellFoundedInduction, TLAPS

\* Induction, for a set of numbers: intervals are well-founded by inclusion.
LEMMA NatSetInduction ==
  ASSUME NEW S, 0 \in S, \A n \in Nat : n \in S => n + 1 \in S
  PROVE  Nat \subseteq S
<1> DEFINE Gaps == {0 .. n : n \in Nat \ S}
<1> SUFFICES ASSUME Gaps # {}
             PROVE  FALSE
  OBVIOUS
<1>1. Gaps \subseteq FiniteSubsetsOf(Nat)
  <2>1. \A n \in Nat : 0 .. n \in SUBSET Nat /\ IsFiniteSet(0 .. n)
    BY FS_Interval
  <2> QED
    BY <2>1 DEF FiniteSubsetsOf
<1>2. PICK x \in Gaps : \A y \in Gaps : <<y, x>> \notin StrictSubsetOrdering(Nat)
  BY <1>1, FS_StrictSubsetOrderingWellFounded, WFMin, Zenon
<1>3. PICK m \in Nat \ S : x = 0 .. m
  BY <1>2
<1>4. m # 0 /\ m - 1 \in Nat
  OBVIOUS
<1>5. m - 1 \notin S
  <2>1. (m - 1) + 1 = m
    OBVIOUS
  <2> QED
    BY <1>3, <1>4, <2>1
<1>6. 0 .. (m - 1) \in Gaps
  BY <1>4, <1>5
<1>7. <<0 .. (m - 1), 0 .. m>> \in StrictSubsetOrdering(Nat)
  <2>1. /\ 0 .. (m - 1) \subseteq 0 .. m /\ 0 .. m \subseteq Nat
        /\ m \in 0 .. m /\ m \notin 0 .. (m - 1)
    BY <1>4
  <2> QED
    BY <2>1 DEF StrictSubsetOrdering
<1> QED
  BY <1>2, <1>3, <1>6, <1>7

\* One member of the list.
Take(taken, x, S) == IF x \in S THEN Append(taken, x) ELSE taken

\* What Among is: the members are taken one after the other.
LEMMA AmongRec ==
  ASSUME NEW s, NEW S, Len(s) \in Nat
  PROVE  \E f : /\ f = [i \in 0 .. Len(s) |->
                          IF i = 0 THEN <<>> ELSE Take(f[i - 1], s[i], S)]
                /\ Among(s, S) = f[Len(s)]
<1> DEFINE Good(n, f) ==
             f = [i \in 0 .. n |-> IF i = 0 THEN <<>> ELSE Take(f[i - 1], s[i], S)]
           N == {n \in Nat : \E f : Good(n, f)}
<1>1. 0 \in N
  <2>1. Good(0, [i \in 0 .. 0 |-> <<>>])
    OBVIOUS
  <2> QED
    BY <2>1
<1>2. ASSUME NEW n \in Nat, n \in N
      PROVE  n + 1 \in N
  <2>1. PICK f : Good(n, f)
    BY <1>2
  <2> DEFINE g == [i \in 0 .. n + 1 |->
                     IF i = n + 1 THEN Take(f[n], s[n + 1], S) ELSE f[i]]
  <2>2. \A i \in 0 .. n + 1 : g[i] = IF i = 0 THEN <<>> ELSE Take(g[i - 1], s[i], S)
    <3> SUFFICES ASSUME NEW i \in 0 .. n + 1
                 PROVE  g[i] = IF i = 0 THEN <<>> ELSE Take(g[i - 1], s[i], S)
      OBVIOUS
    <3>1. CASE i = n + 1
      BY <3>1
    <3>2. CASE i # n + 1
      <4>1. i \in 0 .. n /\ (i # 0 => i - 1 \in 0 .. n)
        BY <3>2
      <4>2. f[i] = IF i = 0 THEN <<>> ELSE Take(f[i - 1], s[i], S)
        BY <2>1, <4>1
      <4>3. g[i] = f[i] /\ (i # 0 => g[i - 1] = f[i - 1])
        BY <4>1
      <4> QED
        BY <4>2, <4>3
    <3> QED
      BY <3>1, <3>2
  <2>3. Good(n + 1, g)
    BY <2>2
  <2> HIDE DEF Good, g
  <2> QED
    BY <2>3
<1> HIDE DEF N
<1>3. Len(s) \in N
  BY <1>1, <1>2, NatSetInduction
<1>4. \E f : Good(Len(s), f)
  BY <1>3 DEF N
<1> QED
  BY <1>4 DEF Among, Take

\* Among gives a list of members of s.
LEMMA AmongType ==
  ASSUME NEW T, NEW s \in Seq(T), NEW S
  PROVE  Among(s, S) \in Seq(T)
<1>1. Len(s) \in Nat /\ \A i \in 1 .. Len(s) : s[i] \in T
  OBVIOUS
<1>2. PICK f : /\ f = [i \in 0 .. Len(s) |->
                         IF i = 0 THEN <<>> ELSE Take(f[i - 1], s[i], S)]
               /\ Among(s, S) = f[Len(s)]
  BY <1>1, AmongRec
<1> DEFINE N == {n \in Nat : n <= Len(s) => f[n] \in Seq(T)}
<1>3. 0 \in N
  <2>1. 0 \in 0 .. Len(s)
    BY <1>1
  <2>2. f[0] = IF 0 = 0 THEN <<>> ELSE Take(f[0 - 1], s[0], S)
    BY <1>2, <2>1, Zenon
  <2>3. f[0] = <<>>
    BY <2>2
  <2>4. <<>> \in Seq(T)
    OBVIOUS
  <2> QED
    BY <2>3, <2>4
<1>4. ASSUME NEW n \in Nat, n \in N
      PROVE  n + 1 \in N
  <2> SUFFICES ASSUME n + 1 <= Len(s)
               PROVE  f[n + 1] \in Seq(T)
    OBVIOUS
  <2>1. f[n] \in Seq(T) /\ s[n + 1] \in T
    BY <1>1, <1>4
  <2>2. f[n + 1] = Take(f[n], s[n + 1], S)
    <3>1. n + 1 \in 0 .. Len(s) /\ n + 1 # 0 /\ (n + 1) - 1 = n
      BY <1>1
    <3>2. f[n + 1] = Take(f[(n + 1) - 1], s[n + 1], S)
      BY <1>2, <3>1
    <3> QED
      BY <3>1, <3>2
  <2> QED
    BY <2>1, <2>2 DEF Take
<1> HIDE DEF N
<1>5. Len(s) \in N
  BY <1>1, <1>3, <1>4, NatSetInduction
<1> QED
  BY <1>1, <1>2, <1>5 DEF N

=============================================================================
