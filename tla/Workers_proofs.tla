--------------------------- MODULE Workers_proofs ---------------------------
(***************************************************************************)
(* Proofs about the threads around the crawls: the claims of one host      *)
(* (HostClaim), the transactions that store pages (Frontier) and the loop  *)
(* of the announcement worker (WorkerControl).  They share no state, each  *)
(* has a specification of its own.                                         *)
(***************************************************************************)
EXTENDS HostClaim, Frontier, WorkerControl, Lists_proofs

-----------------------------------------------------------------------------
(* Claims of one host.  The row locks and leases keep their shape, a claim *)
(* never replaces a live lease, and takes only pages that are due, for every *)
(* set of pages, hosts and workers and every cap.                          *)

\* A statement was started in the past, so that what is due, or unleased, at
\* its time of reading still is as far as time alone is concerned.
ReadInThePast == \A w \in Workers : readAt[w] <= now

IInv == TypeOK /\ ReadInThePast

\* The inductive invariant holds at first.
LEMMA InitInv == Init => IInv
<1> SUFFICES ASSUME Init
             PROVE  IInv
  OBVIOUS
<1>1. dueAt \in [Pages -> Nat]
  BY DEF Init
<1> QED
  BY <1>1, ConstantsAssumption DEF Init, IInv, TypeOK, ReadInThePast

\* A claim chooses pages that exist.
LEMMA DueIsPages ==
  ASSUME NEW urls \in SUBSET Pages, NEW t
  PROVE  Due(urls, t) \in SUBSET Pages
  BY DEF Due, Candidates

\* Each step of a claim, another transaction or the clock keeps it.
LEMMA StepInv ==
  ASSUME IInv, [Next]_vars
  PROVE  IInv'
<1> USE DEF IInv, TypeOK, ReadInThePast
<1>1. ASSUME NEW w \in Workers, Select(w)
      PROVE  IInv'
  <2>1. chosen' \in [Workers -> SUBSET Pages]
    BY <1>1, DueIsPages DEF Select
  <2>2. \A p \in Pages : lockedBy[p] # NoWorker => lockedBy[p] # w
    BY <1>1 DEF Select
  <2>3. \A v \in Workers : v # w => chosen'[v] = chosen[v]
    BY <1>1 DEF Select
  <2> QED
    BY <1>1, <2>1, <2>2, <2>3 DEF Select, rows
<1>2. ASSUME NEW w \in Workers, Lock(w)
      PROVE  IInv'
  <2> DEFINE free == {p \in chosen[w] : lockedBy[p] = NoWorker}
  <2>1. /\ chosen' = [chosen EXCEPT ![w] = free]
        /\ lockedBy' = [p \in Pages |-> IF p \in free THEN w ELSE lockedBy[p]]
        /\ step' = [step EXCEPT ![w] = "locked"]
        /\ step[w] = "selected"
        /\ UNCHANGED <<now, rows, readAt, claims>>
    BY <1>2 DEF Lock
  <2>2. free \in SUBSET Pages
    OBVIOUS
  <2>3. \A p \in Pages : lockedBy[p] # NoWorker => lockedBy[p] # w
    BY <2>1
  <2> HIDE DEF free
  <2>4. ASSUME NEW p \in Pages, lockedBy'[p] # NoWorker
        PROVE  step'[lockedBy'[p]] = "locked" /\ p \in chosen'[lockedBy'[p]]
    <3>1. CASE p \in free
      BY <2>1, <2>2, <3>1
    <3>2. CASE p \notin free
      BY <2>1, <2>2, <2>3, <2>4, <3>2
    <3> QED
      BY <3>1, <3>2
  <2> QED
    BY <2>1, <2>2, <2>4 DEF rows
<1>3. ASSUME NEW w \in Workers, Update(w)
      PROVE  IInv'
  <2> DEFINE won == {p \in chosen[w] : StillDue(p, readAt[w])}
  <2>1. /\ owner' = [p \in Pages |-> IF p \in won THEN w ELSE owner[p]]
        /\ expires' = [p \in Pages |-> IF p \in won THEN readAt[w] + LeaseDuration
                                       ELSE expires[p]]
    BY <1>3 DEF Update
  <2>2. /\ owner' \in [Pages -> Workers \cup {NoWorker}]
        /\ expires' \in [Pages -> Nat]
        /\ \A p \in Pages : owner'[p] = NoWorker <=> expires'[p] = 0
    <3> HIDE DEF won
    <3> QED
      BY <2>1, ConstantsAssumption
  <2>3. \A p \in Pages : lockedBy'[p] # NoWorker
          => /\ step'[lockedBy'[p]] = "locked"
             /\ p \in chosen'[lockedBy'[p]]
    BY <1>3 DEF Update
  <2> QED
    BY <1>3, <2>2, <2>3 DEF Update
<1>4. ASSUME NEW w \in Workers, Rollback(w)
      PROVE  IInv'
  BY <1>4 DEF Rollback, rows
<1>5. ASSUME NEW p \in Pages, Finish(p)
      PROVE  IInv'
  BY <1>5 DEF Finish, txn
<1>6. CASE Tick \/ UNCHANGED vars
  BY <1>6 DEF Tick, rows, txn, vars
<1> QED
  BY <1>1, <1>2, <1>3, <1>4, <1>5, <1>6 DEF Next

\* The inductive invariant holds always.
LEMMA Invariant == Spec => []IInv
  BY InitInv, StepInv, PTL DEF Spec

\* The columns of a lease are set and cleared together, and a row lock belongs
\* to a transaction that chose the page and has not yet committed.
THEOREM TypeCorrect == Spec => []TypeOK
  BY Invariant, PTL DEF IInv

\* A lease changes in three ways: a claim takes a page that is due and not
\* leased in the present state, whatever it was in the snapshot the claim
\* ranked; a crawl ends; or nothing happens to it.
LEMMA LeaseWriters ==
  ASSUME IInv, [Next]_vars, NEW p \in Pages,
         owner'[p] # owner[p] \/ expires'[p] # expires[p]
  PROVE  \/ ~Live(p, now) /\ dueAt[p] <= now
         \/ owner'[p] = NoWorker
<1> USE DEF IInv, TypeOK, ReadInThePast
<1>1. ASSUME NEW w \in Workers, Update(w)
      PROVE  ~Live(p, now) /\ dueAt[p] <= now
  <2>1. StillDue(p, readAt[w])
    BY <1>1 DEF Update
  <2> QED
    BY <2>1 DEF StillDue, Live
<1>2. ASSUME NEW q \in Pages, Finish(q)
      PROVE  owner'[p] = NoWorker
  BY <1>2 DEF Finish
<1>3. ASSUME NEW w \in Workers, Select(w) \/ Lock(w) \/ Rollback(w)
      PROVE  FALSE
  BY <1>3 DEF Select, Lock, Rollback, rows
<1>4. CASE Tick \/ UNCHANGED vars
  BY <1>4 DEF Tick, rows, vars
<1> QED
  BY <1>1, <1>2, <1>3, <1>4 DEF Next

LeaseStays ==
  \A p \in Pages :
    Live(p, now) /\ (owner'[p] # owner[p] \/ expires'[p] # expires[p])
      => owner'[p] = NoWorker

\* A claim never replaces a live lease, whichever snapshot it was ranked in.
THEOREM NoTheft == Spec => LiveLeaseNotStolen
<1>1. IInv /\ [Next]_vars => [LeaseStays]_vars
  BY LeaseWriters DEF LeaseStays
<1>2. Spec => [][LeaseStays]_vars
  BY <1>1, Invariant, PTL DEF Spec
<1> QED
  BY <1>2, PTL DEF LiveLeaseNotStolen, LeaseStays

ClaimIsDue ==
  \A p \in Pages :
    owner'[p] # NoWorker /\ (owner'[p] # owner[p] \/ expires'[p] # expires[p])
      => dueAt[p] <= now

\* A page whose crawl ended after a claim was ranked is not taken by it.
THEOREM OnlyDue == Spec => OnlyDueIsClaimed
<1>1. IInv /\ [Next]_vars => [ClaimIsDue]_vars
  BY LeaseWriters DEF ClaimIsDue
<1>2. Spec => [][ClaimIsDue]_vars
  BY <1>1, Invariant, PTL DEF Spec
<1> QED
  BY <1>2, PTL DEF OnlyDueIsClaimed, ClaimIsDue

-----------------------------------------------------------------------------
(* Transactions that store pages.  Whoever selects new pages holds the     *)
(* global lock until they are committed, so that nobody else has selected  *)
(* new pages then: what waits and what one writer adds is within the caps. *)

\* What a writer is about to add to the pages that wait.
Adds(w) == {u \in kept[w] \ Documents : page[u] = "absent"}

\* Within the caps.
Within(S) ==
  /\ Cardinality(S) <= MaxPendingTotal
  /\ \A h \in UrlHosts : Cardinality({u \in S : HostOfUrl[u] = h}) <= PerHostPendingCap

\* What is found and waits, and what any one writer is about to add to it, is
\* within the caps; who is about to add something holds the global lock.
FrontierInv ==
  /\ FrontierTypeOK
  /\ todo \in [Writers -> Seq(Keys \cup Urls)]
  /\ \A u \in Fetchable : page[u] \in {"fetched", "requeued"}
  /\ \A w \in Writers :
       /\ place[w] = "keys" =>
            keyLock[Global] = w \/ (todo[w] # <<>> /\ Head(todo[w]) = Global)
       /\ place[w] = "rows" /\ Adds(w) # {} => keyLock[Global] = w
       /\ place[w] # "rows" => kept[w] = {}
       /\ Within(FoundPending \cup Adds(w))
  /\ Within(FoundPending)

\* Fewer pages are within the caps too.
LEMMA WithinFewer ==
  ASSUME NEW S, IsFiniteSet(S), NEW T \in SUBSET S, Within(S),
         MaxPendingTotal \in Nat, PerHostPendingCap \in Nat
  PROVE  Within(T)
<1>1. /\ IsFiniteSet(T)
      /\ Cardinality(T) <= Cardinality(S) /\ Cardinality(S) \in Nat /\ Cardinality(T) \in Nat
  BY FS_Subset, FS_CardinalityType
<1>2. ASSUME NEW h \in UrlHosts
      PROVE  Cardinality({u \in T : HostOfUrl[u] = h}) <= PerHostPendingCap
  <2> DEFINE A == {u \in T : HostOfUrl[u] = h}
             B == {u \in S : HostOfUrl[u] = h}
  <2>1. A \subseteq B /\ B \subseteq S
    OBVIOUS
  <2>2. Cardinality(B) <= PerHostPendingCap
    BY DEF Within
  <2> HIDE DEF A, B
  <2>3. IsFiniteSet(B)
    BY <2>1, FS_Subset
  <2>4. /\ IsFiniteSet(A) /\ Cardinality(A) <= Cardinality(B)
        /\ Cardinality(A) \in Nat /\ Cardinality(B) \in Nat
    BY <2>1, <2>3, FS_Subset, FS_CardinalityType
  <2>5. Cardinality(A) <= PerHostPendingCap
    BY <2>2, <2>4
  <2> QED
    BY <2>5 DEF A
<1> QED
  BY <1>1, <1>2 DEF Within

\* One more than fewer than n is at most n.
LEMMA OneMore ==
  ASSUME NEW P, IsFiniteSet(P), NEW S \in SUBSET P, NEW u, NEW n \in Nat, Cardinality(P) < n
  PROVE  Cardinality(S \cup {u}) <= n
<1>1. /\ IsFiniteSet(S)
      /\ Cardinality(S) <= Cardinality(P) /\ Cardinality(S) \in Nat /\ Cardinality(P) \in Nat
  BY FS_Subset, FS_CardinalityType
<1>2. Cardinality(S \cup {u}) = IF u \in S THEN Cardinality(S) ELSE Cardinality(S) + 1
  BY <1>1, FS_AddElement
<1> QED
  BY <1>1, <1>2

\* A page for which there is room among P.
LEMMA WithinOneMore ==
  ASSUME NEW P, IsFiniteSet(P), NEW S \in SUBSET P, NEW u \in Urls, HasRoom(P, u), Within(S),
         MaxPendingTotal \in Nat, PerHostPendingCap \in Nat
  PROVE  Within(S \cup {u})
<1>1. Cardinality(S \cup {u}) <= MaxPendingTotal
  BY OneMore DEF HasRoom
<1>2. ASSUME NEW h \in UrlHosts
      PROVE  Cardinality({v \in S \cup {u} : HostOfUrl[v] = h}) <= PerHostPendingCap
  <2> DEFINE A == {v \in S : HostOfUrl[v] = h}
             B == {v \in P : HostOfUrl[v] = h}
             C == {v \in S \cup {u} : HostOfUrl[v] = h}
  <2>1. CASE HostOfUrl[u] = h
    <3>1. A \subseteq B /\ B \subseteq P /\ C = A \cup {u}
      BY <2>1
    <3>2. Cardinality(B) < PerHostPendingCap
      BY <2>1 DEF HasRoom
    <3> HIDE DEF A, B, C
    <3>3. IsFiniteSet(B)
      BY <3>1, FS_Subset
    <3>4. Cardinality(C) <= PerHostPendingCap
      BY <3>1, <3>2, <3>3, OneMore
    <3> QED
      BY <3>4 DEF C
  <2>2. CASE HostOfUrl[u] # h
    <3>1. C = A
      BY <2>2
    <3> QED
      BY <3>1 DEF Within
  <2> QED
    BY <2>1, <2>2
<1> QED
  BY <1>1, <1>2 DEF Within

\* The new pages among links, in what a transaction sees.
NewIn(view, links) == {v \in links \ Documents : view[v] = "absent"}

\* One link is kept only when the caps allow it.
LEMMA KeepLinkWithin ==
  ASSUME FrontierAssumption, NEW view, NEW base \in SUBSET Urls,
         \A v \in base : view[v] \in Pending,
         NEW links \in SUBSET Urls, NEW u \in Urls, Within(base \cup NewIn(view, links))
  PROVE  /\ KeepLink(view, links, u) \in SUBSET Urls
         /\ Within(base \cup NewIn(view, KeepLink(view, links, u)))
<1> DEFINE new     == NewIn(view, links)
           waiting == {v \in Urls : view[v] \in Pending} \cup new
           more    == NewIn(view, links \cup {u})
<1>1. \/ KeepLink(view, links, u) = links
      \/ /\ KeepLink(view, links, u) = links \cup {u}
         /\ u \in Documents \/ view[u] # "absent" \/ HasRoom(waiting, u)
  BY DEF KeepLink, NewIn
<1>2. CASE KeepLink(view, links, u) = links
  BY <1>2
<1>3. CASE /\ KeepLink(view, links, u) = links \cup {u}
           /\ u \in Documents \/ view[u] # "absent"
  <2>1. more = new
    BY <1>3 DEF NewIn
  <2> QED
    BY <1>3, <2>1
<1>4. CASE KeepLink(view, links, u) = links \cup {u} /\ HasRoom(waiting, u)
  <2>1. more \subseteq new \cup {u} /\ base \cup new \subseteq waiting /\ waiting \subseteq Urls
    BY DEF NewIn
  <2> HIDE DEF new, waiting, more
  <2>2. IsFiniteSet(waiting) /\ IsFiniteSet(base \cup new \cup {u})
    <3>1. base \cup new \cup {u} \subseteq Urls
      BY <2>1
    <3> QED
      BY <2>1, <3>1, FS_Subset DEF FrontierAssumption
  <2>3. MaxPendingTotal \in Nat /\ PerHostPendingCap \in Nat
    BY DEF FrontierAssumption
  <2>4. Within((base \cup new) \cup {u})
    BY <1>4, <2>1, <2>2, <2>3, WithinOneMore DEF new
  <2>5. base \cup more \in SUBSET (base \cup new \cup {u})
    BY <2>1
  <2>6. Within(base \cup more)
    BY <2>2, <2>3, <2>4, <2>5, WithinFewer
  <2> QED
    BY <1>4, <2>6 DEF more
<1> QED
  BY <1>1, <1>2, <1>3, <1>4

\* What KeptOf is: the links are taken one after the other.
LEMMA KeptOfRec ==
  ASSUME NEW view, NEW s, Len(s) \in Nat
  PROVE  \E f : /\ f = [i \in 0 .. Len(s) |->
                          IF i = 0 THEN {} ELSE KeepLink(view, f[i - 1], s[i])]
                /\ KeptOf(view, s) = f[Len(s)]
<1> DEFINE Good(n, f) ==
             f = [i \in 0 .. n |-> IF i = 0 THEN {} ELSE KeepLink(view, f[i - 1], s[i])]
           N == {n \in Nat : \E f : Good(n, f)}
<1>1. 0 \in N
  <2>1. Good(0, [i \in 0 .. 0 |-> {}])
    OBVIOUS
  <2> QED
    BY <2>1
<1>2. ASSUME NEW n \in Nat, n \in N
      PROVE  n + 1 \in N
  <2>1. PICK f : Good(n, f)
    BY <1>2
  <2> DEFINE g == [i \in 0 .. n + 1 |->
                     IF i = n + 1 THEN KeepLink(view, f[n], s[n + 1]) ELSE f[i]]
  <2>2. \A i \in 0 .. n + 1 :
          g[i] = IF i = 0 THEN {} ELSE KeepLink(view, g[i - 1], s[i])
    <3> SUFFICES ASSUME NEW i \in 0 .. n + 1
                 PROVE  g[i] = IF i = 0 THEN {} ELSE KeepLink(view, g[i - 1], s[i])
      OBVIOUS
    <3>1. CASE i = n + 1
      BY <3>1
    <3>2. CASE i # n + 1
      <4>1. i \in 0 .. n /\ (i # 0 => i - 1 \in 0 .. n)
        BY <3>2
      <4>2. f[i] = IF i = 0 THEN {} ELSE KeepLink(view, f[i - 1], s[i])
        BY <2>1, <4>1
      <4>3. g[i] = f[i] /\ (i # 0 => g[i - 1] = f[i - 1])
        BY <4>1
      <4> QED
        BY <4>2, <4>3
    <3> QED
      BY <3>1, <3>2
  <2>3. Good(n + 1, g)
    BY <2>2
  <2> HIDE DEF Good, g
  <2> QED
    BY <2>3
<1> HIDE DEF N
<1>3. Len(s) \in N
  BY <1>1, <1>2, NatSetInduction
<1>4. \E f : Good(Len(s), f)
  BY <1>3 DEF N
<1> QED
  BY <1>4 DEF KeptOf

\* The links that are kept leave the frontier within its caps.
LEMMA KeptWithin ==
  ASSUME FrontierAssumption, NEW view, NEW base \in SUBSET Urls,
         \A v \in base : view[v] \in Pending, Within(base), NEW s \in Seq(Urls)
  PROVE  /\ KeptOf(view, s) \in SUBSET Urls
         /\ Within(base \cup NewIn(view, KeptOf(view, s)))
<1>1. Len(s) \in Nat /\ \A i \in 1 .. Len(s) : s[i] \in Urls
  OBVIOUS
<1>2. PICK f : /\ f = [i \in 0 .. Len(s) |->
                         IF i = 0 THEN {} ELSE KeepLink(view, f[i - 1], s[i])]
               /\ KeptOf(view, s) = f[Len(s)]
  BY <1>1, KeptOfRec
<1> DEFINE Fits(links) == links \in SUBSET Urls /\ Within(base \cup NewIn(view, links))
           N == {n \in Nat : n <= Len(s) => Fits(f[n])}
<1>3. 0 \in N
  <2>1. 0 \in 0 .. Len(s)
    BY <1>1
  <2>2. f[0] = IF 0 = 0 THEN {} ELSE KeepLink(view, f[0 - 1], s[0])
    BY <1>2, <2>1, Zenon
  <2>3. f[0] = {}
    BY <2>2
  <2>4. base \cup NewIn(view, {}) = base
    BY DEF NewIn
  <2>5. Fits({})
    BY <2>4
  <2> HIDE DEF Fits
  <2> QED
    BY <2>3, <2>5
<1>4. ASSUME NEW n \in Nat, n \in N
      PROVE  n + 1 \in N
  <2> SUFFICES ASSUME n + 1 <= Len(s)
               PROVE  Fits(f[n + 1])
    OBVIOUS
  <2>1. Fits(f[n]) /\ s[n + 1] \in Urls
    <3>1. n <= Len(s) /\ n + 1 \in 1 .. Len(s)
      BY <1>1
    <3> HIDE DEF Fits
    <3> QED
      BY <1>1, <1>4, <3>1
  <2>2. f[n + 1] = KeepLink(view, f[n], s[n + 1])
    <3>1. n + 1 \in 0 .. Len(s) /\ n + 1 # 0 /\ (n + 1) - 1 = n
      BY <1>1
    <3>2. f[n + 1] = KeepLink(view, f[(n + 1) - 1], s[n + 1])
      BY <1>2, <3>1
    <3> QED
      BY <3>1, <3>2
  <2>3. Fits(KeepLink(view, f[n], s[n + 1]))
    BY <2>1, KeepLinkWithin
  <2> HIDE DEF Fits
  <2> QED
    BY <2>2, <2>3
<1> HIDE DEF N
<1>5. Len(s) \in N
  BY <1>1, <1>3, <1>4, NatSetInduction
<1> QED
  BY <1>1, <1>2, <1>5 DEF N

\* The advisory locks that are taken begin with the global one.
LEMMA KeysForType ==
  ASSUME FrontierAssumption, NEW links
  PROVE  /\ KeysFor(links) \in Seq(Keys)
         /\ links # <<>> => KeysFor(links) # <<>> /\ Head(KeysFor(links)) = Global
<1> DEFINE hosts == {HostOfUrl[u] : u \in ToSet(links)}
<1>1. Among(HostOrder, hosts) \in Seq(UrlHosts)
  BY AmongType DEF FrontierAssumption
<1>2. Among(HostOrder, hosts) \in Seq(Keys) /\ Global \in Keys
  BY <1>1 DEF Keys
<1>3. KeysFor(links) = IF links = <<>> THEN <<>> ELSE <<Global>> \o Among(HostOrder, hosts)
  BY DEF KeysFor
<1> HIDE DEF hosts
<1> QED
  BY <1>2, <1>3

\* What a transaction selects fits, when what waits does before.
LEMMA SelectedWithin ==
  ASSUME FrontierAssumption, FrontierInv, NEW w \in Writers
  PROVE  LET selection == KeptOf(View(w), LinksOf[source[w]])
         IN  /\ selection \in SUBSET Urls
             /\ Within(FoundPending \cup {u \in selection \ Documents : page[u] = "absent"})
<1> DEFINE selection == KeptOf(View(w), LinksOf[source[w]])
<1>1. /\ page \in [Urls -> States] /\ source[w] \in Fetchable /\ source[w] \in Urls
      /\ page[source[w]] \in {"fetched", "requeued"}
      /\ LinksOf[source[w]] \in Seq(Urls)
  BY DEF FrontierInv, FrontierTypeOK, FrontierAssumption
<1>2. \A u \in Urls : View(w)[u] = IF u = source[w] THEN "fetched" ELSE page[u]
  BY <1>1 DEF View
<1>3. FoundPending \in SUBSET Urls /\ \A u \in FoundPending : View(w)[u] \in Pending
  BY <1>1, <1>2 DEF FoundPending, Pending
<1>4. Within(FoundPending)
  BY DEF FrontierInv
<1>5. selection \in SUBSET Urls /\ Within(FoundPending \cup NewIn(View(w), selection))
  BY <1>1, <1>3, <1>4, KeptWithin
<1> HIDE DEF selection
<1>6. NewIn(View(w), selection) = {u \in selection \ Documents : page[u] = "absent"}
  BY <1>1, <1>2, <1>5 DEF NewIn
<1> QED
  BY <1>5, <1>6 DEF selection

\* The types, and where links are kept.
FrontierTypes ==
  /\ FrontierTypeOK
  /\ todo \in [Writers -> Seq(Keys \cup Urls)]
  /\ \A u \in Fetchable : page[u] \in {"fetched", "requeued"}
  /\ \A w \in Writers : place[w] # "rows" => kept[w] = {}

\* Each step keeps the types.
LEMMA StepFrontierTypes ==
  ASSUME FrontierAssumption, FrontierInv, [FrontierNext]_frontierVars
  PROVE  FrontierTypes'
<1>0. /\ page \in [Urls -> States]
      /\ rowLock \in [Urls -> Writers \cup {NoWriter}]
      /\ keyLock \in [Keys -> Writers \cup {NoWriter}]
      /\ place \in [Writers -> {"idle", "source", "keys", "rows"}]
      /\ source \in [Writers -> Fetchable]
      /\ kept \in [Writers -> SUBSET Urls]
      /\ seeded \subseteq Seeds
      /\ todo \in [Writers -> Seq(Keys \cup Urls)]
      /\ \A u \in Fetchable : page[u] \in {"fetched", "requeued"}
      /\ \A w \in Writers : place[w] # "rows" => kept[w] = {}
  BY DEF FrontierInv, FrontierTypeOK
<1> USE DEF FrontierTypes, FrontierTypeOK, Go, States
<1>1. ASSUME NEW w \in Writers, Begin(w)
      PROVE  FrontierTypes'
  BY <1>0, <1>1 DEF Begin
<1>2. ASSUME NEW w \in Writers, LockSource(w)
      PROVE  FrontierTypes'
  <2>1. source[w] \in Urls
    BY <1>0 DEF FrontierAssumption
  <2>2. KeysFor(LinksOf[source[w]]) \in Seq(Keys \cup Urls)
    BY <1>0, KeysForType
  <2> QED
    BY <1>0, <1>2, <2>1, <2>2 DEF LockSource
<1>3. ASSUME NEW w \in Writers, LockKey(w)
      PROVE  FrontierTypes'
  <2>1. Tail(todo[w]) \in Seq(Keys \cup Urls)
    BY <1>0, <1>3 DEF LockKey
  <2> QED
    BY <1>0, <1>3, <2>1 DEF LockKey
<1>4. ASSUME NEW w \in Writers, SelectLinks(w)
      PROVE  FrontierTypes'
  <2> DEFINE links  == LinksOf[source[w]]
             selection == KeptOf(View(w), links)
  <2>1. links \in Seq(Urls)
    BY <1>0 DEF FrontierAssumption
  <2>2. selection \in SUBSET Urls
    BY SelectedWithin
  <2>3. Among(links, selection \ {source[w]}) \in Seq(Keys \cup Urls)
    BY <2>1, AmongType
  <2> HIDE DEF links, selection
  <2> QED
    BY <1>0, <1>4, <2>2, <2>3 DEF SelectLinks, links, selection
<1>5. ASSUME NEW w \in Writers, LockRow(w)
      PROVE  FrontierTypes'
  <2>1. Tail(todo[w]) \in Seq(Keys \cup Urls)
    BY <1>0, <1>5 DEF LockRow
  <2> QED
    BY <1>0, <1>5, <2>1 DEF LockRow
<1>6. ASSUME NEW w \in Writers, EndTransaction(w), UNCHANGED <<page, seeded>>
      PROVE  FrontierTypes'
  BY <1>0, <1>6 DEF EndTransaction, ReleasedKeys
<1>7. ASSUME NEW w \in Writers, Commit(w)
      PROVE  FrontierTypes'
  <2>1. /\ page' \in [Urls -> States] /\ seeded' \subseteq Seeds
        /\ \A u \in Fetchable : page'[u] \in {"fetched", "requeued"}
    <3>1. Fetchable \subseteq Urls
      BY <1>0 DEF FrontierAssumption
    <3> QED
      BY <1>0, <1>7, <3>1 DEF Commit
  <2>2. EndTransaction(w)
    BY <1>0, <1>7 DEF Commit
  <2> QED
    BY <1>0, <2>1, <2>2 DEF EndTransaction, ReleasedKeys
<1>8. ASSUME NEW u \in Urls, Discover(u)
      PROVE  FrontierTypes'
  BY <1>0, <1>8 DEF Discover, writer
<1>9. ASSUME NEW u \in Urls, Requeue(u)
      PROVE  FrontierTypes'
  BY <1>0, <1>9 DEF Requeue, writer
<1>10. ASSUME UNCHANGED frontierVars
       PROVE  FrontierTypes'
  BY <1>0, <1>10 DEF frontierVars, writer
<1> HIDE DEF FrontierTypes
<1> QED
  BY <1>1, <1>2, <1>3, <1>4, <1>5, <1>6, <1>7, <1>8, <1>9, <1>10
     DEF FrontierNext, Advance, BreakDeadlock, Abort

\* Adding only what waits or is about to, the caps hold.
LEMMA CapsKept ==
  ASSUME FrontierAssumption, FrontierInv, NEW w \in Writers,
         NEW S \in SUBSET (FoundPending \cup Adds(w))
  PROVE  Within(S)
<1>1. FoundPending \cup Adds(w) \subseteq Urls
  BY DEF FoundPending, Adds, FrontierInv, FrontierTypeOK
<1>2. IsFiniteSet(FoundPending \cup Adds(w))
  BY <1>1, FS_Subset DEF FrontierAssumption
<1>3. Within(FoundPending \cup Adds(w)) /\ MaxPendingTotal \in Nat /\ PerHostPendingCap \in Nat
  BY DEF FrontierInv, FrontierAssumption
<1> QED
  BY <1>2, <1>3, WithinFewer

\* No step makes a stored page absent, and only a selection adds to what a
\* writer keeps.
LEMMA StepPages ==
  ASSUME FrontierAssumption, FrontierInv, [FrontierNext]_frontierVars
  PROVE  /\ \A u \in Urls : page'[u] = "absent" => page[u] = "absent"
         /\ \A w \in Writers : \/ kept'[w] \subseteq kept[w]
                               \/ SelectLinks(w)
<1>0. page \in [Urls -> States] /\ kept \in [Writers -> SUBSET Urls]
  BY DEF FrontierInv, FrontierTypeOK
<1> DEFINE Goal == /\ \A u \in Urls : page'[u] = "absent" => page[u] = "absent"
                   /\ \A w \in Writers : \/ kept'[w] \subseteq kept[w]
                                         \/ SelectLinks(w)
<1>1. ASSUME NEW w \in Writers, Begin(w) \/ LockSource(w) \/ LockKey(w) \/ LockRow(w)
      PROVE  Goal
  BY <1>1 DEF Begin, LockSource, LockKey, LockRow
<1>2. ASSUME NEW w \in Writers, SelectLinks(w)
      PROVE  Goal
  <2>1. page' = page /\ \A v \in Writers \ {w} : kept'[v] = kept[v]
    BY <1>0, <1>2 DEF SelectLinks
  <2> QED
    BY <1>2, <2>1
<1>3. ASSUME NEW w \in Writers, Commit(w) \/ Abort(w)
      PROVE  Goal
  <2>1. kept' = [kept EXCEPT ![w] = {}]
    BY <1>3 DEF Commit, Abort, EndTransaction
  <2>2. \A u \in Urls : page'[u] = "absent" => page[u] = "absent"
    BY <1>0, <1>3 DEF Commit, Abort
  <2> QED
    BY <1>0, <2>1, <2>2
<1>4. ASSUME NEW u \in Urls, Discover(u) \/ Requeue(u)
      PROVE  Goal
  BY <1>0, <1>4 DEF Discover, Requeue, writer
<1>5. ASSUME UNCHANGED frontierVars
      PROVE  Goal
  BY <1>5 DEF frontierVars, writer
<1> HIDE DEF Goal
<1>6. Goal
  BY <1>1, <1>2, <1>3, <1>4, <1>5 DEF FrontierNext, Advance, BreakDeadlock
<1> QED
  BY <1>6 DEF Goal

\* Whoever has selected new pages holds the global lock until they are stored.
HoldsGlobal ==
  \A w \in Writers :
    /\ place[w] = "keys" =>
         keyLock[Global] = w \/ (todo[w] # <<>> /\ Head(todo[w]) = Global)
    /\ place[w] = "rows" /\ Adds(w) # {} => keyLock[Global] = w

\* Each step leaves it with them.
LEMMA StepHoldsGlobal ==
  ASSUME FrontierAssumption, FrontierInv, [FrontierNext]_frontierVars
  PROVE  HoldsGlobal'
<1>0. /\ HoldsGlobal
      /\ keyLock \in [Keys -> Writers \cup {NoWriter}] /\ Global \in Keys
      /\ NoWriter \notin Writers
      /\ place \in [Writers -> {"idle", "source", "keys", "rows"}]
      /\ todo \in [Writers -> Seq(Keys \cup Urls)]
      /\ kept \in [Writers -> SUBSET Urls]
      /\ \A w \in Writers : place[w] # "rows" => kept[w] = {}
  BY DEF FrontierInv, FrontierTypeOK, HoldsGlobal, Keys, FrontierAssumption
<1>9. \A w \in Writers : SelectLinks(w) \/ Adds(w)' \subseteq Adds(w)
  BY <1>0, StepPages DEF Adds
<1> DEFINE Holds(w) ==
      /\ place[w] = "keys" =>
           keyLock[Global] = w \/ (todo[w] # <<>> /\ Head(todo[w]) = Global)
      /\ place[w] = "rows" /\ Adds(w) # {} => keyLock[Global] = w
<1>10. ASSUME NEW v \in Writers, place'[v] = place[v], todo'[v] = todo[v],
              Adds(v)' \subseteq Adds(v), keyLock[Global] = v => keyLock'[Global] = v
       PROVE  Holds(v)'
  BY <1>0, <1>10 DEF HoldsGlobal
<1>1. ASSUME NEW w \in Writers, Begin(w), NEW v \in Writers
      PROVE  Holds(v)'
  <2>2. page' = page /\ kept' = kept /\ keyLock' = keyLock /\ todo' = todo
        /\ place' = [place EXCEPT ![w] = "source"]
    BY <1>1 DEF Begin, Go
  <2>3. Adds(v)' = Adds(v)
    BY <2>2 DEF Adds
  <2> QED
    BY <1>0, <2>2, <2>3 DEF HoldsGlobal
<1>2. ASSUME NEW w \in Writers, LockSource(w), NEW v \in Writers
      PROVE  Holds(v)'
  <2>1. page' = page /\ kept' = kept /\ keyLock' = keyLock /\ place[w] = "source"
        /\ todo' = [todo EXCEPT ![w] = KeysFor(LinksOf[source[w]])]
        /\ place' = [place EXCEPT ![w] =
                       IF LinksOf[source[w]] = <<>> THEN "rows" ELSE "keys"]
    BY <1>2 DEF LockSource, Go
  <2>2. Adds(v)' = Adds(v)
    BY <2>1 DEF Adds
  <2>3. CASE v = w
    <3>1. Adds(v) = {}
      BY <1>0, <2>1, <2>3 DEF Adds
    <3>2. LinksOf[source[w]] # <<>> =>
            KeysFor(LinksOf[source[w]]) # <<>> /\ Head(KeysFor(LinksOf[source[w]])) = Global
      BY KeysForType
    <3> QED
      BY <1>0, <2>1, <2>2, <2>3, <3>1, <3>2
  <2>4. CASE v # w
    <3>1. place'[v] = place[v] /\ todo'[v] = todo[v]
      BY <1>0, <2>1, <2>4
    <3> QED
      BY <1>10, <2>1, <2>2, <3>1
  <2> QED
    BY <2>3, <2>4
<1>3. ASSUME NEW w \in Writers, LockKey(w), NEW v \in Writers
      PROVE  Holds(v)'
  <2>1. page' = page /\ kept' = kept /\ place' = place
        /\ place[w] = "keys" /\ todo[w] # <<>> /\ keyLock[Head(todo[w])] = NoWriter
        /\ keyLock' = [keyLock EXCEPT ![Head(todo[w])] = w]
        /\ todo' = [todo EXCEPT ![w] = Tail(@)]
    BY <1>3 DEF LockKey
  <2>2. Adds(v)' = Adds(v)
    BY <2>1 DEF Adds
  <2>3. \A x \in Writers : keyLock[Global] = x => keyLock'[Global] = x
    BY <1>0, <2>1
  <2>4. CASE v = w
    <3>1. keyLock'[Global] = w
      BY <1>0, <2>1, <2>3 DEF HoldsGlobal
    <3> QED
      BY <2>1, <2>4, <3>1
  <2>5. CASE v # w
    <3>1. place'[v] = place[v] /\ todo'[v] = todo[v]
      BY <1>0, <2>1, <2>5
    <3> QED
      BY <1>10, <2>2, <2>3, <3>1
  <2> QED
    BY <2>4, <2>5
<1>4. ASSUME NEW w \in Writers, SelectLinks(w), NEW v \in Writers
      PROVE  Holds(v)'
  <2>1. /\ page' = page /\ keyLock' = keyLock /\ place[w] = "keys" /\ todo[w] = <<>>
        /\ place' = [place EXCEPT ![w] = "rows"]
        /\ kept' = [kept EXCEPT ![w] = KeptOf(View(w), LinksOf[source[w]])]
        /\ todo' = [todo EXCEPT ![w] = Among(LinksOf[source[w]],
                      KeptOf(View(w), LinksOf[source[w]]) \ {source[w]})]
    BY <1>4 DEF SelectLinks, Go
  <2>2. CASE v = w
    BY <1>0, <2>1, <2>2 DEF HoldsGlobal
  <2>3. CASE v # w
    <3>1. place'[v] = place[v] /\ todo'[v] = todo[v] /\ kept'[v] = kept[v]
      BY <1>0, <2>1, <2>3
    <3>2. Adds(v)' = Adds(v)
      BY <2>1, <3>1 DEF Adds
    <3> QED
      BY <1>10, <2>1, <3>1, <3>2
  <2> QED
    BY <2>2, <2>3
<1>5. ASSUME NEW w \in Writers, LockRow(w), NEW v \in Writers
      PROVE  Holds(v)'
  <2>1. page' = page /\ kept' = kept /\ place' = place /\ keyLock' = keyLock
        /\ place[w] = "rows" /\ todo' = [todo EXCEPT ![w] = Tail(@)]
    BY <1>5 DEF LockRow
  <2>2. Adds(v)' = Adds(v)
    BY <2>1 DEF Adds
  <2>3. v = w \/ todo'[v] = todo[v]
    BY <1>0, <2>1
  <2> QED
    BY <1>0, <2>1, <2>2, <2>3 DEF HoldsGlobal
<1>6. ASSUME NEW w \in Writers, Commit(w) \/ Abort(w), NEW v \in Writers
      PROVE  Holds(v)'
  <2>1. /\ keyLock' = [k \in Keys |-> IF keyLock[k] = w THEN NoWriter ELSE keyLock[k]]
        /\ place' = [place EXCEPT ![w] = "idle"]
        /\ todo' = [todo EXCEPT ![w] = <<>>]
    BY <1>6 DEF Commit, Abort, EndTransaction, ReleasedKeys, Go
  <2>2. CASE v = w
    BY <1>0, <2>1, <2>2
  <2>3. CASE v # w
    <3>1. place'[v] = place[v] /\ todo'[v] = todo[v]
      BY <1>0, <2>1, <2>3
    <3>2. keyLock[Global] = v => keyLock'[Global] = v
      BY <1>0, <2>1, <2>3
    <3>3. ~SelectLinks(v)
      <4>1. SelectLinks(v) => place'[v] = "rows" /\ place[v] = "keys"
        BY <1>0 DEF SelectLinks, Go
      <4> QED
        BY <3>1, <4>1
    <3>4. Adds(v)' \subseteq Adds(v)
      BY <1>9, <3>3
    <3> QED
      BY <1>10, <3>1, <3>2, <3>4
  <2> QED
    BY <2>2, <2>3
<1>7. ASSUME NEW u \in Urls, Discover(u) \/ Requeue(u), NEW v \in Writers
      PROVE  Holds(v)'
  <2>1. keyLock' = keyLock /\ place' = place /\ todo' = todo
    BY <1>7 DEF Discover, Requeue, writer
  <2>2. ~SelectLinks(v)
    BY <1>0, <2>1 DEF SelectLinks, Go
  <2>3. Adds(v)' \subseteq Adds(v)
    BY <1>9, <2>2
  <2> QED
    BY <1>10, <2>1, <2>3
<1>8. ASSUME UNCHANGED frontierVars, NEW v \in Writers
      PROVE  Holds(v)'
  <2>1. keyLock' = keyLock /\ place' = place /\ todo' = todo /\ page' = page /\ kept' = kept
    BY <1>8 DEF frontierVars, writer
  <2>2. Adds(v)' = Adds(v)
    BY <2>1 DEF Adds
  <2> QED
    BY <1>10, <2>1, <2>2
<1> HIDE DEF Holds
<1>11. ASSUME NEW v \in Writers
       PROVE  Holds(v)'
  BY <1>1, <1>2, <1>3, <1>4, <1>5, <1>6, <1>7, <1>8
     DEF FrontierNext, Advance, BreakDeadlock
<1> QED
  BY <1>11 DEF HoldsGlobal, Holds

\* What waits, and what anyone is about to add to it, stays within the caps.
LEMMA StepCaps ==
  ASSUME FrontierAssumption, FrontierInv, [FrontierNext]_frontierVars
  PROVE  /\ Within(FoundPending)'
         /\ \A w \in Writers : Within(FoundPending \cup Adds(w))'
<1>0. /\ page \in [Urls -> States]
      /\ kept \in [Writers -> SUBSET Urls]
      /\ NoWriter \notin Writers
      /\ \A w \in Writers : place[w] # "rows" => kept[w] = {}
      /\ \A w \in Writers : place[w] = "rows" /\ Adds(w) # {} => keyLock[Global] = w
      /\ Within(FoundPending)
  BY DEF FrontierInv, FrontierTypeOK, FrontierAssumption
<1> DEFINE Fits == /\ Within(FoundPending')
                   /\ \A w \in Writers : Within(FoundPending' \cup Adds(w)')
<1>1. ASSUME FoundPending' \subseteq FoundPending, \A w \in Writers : Adds(w)' \subseteq Adds(w)
      PROVE  Fits
  <2>1. Within(FoundPending')
    <3>1. FoundPending \subseteq Urls
      BY DEF FoundPending
    <3>2. IsFiniteSet(FoundPending) /\ MaxPendingTotal \in Nat /\ PerHostPendingCap \in Nat
      BY <3>1, FS_Subset DEF FrontierAssumption
    <3> QED
      BY <1>0, <1>1, <3>2, WithinFewer
  <2>2. ASSUME NEW w \in Writers
        PROVE  Within(FoundPending' \cup Adds(w)')
    <3>1. FoundPending' \cup Adds(w)' \in SUBSET (FoundPending \cup Adds(w))
      BY <1>1
    <3> QED
      BY <3>1, CapsKept
  <2> QED
    BY <2>1, <2>2
<1>2. ASSUME NEW w \in Writers,
             Begin(w) \/ LockSource(w) \/ LockKey(w) \/ LockRow(w) \/ Abort(w)
      PROVE  Fits
  <2>1. page' = page /\ seeded' = seeded
        /\ (kept' = kept \/ kept' = [kept EXCEPT ![w] = {}])
    BY <1>2 DEF Begin, LockSource, LockKey, LockRow, Abort, EndTransaction
  <2>2. FoundPending' = FoundPending
    BY <2>1 DEF FoundPending
  <2>3. \A v \in Writers : kept'[v] \subseteq kept[v]
    BY <1>0, <2>1
  <2>4. \A v \in Writers : Adds(v)' \subseteq Adds(v)
    BY <2>1, <2>3 DEF Adds
  <2> QED
    BY <1>1, <2>2, <2>4
<1>3. ASSUME NEW w \in Writers, SelectLinks(w)
      PROVE  Fits
  <2> DEFINE selection == KeptOf(View(w), LinksOf[source[w]])
  <2>1. page' = page /\ seeded' = seeded /\ kept' = [kept EXCEPT ![w] = selection]
    BY <1>3 DEF SelectLinks
  <2>2. FoundPending' = FoundPending
    BY <2>1 DEF FoundPending
  <2>3. Within(FoundPending \cup {u \in selection \ Documents : page[u] = "absent"})
    BY SelectedWithin
  <2> HIDE DEF selection
  <2>4. Adds(w)' = {u \in selection \ Documents : page[u] = "absent"}
    BY <1>0, <2>1 DEF Adds
  <2>5. ASSUME NEW v \in Writers, v # w
        PROVE  Within(FoundPending' \cup Adds(v)')
    <3>1. Adds(v)' = Adds(v)
      BY <1>0, <2>1, <2>5 DEF Adds
    <3> QED
      BY <2>2, <3>1, CapsKept
  <2>6. Within(FoundPending' \cup Adds(w)')
    BY <2>2, <2>3, <2>4
  <2>7. Within(FoundPending')
    BY <1>0, <2>2
  <2> QED
    BY <2>5, <2>6, <2>7
<1>4. ASSUME NEW w \in Writers, Commit(w)
      PROVE  Fits
  <2>0. /\ place[w] = "rows" /\ seeded' = seeded \ {source[w]}
        /\ kept' = [kept EXCEPT ![w] = {}]
        /\ page' = [u \in Urls |->
             CASE u = source[w]                       -> "fetched"
               [] u \in kept[w] /\ page[u] = "absent" ->
                    IF u \in Documents THEN "excluded" ELSE "discovered"
               [] OTHER                               -> page[u]]
    BY <1>4 DEF Commit, EndTransaction
  <2>1. FoundPending' \subseteq FoundPending \cup Adds(w)
    <3>1. ASSUME NEW u \in Urls, page'[u] = "discovered", u \notin seeded'
          PROVE  u \in FoundPending \cup Adds(w)
      <4>1. page'[u] = CASE u = source[w]                       -> "fetched"
                         [] u \in kept[w] /\ page[u] = "absent" ->
                              IF u \in Documents THEN "excluded" ELSE "discovered"
                         [] OTHER                               -> page[u]
        BY <2>0, Zenon
      <4>2. u # source[w] /\ u \notin seeded
        <5>1. page[source[w]] # "absent"
          BY DEF FrontierInv, FrontierTypeOK
        <5>2. u = source[w] => page'[u] = "fetched"
          BY <4>1, <5>1
        <5> QED
          BY <2>0, <3>1, <5>2
      <4>3. page[u] = "discovered" \/ (u \in kept[w] \ Documents /\ page[u] = "absent")
        BY <3>1, <4>1, <4>2
      <4> QED
        BY <4>2, <4>3, <3>1 DEF FoundPending, Adds
    <3>2. FoundPending' = {u \in Urls : page'[u] = "discovered"} \ seeded'
      BY DEF FoundPending
    <3> QED
      BY <3>1, <3>2
  <2>2. \A v \in Writers : Adds(v)' \subseteq Adds(v)
    <3>1. \A v \in Writers : kept'[v] \subseteq kept[v]
      BY <1>0, <2>0
    <3>2. \A u \in Urls : page'[u] = "absent" => page[u] = "absent"
      BY StepPages
    <3> QED
      BY <1>0, <3>1, <3>2 DEF Adds
  <2>3. CASE Adds(w) = {}
    BY <1>1, <2>1, <2>2, <2>3
  <2>4. CASE Adds(w) # {}
    <3>1. \A v \in Writers : Adds(v)' \subseteq Adds(w)
      <4>1. ASSUME NEW v \in Writers, v # w
            PROVE  Adds(v) = {}
        <5>1. keyLock[Global] = w
          BY <1>0, <2>0, <2>4
        <5>2. place[v] # "rows" => Adds(v) = {}
          BY <1>0 DEF Adds
        <5> QED
          BY <1>0, <4>1, <5>1, <5>2
      <4> QED
        BY <2>2, <4>1
    <3>2. FoundPending' \in SUBSET (FoundPending \cup Adds(w))
          /\ \A v \in Writers : FoundPending' \cup Adds(v)' \in SUBSET (FoundPending \cup Adds(w))
      BY <2>1, <3>1
    <3> QED
      BY <3>2, CapsKept
  <2> QED
    BY <2>3, <2>4
<1>5. ASSUME NEW u \in Urls, Discover(u) \/ Requeue(u)
      PROVE  Fits
  <2>1. FoundPending' \subseteq FoundPending
    BY <1>0, <1>5 DEF Discover, Requeue, FoundPending
  <2>2. \A v \in Writers : Adds(v)' \subseteq Adds(v)
    <3>1. kept' = kept
      BY <1>5 DEF Discover, Requeue, writer
    <3>2. \A x \in Urls : page'[x] = "absent" => page[x] = "absent"
      BY StepPages
    <3> QED
      BY <1>0, <3>1, <3>2 DEF Adds
  <2> QED
    BY <1>1, <2>1, <2>2
<1>6. ASSUME UNCHANGED frontierVars
      PROVE  Fits
  <2>1. page' = page /\ seeded' = seeded /\ kept' = kept
    BY <1>6 DEF frontierVars, writer
  <2>2. FoundPending' = FoundPending /\ \A v \in Writers : Adds(v)' = Adds(v)
    BY <2>1 DEF FoundPending, Adds
  <2> QED
    BY <1>1, <2>2
<1> HIDE DEF Fits
<1>7. Fits
  BY <1>2, <1>3, <1>4, <1>5, <1>6 DEF FrontierNext, Advance, BreakDeadlock
<1>8. \A w \in Writers : (FoundPending \cup Adds(w))' = FoundPending' \cup Adds(w)'
  OBVIOUS
<1> QED
  BY <1>7, <1>8 DEF Fits, Within

\* Each step keeps the invariant.
LEMMA StepFrontierInv ==
  ASSUME FrontierAssumption, FrontierInv, [FrontierNext]_frontierVars
  PROVE  FrontierInv'
<1>1. FrontierTypes' /\ HoldsGlobal'
      /\ Within(FoundPending)' /\ \A w \in Writers : Within(FoundPending \cup Adds(w))'
  BY StepFrontierTypes, StepHoldsGlobal, StepCaps
<1> QED
  BY <1>1 DEF FrontierInv, FrontierTypes, HoldsGlobal

\* The invariant holds at first.
LEMMA InitFrontierInv ==
  ASSUME FrontierAssumption, FrontierInit
  PROVE  FrontierInv
<1>1. FrontierTypeOK
  <2>1. (CHOOSE p \in Fetchable : TRUE) \in Fetchable
    BY DEF FrontierAssumption
  <2>2. page \in [Urls -> States]
    BY DEF FrontierInit, States
  <2> QED
    BY <2>1, <2>2 DEF FrontierInit, FrontierTypeOK
<1>2. todo \in [Writers -> Seq(Keys \cup Urls)]
  BY DEF FrontierInit
<1>3. \A u \in Fetchable : page[u] \in {"fetched", "requeued"}
  BY DEF FrontierInit, FrontierAssumption
<1>4. FoundPending = {}
  BY DEF FrontierInit, FoundPending
<1>5. \A w \in Writers : place[w] = "idle" /\ kept[w] = {} /\ Adds(w) = {}
  BY DEF FrontierInit, Adds
<1>6. Within({})
  <2>1. Cardinality({}) = 0 /\ \A h \in UrlHosts : {u \in {} : HostOfUrl[u] = h} = {}
    BY FS_EmptySet
  <2> QED
    BY <2>1 DEF Within, FrontierAssumption
<1>7. Within(FoundPending) /\ \A w \in Writers : Within(FoundPending \cup Adds(w))
  BY <1>4, <1>5, <1>6
<1> QED
  BY <1>1, <1>2, <1>3, <1>5, <1>7 DEF FrontierInv

\* Whatever the writers do, found pages that wait are within the caps
\* (site_map.py:464-473).
THEOREM FrontierCaps == FrontierSpec => [](FrontierTypeOK /\ FrontierWithinCaps)
<1>1. FrontierInit => FrontierInv
  BY InitFrontierInv, FrontierAssumption
<1>2. FrontierInv /\ [FrontierNext]_frontierVars => FrontierInv'
  BY StepFrontierInv, FrontierAssumption
<1>3. FrontierInv => FrontierTypeOK /\ FrontierWithinCaps
  BY DEF FrontierInv, FrontierWithinCaps, Within
<1> QED
  BY <1>1, <1>2, <1>3, PTL DEF FrontierSpec

-----------------------------------------------------------------------------
(* The loop of the announcement worker.  The queue is in the order of due  *)
(* times, so that the wait, which ends at the due time of its head, ends   *)
(* before that of any other; and who queues an earlier run wakes the loop. *)

Schedules == [by : Admins, at : 0 .. MaxClock + 1]

\* By due time.
ByDue(q) == \A i, j \in 1 .. Len(q) : i < j => q[i].at <= q[j].at

\* The inductive invariant of the loop.
WorkerInv ==
  /\ WorkerTypeOK
  /\ pending \in Seq(Schedules)
  /\ ByDue(pending)
  /\ NoSleepOverDue

\* The numbers of a list that come before one that is left out are an interval.
LEMMA DownClosed ==
  ASSUME NEW m \in Nat, NEW D \in SUBSET (1 .. m),
         \A i, j \in 1 .. m : j \in D /\ i < j => i \in D
  PROVE  \E k \in 0 .. m : D = 1 .. k
<1> DEFINE N == {n \in Nat : \A E \in SUBSET (1 .. n) :
                     (\A i, j \in 1 .. n : j \in E /\ i < j => i \in E)
                       => \E k \in 0 .. n : E = 1 .. k}
<1>1. 0 \in N
  <2>1. 1 .. 0 = {} /\ 0 \in 0 .. 0
    OBVIOUS
  <2>2. \A E \in SUBSET {} : E = {}
    OBVIOUS
  <2> QED
    BY <2>1, <2>2
<1>2. ASSUME NEW n \in Nat, n \in N
      PROVE  n + 1 \in N
  <2>0. ASSUME NEW E \in SUBSET (1 .. n + 1),
               \A i, j \in 1 .. n + 1 : j \in E /\ i < j => i \in E
        PROVE  \E k \in 0 .. n + 1 : E = 1 .. k
    <3>1. CASE n + 1 \in E
      <4>1. \A i \in 1 .. n + 1 : i = n + 1 \/ i < n + 1
        OBVIOUS
      <4>2. n + 1 \in 1 .. n + 1
        OBVIOUS
      <4>3. E = 1 .. n + 1
        BY <2>0, <3>1, <4>1, <4>2
      <4> QED
        BY <4>3
    <3>2. CASE n + 1 \notin E
      <4>1. E \in SUBSET (1 .. n) /\ 1 .. n \subseteq 1 .. n + 1
        BY <3>2
      <4>2. \A i, j \in 1 .. n : j \in E /\ i < j => i \in E
        BY <2>0, <4>1
      <4>3. PICK k \in 0 .. n : E = 1 .. k
        BY <1>2, <4>1, <4>2
      <4>4. k \in 0 .. n + 1
        OBVIOUS
      <4> QED
        BY <4>3, <4>4
    <3> QED
      BY <3>1, <3>2
  <2> DEFINE Whole(E) == (\A i, j \in 1 .. n + 1 : j \in E /\ i < j => i \in E)
                           => \E k \in 0 .. n + 1 : E = 1 .. k
  <2>1. \A E \in SUBSET (1 .. n + 1) : Whole(E)
    BY <2>0
  <2>2. n + 1 \in Nat
    OBVIOUS
  <2> QED
    BY <2>1, <2>2
<1> HIDE DEF N
<1>3. m \in N
  BY <1>1, <1>2, NatSetInduction
<1> QED
  BY <1>3 DEF N

\* What is in a queue of schedules.
LEMMA Scheduled ==
  ASSUME MaxClock \in Nat, NEW q \in Seq(Schedules)
  PROVE  /\ Len(q) \in Nat /\ DOMAIN q = 1 .. Len(q)
         /\ \A i \in 1 .. Len(q) :
              /\ q[i] \in Schedules
              /\ q[i].by \in Admins
              /\ q[i].at \in Nat /\ q[i].at <= MaxClock + 1
<1>1. Len(q) \in Nat /\ DOMAIN q = 1 .. Len(q) /\ \A i \in 1 .. Len(q) : q[i] \in Schedules
  OBVIOUS
<1>2. ASSUME NEW x \in Schedules
      PROVE  x.by \in Admins /\ x.at \in Nat /\ x.at <= MaxClock + 1
  BY DEF Schedules
<1> QED
  BY <1>1, <1>2

\* A run that is queued leaves the queue by due time, with what was in it.
LEMMA QueuedByDue ==
  ASSUME MaxClock \in Nat, NEW q \in Seq(Schedules), ByDue(q), NEW x \in Schedules
  PROVE  /\ Queued(q, x) \in Seq(Schedules)
         /\ ByDue(Queued(q, x))
         /\ \A i \in 1 .. Len(Queued(q, x)) :
              Queued(q, x)[i] = x \/ \E j \in 1 .. Len(q) : Queued(q, x)[i] = q[j]
<1> DEFINE D == {i \in DOMAIN q : q[i].at <= x.at}
<1>1. /\ Len(q) \in Nat /\ DOMAIN q = 1 .. Len(q)
      /\ \A i \in 1 .. Len(q) : q[i] \in Schedules /\ q[i].at \in Nat
      /\ x.at \in Nat
  <2>1. x.at \in Nat
    BY DEF Schedules
  <2> QED
    BY <2>1, Scheduled
<1>2. PICK k \in 0 .. Len(q) : D = 1 .. k
  <2>1. D \in SUBSET (1 .. Len(q))
    BY <1>1
  <2>2. \A i, j \in 1 .. Len(q) : j \in D /\ i < j => i \in D
    BY <1>1 DEF ByDue
  <2> HIDE DEF D
  <2> QED
    BY <1>1, <2>1, <2>2, DownClosed
<1>3. Cardinality(D) = k
  <2>1. Cardinality(1 .. k) = k
    BY FS_Interval
  <2> QED
    BY <1>2, <2>1
<1>4. \A i \in 1 .. Len(q) : IF i <= k THEN q[i].at <= x.at ELSE q[i].at > x.at
  BY <1>1, <1>2
<1> DEFINE r == [j \in 1 .. Len(q) + 1 |->
                   IF j < k + 1 THEN q[j] ELSE IF j = k + 1 THEN x ELSE q[j - 1]]
<1>5. Queued(q, x) = r
  <2>1. Queued(q, x) = InsertAt(q, Cardinality(D) + 1, x)
    BY DEF Queued
  <2>2. InsertAt(q, k + 1, x) = r
    <3> HIDE DEF D, r
    <3> DEFINE a == SubSeq(q, 1, k)
               b == SubSeq(q, k + 1, Len(q))
    <3>1. a \in Seq(Schedules) /\ Len(a) = k /\ \A i \in 1 .. k : a[i] = q[i]
      <4>1. k \in Nat /\ k <= Len(q) /\ Len(q) \in Nat
        BY <1>1
      <4>2. a \in Seq(Schedules) /\ Len(a) = k
        BY <4>1
      <4>3. \A i \in 1 .. k : a[i] = q[i]
        BY <4>1
      <4> QED
        BY <4>2, <4>3
    <3>2. /\ b \in Seq(Schedules) /\ Len(b) = Len(q) - k
          /\ \A i \in 1 .. Len(q) - k : b[i] = q[i + k]
      <4>1. k \in Nat /\ k <= Len(q) /\ Len(q) \in Nat
        BY <1>1
      <4>2. b \in Seq(Schedules) /\ Len(b) = Len(q) - k
        BY <4>1
      <4>3. \A i \in 1 .. Len(q) - k : b[i] = q[i + k]
        BY <4>1
      <4> QED
        BY <4>2, <4>3
    <3>3. InsertAt(q, k + 1, x) = a \o <<x>> \o b
      <4>1. (k + 1) - 1 = k
        OBVIOUS
      <4> QED
        BY <4>1 DEF InsertAt
    <3> HIDE DEF a, b
    <3> DEFINE c == a \o <<x>>
    <3>4. /\ c \in Seq(Schedules) /\ Len(c) = k + 1
          /\ \A i \in 1 .. k + 1 : c[i] = IF i < k + 1 THEN q[i] ELSE x
      BY <3>1
    <3> HIDE DEF c
    <3>0. k \in Nat /\ k <= Len(q) /\ Len(q) \in Nat
      BY <1>1
    <3>5. /\ c \o b \in Seq(Schedules) /\ Len(c \o b) = Len(q) + 1
          /\ \A i \in 1 .. Len(q) + 1 :
               (c \o b)[i] = IF i < k + 1 THEN q[i] ELSE IF i = k + 1 THEN x ELSE q[i - 1]
      <4>0. c \in Seq(Schedules) /\ b \in Seq(Schedules)
        BY <3>2, <3>4
      <4>1. c \o b \in Seq(Schedules) /\ Len(c \o b) = Len(q) + 1
        <5>1. c \o b \in Seq(Schedules) /\ Len(c \o b) = Len(c) + Len(b)
          BY <4>0
        <5>2. Len(c) = k + 1 /\ Len(b) = Len(q) - k
          BY <3>2, <3>4
        <5> QED
          BY <1>1, <5>1, <5>2
      <4>2. ASSUME NEW i \in 1 .. Len(q) + 1
            PROVE  (c \o b)[i] = IF i < k + 1 THEN q[i] ELSE IF i = k + 1 THEN x ELSE q[i - 1]
        <5>1. CASE i <= k + 1
          <6>1. i \in 1 .. Len(c)
            BY <1>1, <3>4, <5>1
          <6>2. (c \o b)[i] = c[i]
            BY <4>0, <6>1
          <6> QED
            BY <3>4, <5>1, <6>2
        <5>2. CASE i > k + 1
          <6>1. i - (k + 1) \in 1 .. Len(q) - k /\ (i - (k + 1)) + k = i - 1
            BY <3>0, <5>2
          <6>2. (c \o b)[i] = b[i - (k + 1)]
            <7>1. i \in (Len(c) + 1) .. (Len(c) + Len(b)) /\ Len(c) = k + 1
              BY <1>1, <3>2, <3>4, <5>2
            <7>2. (c \o b)[i] = b[i - Len(c)]
              BY <4>0, <7>1
            <7> QED
              BY <7>1, <7>2
          <6>3. b[i - (k + 1)] = q[i - 1]
            BY <3>2, <6>1
          <6> QED
            BY <5>2, <6>2, <6>3
        <5>3. i <= k + 1 \/ i > k + 1
          BY <3>0
        <5> QED
          BY <5>1, <5>2, <5>3
      <4> QED
        BY <4>1, <4>2
    <3> DEFINE d == c \o b
    <3>6. d \in Seq(Schedules) /\ Len(d) = Len(q) + 1
      BY <3>5
    <3> HIDE DEF d
    <3>7. d \in [1 .. Len(q) + 1 -> Schedules]
      BY <3>6
    <3>8. d = [i \in 1 .. Len(q) + 1 |-> d[i]]
      BY <3>7
    <3>9. d = r
      BY <3>5, <3>8 DEF d, r
    <3> QED
      BY <3>3, <3>9 DEF c, d
  <2> HIDE DEF D, r
  <2> QED
    BY <1>3, <2>1, <2>2
<1>6. r \in Seq(Schedules) /\ Len(r) = Len(q) + 1
  BY <1>1
<1>7. \A i \in 1 .. Len(r) : r[i] = x \/ \E j \in 1 .. Len(q) : r[i] = q[j]
  <2> SUFFICES ASSUME NEW i \in 1 .. Len(q) + 1
               PROVE  r[i] = x \/ \E j \in 1 .. Len(q) : r[i] = q[j]
    BY <1>6
  <2> QED
    BY <1>1
<1>8. ByDue(r)
  <2> SUFFICES ASSUME NEW i \in 1 .. Len(q) + 1, NEW j \in 1 .. Len(q) + 1, i < j
               PROVE  r[i].at <= r[j].at
    BY <1>6 DEF ByDue
  <2>1. CASE j < k + 1
    <3>1. r[i] = q[i] /\ r[j] = q[j] /\ i \in 1 .. Len(q) /\ j \in 1 .. Len(q)
      BY <2>1
    <3> HIDE DEF r
    <3> QED
      BY <3>1 DEF ByDue
  <2>2. CASE j = k + 1
    <3>1. r[i] = q[i] /\ r[j] = x /\ i \in 1 .. Len(q) /\ i <= k
      BY <2>2
    <3> HIDE DEF r
    <3> QED
      BY <1>4, <3>1
  <2>3. CASE j > k + 1
    <3>1. r[j] = q[j - 1] /\ j - 1 \in 1 .. Len(q) /\ j - 1 > k
      BY <2>3
    <3>2. CASE i < k + 1
      <4>1. r[i] = q[i] /\ i \in 1 .. Len(q) /\ i < j - 1
        BY <2>3, <3>2
      <4> HIDE DEF r
      <4> QED
        BY <3>1, <4>1 DEF ByDue
    <3>3. CASE i = k + 1
      <4>1. r[i] = x
        BY <3>3
      <4> HIDE DEF r
      <4> QED
        BY <1>1, <1>4, <3>1, <4>1
    <3>4. CASE i > k + 1
      <4>1. r[i] = q[i - 1] /\ i - 1 \in 1 .. Len(q) /\ i - 1 < j - 1
        BY <3>4
      <4> HIDE DEF r
      <4> QED
        BY <3>1, <4>1 DEF ByDue
    <3> QED
      BY <3>2, <3>3, <3>4
  <2> QED
    BY <2>1, <2>2, <2>3
<1> HIDE DEF r
<1> QED
  BY <1>5, <1>6, <1>7, <1>8

\* The types and the order of the queue.
WorkerTypes == WorkerTypeOK /\ pending \in Seq(Schedules) /\ ByDue(pending)

\* Each step keeps the types and the order of the queue.
LEMMA StepWorkerTypes ==
  ASSUME WorkerAssumption, WorkerInv, [WorkerNext]_workerVars
  PROVE  WorkerTypes'
<1>0. /\ clock \in 0 .. MaxClock /\ periodicAt \in Times /\ wakeAt \in Times
      /\ admin \in [Admins -> {"idle", "wake", "done"}]
      /\ loop \in {"new", "top", "plan", "wait", "woken", "run", "ended"}
      /\ running \in Admins \cup {NoRun, Periodic}
      /\ wake \in BOOLEAN /\ stop \in BOOLEAN
      /\ pending \in Seq(Schedules) /\ ByDue(pending)
      /\ Interval \in Nat \ {0} /\ MaxClock \in Nat
  BY DEF WorkerInv, WorkerTypeOK, WorkerAssumption
<1> DEFINE Rest == /\ clock \in 0 .. MaxClock /\ periodicAt \in Times /\ wakeAt \in Times
                   /\ admin \in [Admins -> {"idle", "wake", "done"}]
                   /\ loop \in {"new", "top", "plan", "wait", "woken", "run", "ended"}
                   /\ running \in Admins \cup {NoRun, Periodic}
                   /\ wake \in BOOLEAN /\ stop \in BOOLEAN
           Line == pending \in Seq(Schedules) /\ ByDue(pending)
<1>2. Rest' /\ Line' => WorkerTypes'
  <2>1. Line' => \A i \in DOMAIN pending' : pending'[i].by \in Admins
    BY <1>0, Scheduled
  <2> QED
    BY <2>1 DEF WorkerTypes, WorkerTypeOK
<1>3. ASSUME NEW a \in Admins, ScheduleRun(a)
      PROVE  Rest' /\ Line'
  <2>1. PICK t \in 0 .. MaxClock + 1 : pending' = Queued(pending, [by |-> a, at |-> t])
    BY <1>3 DEF ScheduleRun
  <2>2. [by |-> a, at |-> t] \in Schedules
    BY DEF Schedules
  <2>3. Line'
    BY <1>0, <2>1, <2>2, QueuedByDue
  <2>4. Rest'
    BY <1>0, <1>3 DEF ScheduleRun, loopMem, flags
  <2> HIDE DEF Rest, Line
  <2> QED
    BY <2>3, <2>4
<1>4. ASSUME NEW a \in Admins, Wake(a)
      PROVE  Rest' /\ Line'
  BY <1>0, <1>4 DEF Wake, loopMem, Exists
<1>5. ASSUME TakeSchedule
      PROVE  Rest' /\ Line'
  <2>1. pending # <<>> /\ pending' = Tail(pending)
    BY <1>5 DEF TakeSchedule, IsDue
  <2>2. Line'
    <3>1. /\ Tail(pending) \in Seq(Schedules) /\ Len(Tail(pending)) = Len(pending) - 1
          /\ Len(pending) \in Nat
          /\ \A i \in 1 .. Len(pending) - 1 : Tail(pending)[i] = pending[i + 1]
      BY <1>0, <2>1
    <3>2. ByDue(Tail(pending))
      BY <1>0, <3>1 DEF ByDue
    <3> QED
      BY <2>1, <3>1, <3>2
  <2>3. running' \in Admins
    <3>1. Head(pending).by \in Admins
      BY <1>0, <2>1, Scheduled
    <3> QED
      BY <1>5, <3>1 DEF TakeSchedule
  <2>4. Rest'
    BY <1>0, <1>5, <2>3 DEF TakeSchedule, flags
  <2> HIDE DEF Rest, Line
  <2> QED
    BY <2>2, <2>4
<1>6. ASSUME PlanWait
      PROVE  Rest' /\ Line'
  <2>1. wakeAt' \in Times
    <3>1. pending # <<>> => Head(pending).at \in 0 .. MaxClock + 1
      BY <1>0, Scheduled
    <3> QED
      BY <1>0, <1>6, <3>1 DEF PlanWait, Times, Least, Most
  <2> QED
    BY <1>0, <1>6, <2>1 DEF PlanWait, flags
<1>7. ASSUME \/ StartLoop \/ StartPeriodic \/ LeaveTop \/ EndWait \/ ClearWake
             \/ EndRun \/ EndLoop \/ StopLoop \/ PassTick
      PROVE  Rest' /\ Line'
  <2>1. pending' = pending /\ admin' = admin /\ wakeAt' = wakeAt
    BY <1>7 DEF StartLoop, StartPeriodic, LeaveTop, EndWait, ClearWake, EndRun, EndLoop,
                StopLoop, PassTick, loopMem
  <2>2. clock' = clock \/ (clock < MaxClock /\ clock' = clock + 1)
    BY <1>7 DEF StartLoop, StartPeriodic, LeaveTop, EndWait, ClearWake, EndRun, EndLoop,
                StopLoop, PassTick, loopMem
  <2>3. periodicAt' \in {periodicAt, clock, clock + Interval}
    BY <1>7 DEF StartLoop, StartPeriodic, LeaveTop, EndWait, ClearWake, EndRun, EndLoop,
                StopLoop, PassTick, loopMem
  <2>4. loop' \in {loop, "top", "run", "plan", "woken", "ended"}
        /\ running' \in {running, NoRun, Periodic}
    BY <1>7 DEF StartLoop, StartPeriodic, LeaveTop, EndWait, ClearWake, EndRun, EndLoop,
                StopLoop, PassTick, loopMem
  <2>5. wake' \in {wake, FALSE} /\ stop' \in {stop, TRUE, FALSE}
    BY <1>7 DEF StartLoop, StartPeriodic, LeaveTop, EndWait, ClearWake, EndRun, EndLoop,
                StopLoop, PassTick, flags
  <2>6. clock' \in 0 .. MaxClock /\ periodicAt' \in Times
    BY <1>0, <2>2, <2>3 DEF Times
  <2> QED
    BY <1>0, <2>1, <2>4, <2>5, <2>6
<1>9. ASSUME UNCHANGED workerVars
      PROVE  Rest' /\ Line'
  BY <1>0, <1>9 DEF workerVars, flags, loopMem
<1> HIDE DEF Rest, Line
<1> QED
  BY <1>2, <1>3, <1>4, <1>5, <1>6, <1>7, <1>9 DEF WorkerNext, Loop

\* Each step leaves the loop awake for what is queued.
LEMMA StepNoSleep ==
  ASSUME WorkerAssumption, WorkerInv, [WorkerNext]_workerVars
  PROVE  NoSleepOverDue'
<1>0. /\ clock \in Nat /\ wakeAt \in Nat /\ periodicAt \in Nat
      /\ admin \in [Admins -> {"idle", "wake", "done"}]
      /\ pending \in Seq(Schedules) /\ ByDue(pending)
      /\ DOMAIN pending = 1 .. Len(pending) /\ Len(pending) \in Nat
      /\ \A i \in 1 .. Len(pending) :
           pending[i].at \in Nat /\ pending[i].by \in Admins
      /\ MaxClock \in Nat
      /\ NoSleepOverDue
  BY Scheduled DEF WorkerInv, WorkerTypeOK, WorkerAssumption, Times
<1>1. ASSUME NEW a \in Admins, ScheduleRun(a), loop = "wait"
      PROVE  NoSleepOverDue'
  <2>1. PICK t \in 0 .. MaxClock + 1 : pending' = Queued(pending, [by |-> a, at |-> t])
    BY <1>1 DEF ScheduleRun
  <2> DEFINE x == [by |-> a, at |-> t]
  <2>2. x \in Schedules /\ x.by = a
    BY DEF Schedules
  <2>3. /\ admin' = [admin EXCEPT ![a] = "wake"]
        /\ clock' = clock /\ loop' = loop /\ wakeAt' = wakeAt /\ wake' = wake /\ stop' = stop
    BY <1>1 DEF ScheduleRun, Exists, loopMem, flags
  <2> HIDE DEF x
  <2>4. /\ pending' \in Seq(Schedules)
        /\ \A i \in 1 .. Len(pending') :
             pending'[i] = x \/ \E j \in 1 .. Len(pending) : pending'[i] = pending[j]
    <3>1. pending' = Queued(pending, x)
      BY <2>1 DEF x
    <3>2. pending \in Seq(Schedules) /\ ByDue(pending) /\ MaxClock \in Nat
      BY <1>0
    <3>3. /\ Queued(pending, x) \in Seq(Schedules)
          /\ \A i \in 1 .. Len(Queued(pending, x)) :
               \/ Queued(pending, x)[i] = x
               \/ \E j \in 1 .. Len(pending) : Queued(pending, x)[i] = pending[j]
      BY <2>2, <3>2, QueuedByDue
    <3> QED
      BY <3>1, <3>3
  <2>5. ASSUME ~wake, ~stop, clock < wakeAt, NEW i \in 1 .. Len(pending')
        PROVE  pending'[i].at >= wakeAt \/ admin'[pending'[i].by] = "wake"
    <3>1. CASE pending'[i] = x
      BY <1>0, <2>2, <2>3, <3>1
    <3>2. ASSUME NEW j \in 1 .. Len(pending), pending'[i] = pending[j]
          PROVE  pending'[i].at >= wakeAt \/ admin'[pending'[i].by] = "wake"
      <4>1. pending[j].at >= wakeAt \/ admin[pending[j].by] = "wake"
        BY <1>0, <1>1, <2>5 DEF NoSleepOverDue
      <4> QED
        BY <1>0, <2>3, <3>2, <4>1
    <3> QED
      BY <2>4, <3>1, <3>2
  <2>6. DOMAIN pending' = 1 .. Len(pending')
    BY <2>4
  <2> QED
    BY <2>3, <2>5, <2>6 DEF NoSleepOverDue
<1>2. ASSUME NEW a \in Admins, Wake(a)
      PROVE  NoSleepOverDue'
  BY <1>2 DEF Wake, loopMem, Exists, NoSleepOverDue
<1>3. ASSUME PlanWait
      PROVE  NoSleepOverDue'
  <2>1. /\ wakeAt' = IF pending = <<>> THEN periodicAt
                     ELSE Least(periodicAt, Most(clock, Head(pending).at))
        /\ clock' = clock /\ pending' = pending
    BY <1>3 DEF PlanWait
  <2>2. ASSUME clock < wakeAt', NEW i \in 1 .. Len(pending)
        PROVE  pending[i].at >= wakeAt'
    <3>1. Head(pending) = pending[1] /\ 1 \in 1 .. Len(pending) /\ pending # <<>>
      BY <1>0
    <3>2. pending[1].at <= pending[i].at /\ pending[1].at \in Nat /\ pending[i].at \in Nat
      BY <1>0, <3>1 DEF ByDue
    <3>3. wakeAt' <= Most(clock, pending[1].at)
      BY <1>0, <2>1, <3>1, <3>2 DEF Least, Most
    <3> QED
      BY <1>0, <2>1, <2>2, <3>2, <3>3 DEF Most, Least
  <2> QED
    BY <1>0, <2>1, <2>2 DEF NoSleepOverDue
<1>4. ASSUME PassTick
      PROVE  NoSleepOverDue'
  BY <1>0, <1>4 DEF PassTick, flags, loopMem, NoSleepOverDue
<1>5. ASSUME StopLoop
      PROVE  NoSleepOverDue'
  BY <1>5 DEF StopLoop, NoSleepOverDue
<1>6. ASSUME loop' # "wait"
      PROVE  NoSleepOverDue'
  BY <1>6 DEF NoSleepOverDue
<1>7. ASSUME UNCHANGED workerVars
      PROVE  NoSleepOverDue'
  BY <1>0, <1>7 DEF workerVars, flags, loopMem, NoSleepOverDue
<1>8. \/ loop' # "wait" \/ PlanWait \/ PassTick \/ StopLoop \/ UNCHANGED workerVars
      \/ \E a \in Admins : Wake(a)
      \/ \E a \in Admins : ScheduleRun(a) /\ loop = "wait"
  BY DEF WorkerNext, Loop, StartLoop, TakeSchedule, StartPeriodic, LeaveTop, EndWait,
         ClearWake,
         EndRun, EndLoop, ScheduleRun, loopMem
<1> QED
  BY <1>1, <1>2, <1>3, <1>4, <1>5, <1>6, <1>7, <1>8

\* The loop does not sleep past the due time of a run
\* (crawl_admin.py:217-223, :365-386).
THEOREM NoOversleep == WorkerSpec => [](WorkerTypeOK /\ NoSleepOverDue)
<1>1. WorkerInit => WorkerInv
  <2> SUFFICES ASSUME WorkerInit
               PROVE  WorkerInv
    OBVIOUS
  <2>1. pending = <<>> /\ loop = "new" /\ MaxClock \in Nat /\ Interval \in Nat
    BY WorkerAssumption DEF WorkerInit, WorkerAssumption
  <2>2. WorkerTypeOK
    <3>1. clock = 0 /\ periodicAt = 0 /\ wakeAt = 0 /\ admin = [a \in Admins |-> "idle"]
          /\ wake = FALSE /\ stop = FALSE /\ running = NoRun
      BY DEF WorkerInit
    <3>2. DOMAIN pending = {}
      BY <2>1
    <3>3. 0 \in Times /\ 0 \in 0 .. MaxClock
      BY <2>1 DEF Times
    <3> QED
      BY <2>1, <3>1, <3>2, <3>3 DEF WorkerTypeOK
  <2>3. pending \in Seq(Schedules) /\ ByDue(pending) /\ NoSleepOverDue
    BY <2>1 DEF ByDue, NoSleepOverDue
  <2> QED
    BY <2>2, <2>3 DEF WorkerInv
<1>2. WorkerInv /\ [WorkerNext]_workerVars => WorkerInv'
  BY StepWorkerTypes, StepNoSleep, WorkerAssumption DEF WorkerInv, WorkerTypes
<1>3. WorkerInv => WorkerTypeOK /\ NoSleepOverDue
  BY DEF WorkerInv
<1> QED
  BY <1>1, <1>2, <1>3, PTL DEF WorkerSpec

=============================================================================
