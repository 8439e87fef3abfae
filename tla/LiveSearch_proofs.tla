--------------------------- MODULE LiveSearch_proofs ---------------------------
(***************************************************************************)
(* Proofs about a search tool call (ToolCall) and about the live searches  *)
(* it may start: the crawl of the site (LiveCrawl), the search of a unit   *)
(* (UnitSearch) and the search by keyword (KeywordSearch), for any web     *)
(* site, site map, budgets and limits.  The searches share no state, each  *)
(* has a specification of its own.                                         *)
(***************************************************************************)
EXTENDS ToolCall, LiveCrawl, UnitSearch, KeywordSearch, Lists_proofs

-----------------------------------------------------------------------------
(* The search of a unit.  Whatever is left out of the listing is noted, in *)
(* unread or cutShort, when it is passed over; and what is stored is what  *)
(* is selected of the details as they are when the listing has ended.      *)

\* The empty sequence.
LEMMA EmptyTuple == \A S : <<>> \in Seq(S) /\ DOMAIN <<>> = {} /\ Len(<<>>) = 0
  OBVIOUS

UnitInv ==
  /\ given \in Seq(ToSet(ByDate)) /\ next \in Nat \ {0}
  /\ quiet \in BOOLEAN /\ unread \in BOOLEAN /\ cutShort \in BOOLEAN
  /\ phase = "search" => next = 1
  /\ \A i \in DOMAIN given :
       i < next => given[i] \in details \/ unread \/ cutShort
  /\ phase \in {"merged", "done"} /\ ~unread /\ ~cutShort
       => ToSet(given) \subseteq details /\ persisted = SelectedNow
  /\ phase = "done" /\ (answered.complete \/ answered.warning = "none")
       => ~Shortfall

\* Every step of a unit search keeps what is left out noted.
LEMMA UnitStep ==
  ASSUME UnitAssumption, UnitInv, [UnitNext]_unitVars
  PROVE  UnitInv'
<1>1. CASE SearchUnit
  <2>1. First(Listing, UnitLimit) \in Seq(ToSet(ByDate))
    BY DEF UnitAssumption, First
  <2>2. given' \in Seq(ToSet(ByDate))
    BY <1>1, <2>1, EmptyTuple DEF SearchUnit
  <2>3. \A i \in DOMAIN given' : ~(i < next')
    BY <1>1, <2>2 DEF SearchUnit, UnitInv
  <2>4. /\ phase' = "fetch" /\ quiet' \in BOOLEAN
        /\ UNCHANGED <<next, unread, cutShort>>
    BY <1>1 DEF SearchUnit
  <2> QED
    BY <2>2, <2>3, <2>4 DEF UnitInv
<1>2. CASE PairItem
  BY <1>2 DEF PairItem, Left, Item, UnitInv
<1>3. CASE FetchItem
  <2>1. /\ phase = "fetch" /\ phase' = "fetch" /\ next' = next + 1
        /\ UNCHANGED <<quiet, given, cutShort>>
        /\ unread' \in {unread, TRUE} /\ details \subseteq details'
    BY <1>3 DEF FetchItem
  <2>2. given[next] \in details' \/ unread'
    BY <1>3 DEF FetchItem, Item
  <2>3. unread => unread'
    BY <2>1
  <2>4. \A i \in DOMAIN given : i < next + 1 => i < next \/ i = next
    BY DEF UnitInv
  <2>5. \A i \in DOMAIN given :
          i < next' => given[i] \in details' \/ unread' \/ cutShort
    BY <2>1, <2>2, <2>3, <2>4 DEF UnitInv
  <2>6. next' \in Nat \ {0}
    BY <2>1 DEF UnitInv
  <2>7. unread' \in BOOLEAN
    BY <2>1, Zenon DEF UnitInv
  <2> QED
    BY <2>1, <2>5, <2>6, <2>7 DEF UnitInv
<1>4. CASE CutOffFetch
  BY <1>4 DEF CutOffFetch, NoteCutOff, Left, Item, UnitInv
<1>5. CASE Merge
  <2>1. UNCHANGED <<quiet, given, next, details, paired>>
    BY <1>5 DEF Merge
  <2>2. SelectedNow' = SelectedNow
    BY <2>1 DEF SelectedNow, Candidates, Undatable, Bodiless, HasDate
  <2>3. ~unread' /\ ~cutShort' => /\ ~unread /\ ~cutShort
                                  /\ persisted' = SelectedNow
    BY <1>5 DEF Merge, UnitInv
  <2>4. ~unread /\ ~cutShort => ToSet(given) \subseteq details
    BY <1>5 DEF Merge, Left, UnitInv, ToSet
  <2> QED
    BY <1>5, <2>1, <2>2, <2>3, <2>4 DEF Merge, UnitInv
<1>6. CASE Conclude
  <2>1. UNCHANGED <<quiet, given, next, details, paired, unread, cutShort, persisted>>
    BY <1>6 DEF Conclude
  <2>2. SelectedNow' = SelectedNow /\ Shortfall' = Shortfall
    BY <2>1 DEF SelectedNow, Candidates, Shortfall, Undatable, Bodiless, HasDate
  <2>3. answered'.complete \/ answered'.warning = "none" => ~Shortfall
    BY <1>6 DEF Conclude
  <2> QED
    BY <1>6, <2>1, <2>2, <2>3 DEF Conclude, UnitInv
<1>7. CASE UNCHANGED unitVars
  <2>1. SelectedNow' = SelectedNow /\ Shortfall' = Shortfall
    BY <1>7 DEF unitVars, SelectedNow, Candidates, Shortfall, Undatable, Bodiless,
                HasDate
  <2> QED
    BY <1>7, <2>1 DEF unitVars, UnitInv
<1> QED
  BY <1>1, <1>2, <1>3, <1>4, <1>5, <1>6, <1>7 DEF UnitNext, UnitEnded

\* A unit search that calls itself complete, or says nothing, has read its
\* whole listing and stored all it read, up to the limit.
THEOREM UnitStored == UnitSpec => []UnitCompleteIsStored
<1>1. UnitInit => UnitInv
  <2> SUFFICES ASSUME UnitInit
               PROVE  UnitInv
    OBVIOUS
  <2>1. given \in Seq(ToSet(ByDate)) /\ DOMAIN given = {}
    BY EmptyTuple, Zenon DEF UnitInit
  <2>2. quiet \in BOOLEAN /\ unread \in BOOLEAN /\ cutShort \in BOOLEAN
    BY DEF UnitInit
  <2>3. next = 1 /\ phase = "search"
    BY DEF UnitInit
  <2> QED
    BY <2>1, <2>2, <2>3 DEF UnitInv
<1>2. UnitInv /\ [UnitNext]_unitVars => UnitInv'
  BY UnitStep, UnitAssumption
<1>3. UnitInv => UnitCompleteIsStored
  <2> SUFFICES ASSUME UnitInv, phase = "done",
                      answered.complete \/ answered.warning = "none"
               PROVE  /\ persisted = ToSet(First(Sorted(details), UnitLimit))
                      /\ ToSet(given) \subseteq details
    BY DEF UnitCompleteIsStored
  <2>1. ~Shortfall
    BY DEF UnitInv
  <2>2. ToSet(given) \subseteq details /\ persisted = SelectedNow
    BY <2>1 DEF UnitInv, Shortfall
  <2>3. details \ (Undatable \cup Bodiless) = details
    BY <2>1 DEF Shortfall
  <2> QED
    BY <2>2, <2>3 DEF SelectedNow, Candidates
<1> QED
  BY <1>1, <1>2, <1>3, PTL DEF UnitSpec

-----------------------------------------------------------------------------
(* The crawl of the site *)

\* A finite set of numbers has a greatest one.
LEMMA BestOf ==
  ASSUME NEW S \in SUBSET Nat, IsFiniteSet(S), S # {}
  PROVE  Best(S) \in S /\ \A n \in S : n <= Best(S)
<1> DEFINE Above(k) == {n \in S : n > k}
           Sets     == {Above(k) : k \in S}
<1>0. \A k \in S : k \in Nat
  OBVIOUS
<1>1. Sets \subseteq FiniteSubsetsOf(S) /\ Sets # {}
  <2>1. \A k \in S : Above(k) \in SUBSET S /\ IsFiniteSet(Above(k))
    BY FS_Subset
  <2> QED
    BY <2>1 DEF FiniteSubsetsOf
<1>2. PICK x \in Sets : \A y \in Sets : <<y, x>> \notin StrictSubsetOrdering(S)
  BY <1>1, FS_StrictSubsetOrderingWellFounded, WFMin, Zenon
<1>3. PICK m \in S : x = Above(m)
  BY <1>2
<1>4. ASSUME NEW n \in S, n > m
      PROVE  FALSE
  <2>0. n \in Above(m) /\ n \notin Above(n)
    BY <1>0, <1>4
  <2>a. \A k \in S : k > n => k > m
    BY <1>0, <1>4
  <2>1. Above(n) \subseteq Above(m) /\ n \in Above(m) /\ n \notin Above(n)
    BY <2>0, <2>a
  <2>2. <<Above(n), Above(m)>> \in StrictSubsetOrdering(S)
    BY <2>1 DEF StrictSubsetOrdering
  <2> QED
    BY <1>2, <1>3, <2>2
<1>5. \E k \in S : \A n \in S : n <= k
  BY <1>4
<1> QED
  BY <1>5 DEF Best

-----------------------------------------------------------------------------
Entry == [url : WebPages, score : Nat, depth : Nat, seq : Nat]

FrontierType ==
  [heap : SUBSET Entry, queued : [WebPages -> Nat \cup {NotQueued}],
   discovered : SUBSET WebPages, visited : SUBSET WebPages,
   seq : Nat, skipped : Nat]

\* A frontier of which fields are replaced.
LEMMA Skip ==
  ASSUME NEW s \in FrontierType, NEW t, t = [s EXCEPT !.skipped = s.skipped + 1]
  PROVE  /\ t \in FrontierType
         /\ t.heap = s.heap /\ t.queued = s.queued
         /\ t.discovered = s.discovered /\ t.visited = s.visited
  BY DEF FrontierType

\* NoneLost, of any frontier s.
Accounted(s) ==
  /\ \A u \in s.discovered :
       \/ u \in s.visited
       \/ s.queued[u] # NotQueued
       \/ OnHost(s, HostOf[u]) >= MaxPerHost
  /\ \A u \in WebPages :
       s.queued[u] # NotQueued =>
         \E e \in s.heap : e.url = u /\ e.score = s.queued[u]

Sound(s, read) == s \in FrontierType /\ s.visited = read /\ Accounted(s)

\* One candidate.
LEMMA EnqueueSound ==
  ASSUME CrawlAssumption, NEW read, NEW s, Sound(s, read), NEW c \in Candidate
  PROVE  Sound(Enqueue(s, c), read)
<1> DEFINE t == Enqueue(s, c)
<1>1. /\ s \in FrontierType /\ s.visited = read /\ Accounted(s)
      /\ c.url \in WebPages /\ c.score \in Nat /\ c.depth \in Nat
  BY DEF Sound, Candidate
<1> DEFINE new    == [url |-> c.url, score |-> c.score, depth |-> c.depth, seq |-> s.seq]
           queued == [s.queued EXCEPT ![c.url] = c.score]
<1>2. /\ s.heap \subseteq Entry /\ s.queued \in [WebPages -> Nat \cup {NotQueued}]
      /\ s.discovered \subseteq WebPages
      /\ s.seq \in Nat /\ s.skipped \in Nat
  BY <1>1 DEF FrontierType
<1>3. \/ t = [s EXCEPT !.skipped = s.skipped + 1]
      \/ \E n \in {s.skipped, s.skipped + 1} :
           t = [s EXCEPT !.discovered = s.discovered \cup {c.url},
                         !.queued = queued,
                         !.heap = s.heap \cup {new},
                         !.seq = s.seq + 1,
                         !.skipped = n]
  BY DEF Enqueue
<1> SUFFICES Sound(t, read)
  OBVIOUS
<1> HIDE DEF t
<1>4. CASE t = [s EXCEPT !.skipped = s.skipped + 1]
  <2>1. /\ t \in FrontierType
        /\ t.heap = s.heap /\ t.queued = s.queued
        /\ t.discovered = s.discovered /\ t.visited = s.visited
    BY <1>1, <1>4, Skip
  <2> QED
    BY <1>1, <2>1 DEF Sound, Accounted, OnHost
<1>5. CASE t # [s EXCEPT !.skipped = s.skipped + 1]
  <2>1. new \in Entry
    BY <1>1, <1>2 DEF Entry
  <2>2. queued \in [WebPages -> Nat \cup {NotQueued}]
    BY <1>1, <1>2
  <2> HIDE DEF new, queued
  <2>3. PICK n \in Nat : t = [s EXCEPT !.discovered = s.discovered \cup {c.url},
                                      !.queued = queued,
                                      !.heap = s.heap \cup {new},
                                      !.seq = s.seq + 1,
                                      !.skipped = n]
    <3>1. \A n \in {s.skipped, s.skipped + 1} : n \in Nat
      BY <1>2
    <3> QED
      BY <1>3, <1>5, <3>1, Zenon
  <2>4. /\ t \in FrontierType
        /\ t.heap = s.heap \cup {new} /\ t.queued = queued
        /\ t.discovered = s.discovered \cup {c.url} /\ t.visited = s.visited
    <3>1. s.heap \cup {new} \in SUBSET Entry /\ s.discovered \cup {c.url} \in SUBSET WebPages
      BY <1>1, <1>2, <2>1
    <3>2. s.seq + 1 \in Nat /\ s \in FrontierType
      BY <1>1, <1>2, SMTT(40)
    <3> QED
      BY <2>2, <2>3, <3>1, <3>2 DEF FrontierType
  <2> USE DEF new, queued
  <2>5. \A h : OnHost(t, h) = OnHost(s, h)
    BY <2>4 DEF OnHost
  <2>6. t.queued[c.url] = c.score /\ c.score # NotQueued
    BY <1>1, <1>2, <2>4 DEF CrawlAssumption
  <2>7. \A u \in WebPages : u # c.url => t.queued[u] = s.queued[u]
    BY <1>1, <1>2, <2>4
  <2>8. \A u \in t.discovered :
          u \in t.visited \/ t.queued[u] # NotQueued \/ OnHost(t, HostOf[u]) >= MaxPerHost
    <3> SUFFICES ASSUME NEW u \in s.discovered, u # c.url
                 PROVE  \/ u \in t.visited \/ t.queued[u] # NotQueued
                        \/ OnHost(t, HostOf[u]) >= MaxPerHost
      BY <2>4, <2>6
    <3>1. u \in WebPages
      BY <1>1 DEF FrontierType
    <3> QED
      BY <1>1, <2>4, <2>5, <2>7, <3>1 DEF Accounted
  <2>9. ASSUME NEW u \in WebPages, t.queued[u] # NotQueued
        PROVE  \E e \in t.heap : e.url = u /\ e.score = t.queued[u]
    <3>1. CASE u = c.url
      <4>1. new \in t.heap /\ new.url = u /\ new.score = t.queued[u]
        BY <2>4, <2>6, <3>1
      <4> QED
        BY <4>1
    <3>2. CASE u # c.url
      <4>1. PICK e \in s.heap : e.url = u /\ e.score = s.queued[u]
        BY <1>1, <2>7, <2>9, <3>2 DEF Accounted
      <4> QED
        BY <2>4, <2>7, <3>2, <4>1
    <3> QED
      BY <3>1, <3>2
  <2> QED
    BY <1>1, <2>4, <2>8, <2>9 DEF Sound, Accounted
<1> QED
  BY <1>3, <1>4, <1>5

\* What EnqueueAll is: the candidates are queued one after the other.
LEMMA EnqueueAllRec ==
  ASSUME NEW s, NEW cs, Len(cs) \in Nat
  PROVE  \E f : /\ f = [i \in 0 .. Len(cs) |->
                          IF i = 0 THEN s ELSE Enqueue(f[i - 1], cs[i])]
                /\ EnqueueAll(s, cs) = f[Len(cs)]
<1> DEFINE Good(n, f) ==
             f = [i \in 0 .. n |-> IF i = 0 THEN s ELSE Enqueue(f[i - 1], cs[i])]
           S == {n \in Nat : \E f : Good(n, f)}
<1>1. 0 \in S
  <2>1. Good(0, [i \in 0 .. 0 |-> s])
    OBVIOUS
  <2> QED
    BY <2>1
<1>2. ASSUME NEW n \in Nat, n \in S
      PROVE  n + 1 \in S
  <2>1. PICK f : Good(n, f)
    BY <1>2
  <2> DEFINE g == [i \in 0 .. n + 1 |->
                     IF i = n + 1 THEN Enqueue(f[n], cs[n + 1]) ELSE f[i]]
  <2>2. \A i \in 0 .. n + 1 : g[i] = IF i = 0 THEN s ELSE Enqueue(g[i - 1], cs[i])
    <3> SUFFICES ASSUME NEW i \in 0 .. n + 1
                 PROVE  g[i] = IF i = 0 THEN s ELSE Enqueue(g[i - 1], cs[i])
      OBVIOUS
    <3>1. CASE i = n + 1
      BY <3>1
    <3>2. CASE i # n + 1
      <4>1. i \in 0 .. n /\ (i # 0 => i - 1 \in 0 .. n)
        BY <3>2
      <4>2. f[i] = IF i = 0 THEN s ELSE Enqueue(f[i - 1], cs[i])
        BY <2>1, <4>1
      <4>3. g[i] = f[i] /\ (i # 0 => g[i - 1] = f[i - 1])
        BY <4>1
      <4> QED
        BY <4>2, <4>3
    <3> QED
      BY <3>1, <3>2
  <2>3. Good(n + 1, g)
    BY <2>2
  <2> HIDE DEF Good, g
  <2> QED
    BY <2>3
<1> HIDE DEF S
<1>3. Len(cs) \in S
  BY <1>1, <1>2, NatSetInduction
<1>4. \E f : Good(Len(cs), f)
  BY <1>3 DEF S
<1> QED
  BY <1>4 DEF EnqueueAll

\* All candidates.
LEMMA EnqueueAllSound ==
  ASSUME CrawlAssumption, NEW read, NEW s, Sound(s, read), NEW cs \in Seq(Candidate)
  PROVE  Sound(EnqueueAll(s, cs), read)
<1>1. Len(cs) \in Nat /\ \A i \in 1 .. Len(cs) : cs[i] \in Candidate
  OBVIOUS
<1>2. PICK f : /\ f = [i \in 0 .. Len(cs) |->
                         IF i = 0 THEN s ELSE Enqueue(f[i - 1], cs[i])]
               /\ EnqueueAll(s, cs) = f[Len(cs)]
  BY <1>1, EnqueueAllRec
<1> DEFINE S == {n \in Nat : n <= Len(cs) => Sound(f[n], read)}
<1>3. 0 \in S
  <2>1. f[0] = s
    BY <1>1, <1>2
  <2> QED
    BY <2>1
<1>4. ASSUME NEW n \in Nat, n \in S
      PROVE  n + 1 \in S
  <2> SUFFICES ASSUME n + 1 <= Len(cs)
               PROVE  Sound(f[n + 1], read)
    OBVIOUS
  <2>1. Sound(f[n], read) /\ cs[n + 1] \in Candidate
    BY <1>1, <1>4
  <2>2. f[n + 1] = Enqueue(f[n], cs[n + 1])
    <3>1. n + 1 \in 0 .. Len(cs) /\ n + 1 # 0 /\ (n + 1) - 1 = n
      BY <1>1
    <3>2. f[n + 1] = Enqueue(f[(n + 1) - 1], cs[n + 1])
      BY <1>2, <3>1
    <3> QED
      BY <3>1, <3>2
  <2> QED
    BY <2>1, <2>2, EnqueueSound
<1> HIDE DEF S
<1>5. Len(cs) \in S
  BY <1>1, <1>3, <1>4, NatSetInduction
<1> QED
  BY <1>1, <1>2, <1>5 DEF S

-----------------------------------------------------------------------------
Crawling == {"map", "discover", "loop"}

CrawlInv ==
  /\ CrawlTypeOK
  /\ frontier \in FrontierType /\ Accounted(frontier)
  /\ expired \in BOOLEAN
  /\ timedOut \in BOOLEAN
  /\ \A u \in WebPages : /\ fate[u] \in {"kept", "saved"} => u \in present
                         /\ fate[u] = "empty" => u \in Blank
  /\ place \notin Crawling => Queued \subseteq unattempted \/ ~EndedByTime
  /\ place \notin Crawling \cup {"score"} => \A u \in relevant : fate[u] # "none"
  /\ place \in {"embed", "save"} => \A u \in WebPages : fate[u] # "todo"
  /\ place = "done" /\ warning = NoCrawlWarning =>
       /\ WarningFor(timedOut) = NoCrawlWarning
       /\ ~timedOut => \A u \in relevant : fate[u] \in {"empty", "kept", "saved"}

\* How many pages of a host were visited is a number.
LEMMA OnHostNat ==
  ASSUME CrawlAssumption, NEW s \in FrontierType, NEW h
  PROVE  OnHost(s, h) \in Nat
<1>1. {u \in s.visited : HostOf[u] = h} \subseteq WebPages
  BY DEF FrontierType
<1>2. IsFiniteSet({u \in s.visited : HostOf[u] = h})
  BY <1>1, FS_Subset DEF CrawlAssumption
<1> QED
  BY <1>2, FS_CardinalityType DEF OnHost

\* A frontier that has visited more has visited no fewer of any host.
LEMMA OnHostGrows ==
  ASSUME CrawlAssumption, NEW s \in FrontierType, NEW t \in FrontierType, NEW h,
         s.visited \subseteq t.visited
  PROVE  OnHost(s, h) <= OnHost(t, h)
<1>1. {u \in t.visited : HostOf[u] = h} \subseteq WebPages
  BY DEF FrontierType
<1>2. IsFiniteSet({u \in t.visited : HostOf[u] = h})
  BY <1>1, FS_Subset DEF CrawlAssumption
<1>3. {u \in s.visited : HostOf[u] = h} \subseteq {u \in t.visited : HostOf[u] = h}
  OBVIOUS
<1> QED
  BY <1>2, <1>3, FS_Subset DEF OnHost

\* An entry is taken from the heap and its url from the queued scores.
LEMMA PoppedSound ==
  ASSUME CrawlAssumption, frontier \in FrontierType, Accounted(frontier),
         NEW e \in frontier.heap
  PROVE  /\ e \in Entry
         /\ Popped(e) \in FrontierType
         /\ Popped(e).heap = frontier.heap \ {e}
         /\ Popped(e).queued = [frontier.queued EXCEPT ![e.url] = NotQueued]
         /\ Popped(e).discovered = frontier.discovered
         /\ Popped(e).visited = frontier.visited
         /\ \A u \in WebPages :
              Popped(e).queued[u] # NotQueued =>
                \E f \in Popped(e).heap : f.url = u /\ f.score = Popped(e).queued[u]
<1> DEFINE t == Popped(e)
<1>1. e \in Entry /\ e.url \in WebPages
  BY DEF FrontierType, Entry
<1>2. frontier.heap \ {e} \in SUBSET Entry
  BY DEF FrontierType
<1>3. [frontier.queued EXCEPT ![e.url] = NotQueued] \in [WebPages -> Nat \cup {NotQueued}]
  BY <1>1 DEF FrontierType
<1>4. t \in FrontierType
  BY <1>2, <1>3 DEF FrontierType, Popped
<1>5. /\ t.heap = frontier.heap \ {e}
      /\ t.queued = [frontier.queued EXCEPT ![e.url] = NotQueued]
      /\ t.discovered = frontier.discovered /\ t.visited = frontier.visited
  BY DEF FrontierType, Popped
<1> HIDE DEF t
<1>6. ASSUME NEW u \in WebPages, t.queued[u] # NotQueued
      PROVE  \E f \in t.heap : f.url = u /\ f.score = t.queued[u]
  <2>1. u # e.url /\ t.queued[u] = frontier.queued[u]
    BY <1>1, <1>5, <1>6 DEF FrontierType
  <2>2. PICK f \in frontier.heap : f.url = u /\ f.score = frontier.queued[u]
    BY <1>6, <2>1 DEF Accounted
  <2> QED
    BY <1>5, <2>1, <2>2
<1> QED
  BY <1>1, <1>4, <1>5, <1>6 DEF t

\* The page of e is visited.
LEMMA TakenSound ==
  ASSUME CrawlAssumption, frontier \in FrontierType, Accounted(frontier),
         NEW e \in frontier.heap
  PROVE  Sound(Taken(e), Visited \cup {e.url})
<1> DEFINE s == Popped(e)
           t == Taken(e)
<1>1. /\ e \in Entry /\ s \in FrontierType
      /\ s.heap = frontier.heap \ {e}
      /\ s.queued = [frontier.queued EXCEPT ![e.url] = NotQueued]
      /\ s.discovered = frontier.discovered
      /\ s.visited = frontier.visited
      /\ \A u \in WebPages :
           s.queued[u] # NotQueued =>
             \E f \in s.heap : f.url = u /\ f.score = s.queued[u]
  BY PoppedSound
<1>2. t = [s EXCEPT !.visited = s.visited \cup {e.url}]
  BY DEF Taken
<1>3. e.url \in WebPages /\ s.visited \cup {e.url} \in SUBSET WebPages
  BY <1>1 DEF Entry, FrontierType
<1> SUFFICES Sound(t, Visited \cup {e.url})
  OBVIOUS
<1> HIDE DEF s, t
<1>4. t \in FrontierType
  BY <1>1, <1>2, <1>3 DEF FrontierType
<1>5. /\ t.heap = s.heap /\ t.queued = s.queued
      /\ t.discovered = s.discovered /\ t.visited = s.visited \cup {e.url}
  BY <1>1, <1>2 DEF FrontierType
<1>6. ASSUME NEW u \in t.discovered, u \notin t.visited, t.queued[u] = NotQueued
      PROVE  OnHost(t, HostOf[u]) >= MaxPerHost
  <2>1. u \in frontier.discovered /\ u # e.url /\ u \notin frontier.visited
    BY <1>1, <1>5, <1>6
  <2>2. u \in WebPages
    BY <2>1 DEF FrontierType
  <2>3. frontier.queued[u] = NotQueued
    BY <1>1, <1>5, <1>6, <2>1, <2>2 DEF FrontierType
  <2>4. OnHost(frontier, HostOf[u]) >= MaxPerHost
    BY <2>1, <2>3 DEF Accounted
  <2>5. OnHost(frontier, HostOf[u]) <= OnHost(t, HostOf[u])
    BY <1>1, <1>4, <1>5, OnHostGrows
  <2>6. OnHost(frontier, HostOf[u]) \in Nat /\ OnHost(t, HostOf[u]) \in Nat /\ MaxPerHost \in Nat
    BY <1>4, OnHostNat DEF CrawlAssumption
  <2> QED
    BY <2>4, <2>5, <2>6
<1> QED
  BY <1>1, <1>4, <1>5, <1>6 DEF Sound, Accounted, Visited

\* The page of e is visited and its links are queued.
LEMMA LinkedSound ==
  ASSUME CrawlAssumption, frontier \in FrontierType, Accounted(frontier),
         NEW e \in frontier.heap
  PROVE  Sound(Linked(e), Visited \cup {e.url})
<1>1. Sound(Taken(e), Visited \cup {e.url})
  BY TakenSound
<1>2. e.url \in WebPages /\ e.depth \in Nat
  BY DEF FrontierType, Entry
<1>3. Links[e.url] \in Seq(Link)
  BY <1>2 DEF CrawlAssumption
<1>4. LinksFrom(e) \in Seq(Candidate)
  <2>1. PICK q \in Seq(Link) : q = Links[e.url]
    BY <1>3
  <2> DEFINE at(i) == [url |-> q[i].url, score |-> q[i].score, depth |-> e.depth + 1]
  <2>2. LinksFrom(e) = [i \in 1 .. Len(q) |-> at(i)]
    BY <2>1 DEF LinksFrom
  <2>3. Len(q) \in Nat /\ \A i \in 1 .. Len(q) : q[i] \in Link
    OBVIOUS
  <2>4. ASSUME NEW i \in 1 .. Len(q)
        PROVE  at(i) \in Candidate
    <3>0. q[i] \in Link
      BY <2>3
    <3>1. q[i].url \in WebPages /\ q[i].score \in Nat
      BY <3>0 DEF Link
    <3>2. e.depth + 1 \in Nat
      BY <1>2, SMTT(40)
    <3> QED
      BY <3>1, <3>2 DEF Candidate
  <2> HIDE DEF at
  <2> QED
    BY <2>2, <2>3, <2>4
<1> QED
  BY <1>1, <1>4, EnqueueAllSound DEF Linked

\* An entry is passed over.
LEMMA PassedSound ==
  ASSUME CrawlAssumption, frontier \in FrontierType, Accounted(frontier), PassOver
  PROVE  Sound(frontier', Visited)
<1>1. PICK e \in frontier.heap :
        /\ ~MayVisit(e) \/ Replaced(e)
        /\ frontier' = IF Replaced(e) THEN [frontier EXCEPT !.heap = frontier.heap \ {e}]
                       ELSE [Popped(e) EXCEPT !.skipped = Popped(e).skipped + 1]
  BY DEF PassOver
<1>2. e \in Entry /\ e.url \in WebPages
  BY DEF FrontierType, Entry
<1>3. CASE Replaced(e)
  <2> DEFINE t == [frontier EXCEPT !.heap = frontier.heap \ {e}]
  <2>1. frontier.heap \ {e} \in SUBSET Entry
    BY DEF FrontierType
  <2>2. t \in FrontierType
    BY <2>1 DEF FrontierType
  <2>3. /\ t.heap = frontier.heap \ {e} /\ t.queued = frontier.queued
        /\ t.discovered = frontier.discovered /\ t.visited = frontier.visited
    BY DEF FrontierType
  <2>4. t = frontier'
    BY <1>1, <1>3
  <2> HIDE DEF t
  <2>5. ASSUME NEW u \in WebPages, t.queued[u] # NotQueued
        PROVE  \E f \in t.heap : f.url = u /\ f.score = t.queued[u]
    <3>1. PICK f \in frontier.heap : f.url = u /\ f.score = frontier.queued[u]
      BY <2>3, <2>5 DEF Accounted
    <3>2. f # e
      <4>1. e.score < frontier.queued[e.url] /\ frontier.queued[e.url] \in Nat
        BY <1>2, <1>3 DEF Replaced, FrontierType
      <4>2. e.score \in Nat
        BY <1>2 DEF Entry
      <4> QED
        BY <3>1, <4>1, <4>2
    <3> QED
      BY <2>3, <3>1, <3>2
  <2>6. \A h : OnHost(t, h) = OnHost(frontier, h)
    BY <2>3 DEF OnHost
  <2>7. Accounted(t)
    BY <2>3, <2>5, <2>6 DEF Accounted
  <2> QED
    BY <2>2, <2>3, <2>4, <2>7 DEF Sound, Visited
<1>4. CASE ~Replaced(e)
  <2> DEFINE s == Popped(e)
  <2>1. /\ s \in FrontierType
        /\ s.heap = frontier.heap \ {e}
        /\ s.queued = [frontier.queued EXCEPT ![e.url] = NotQueued]
        /\ s.discovered = frontier.discovered
        /\ s.visited = frontier.visited
        /\ \A u \in WebPages :
             s.queued[u] # NotQueued =>
               \E f \in s.heap : f.url = u /\ f.score = s.queued[u]
    BY PoppedSound
  <2>2. frontier' = [s EXCEPT !.skipped = s.skipped + 1]
    BY <1>1, <1>4
  <2> HIDE DEF s
  <2>3. /\ frontier' \in FrontierType
        /\ frontier'.heap = s.heap /\ frontier'.queued = s.queued
        /\ frontier'.discovered = s.discovered /\ frontier'.visited = s.visited
    BY <2>1, <2>2, Skip
  <2>4. ASSUME NEW u \in s.discovered, u \notin s.visited, s.queued[u] = NotQueued
        PROVE  OnHost(s, HostOf[u]) >= MaxPerHost
    <3>1. OnHost(s, HostOf[u]) = OnHost(frontier, HostOf[u])
      BY <2>1 DEF OnHost
    <3>2. OnHost(s, HostOf[u]) \in Nat /\ MaxPerHost \in Nat
      BY <2>1, OnHostNat DEF CrawlAssumption
    <3>3. CASE u = e.url
      BY <1>1, <1>4, <2>1, <2>4, <3>1, <3>2, <3>3 DEF MayVisit, Visited
    <3>4. CASE u # e.url
      <4>1. u \in WebPages /\ frontier.queued[u] = NotQueued
        BY <2>1, <2>4, <3>4 DEF FrontierType
      <4> QED
        BY <2>1, <2>4, <3>1, <4>1 DEF Accounted
    <3> QED
      BY <3>3, <3>4
  <2>5. Accounted(s)
    BY <2>1, <2>4 DEF Accounted
  <2>6. \A h : OnHost(frontier', h) = OnHost(s, h)
    BY <2>3 DEF OnHost
  <2>7. Accounted(frontier')
    BY <2>3, <2>5, <2>6 DEF Accounted
  <2> QED
    BY <2>1, <2>3, <2>7 DEF Sound, Visited
<1> QED
  BY <1>3, <1>4

\* Every step of the crawl keeps its frontier, and what it leaves is noted.
LEMMA CrawlActionStep ==
  ASSUME CrawlAssumption, CrawlInv, LoadMap \/ Discover \/ PassOver \/ Visit
  PROVE  CrawlInv'
<1>1. /\ frontier \in FrontierType /\ Accounted(frontier) /\ Sound(frontier, Visited)
      /\ place \in Crawling /\ UNCHANGED <<relevant, fate, present, warning>>
  BY DEF CrawlInv, Sound, Visited, Crawling, LoadMap, Discover, PassOver, Visit, ingest
<1>2. CASE LoadMap \/ Discover
  <2>1. {MapItems, Seeds, Found} \subseteq Seq(Candidate)
    BY DEF CrawlAssumption
  <2>2. MapItems \o Seeds \in Seq(Candidate)
    BY <2>1
  <2>3. \A n \in 0 .. Len(Found) : SubSeq(Found, 1, n) \in Seq(Candidate)
    BY <2>1
  <2>4. PICK cs \in Seq(Candidate) : frontier' = EnqueueAll(frontier, cs)
    <3>1. CASE LoadMap
      BY <2>1, <2>2, <3>1 DEF LoadMap
    <3>2. CASE Discover
      <4>1. PICK n \in 0 .. Len(Found) : frontier' = EnqueueAll(frontier, SubSeq(Found, 1, n))
        <5>1. Len(Found) \in Nat
          BY <2>1
        <5> QED
          BY <3>2, <5>1 DEF Discover
      <4> QED
        BY <2>3, <4>1
    <3> QED
      BY <1>2, <3>1, <3>2
  <2>5. Sound(frontier', Visited)
    BY <1>1, <2>4, EnqueueAllSound
  <2>6. /\ UNCHANGED <<pages, failed, unattempted>> /\ place' \in {"loop", "discover"}
        /\ expired' \in {expired, TRUE} /\ timedOut' \in {timedOut, expired'}
    BY <1>2 DEF LoadMap, Discover
  <2> QED
    BY <1>1, <2>5, <2>6 DEF CrawlInv, CrawlTypeOK, Sound, Visited, FrontierType, Crawling
<1>3. CASE PassOver
  <2>1. Sound(frontier', Visited)
    BY <1>1, <1>3, PassedSound
  <2>2. UNCHANGED <<place, expired, pages, failed, unattempted, timedOut>>
    BY <1>3 DEF PassOver
  <2> QED
    BY <1>1, <2>1, <2>2 DEF CrawlInv, CrawlTypeOK, Sound, Visited, FrontierType, Crawling
<1>4. CASE Visit
  <2>1. PICK e \in frontier.heap : Fetch(e)
    BY <1>4 DEF Visit
  <2>2. e \in Entry /\ [url |-> e.url, score |-> e.score] \in Scored
    BY <1>1 DEF FrontierType, Entry, Scored
  <2>3. Sound(frontier', Visited \cup {e.url})
    BY <1>1, <2>1, TakenSound, LinkedSound DEF Fetch
  <2>4. pages' \subseteq pages \cup {e.url} /\ pages \subseteq pages'
    BY <2>1 DEF Fetch
  <2>5. failed' \subseteq Scored
    BY <2>1, <2>2 DEF Fetch, CrawlInv, CrawlTypeOK
  <2>6. /\ unattempted' \subseteq Scored
        /\ place' \in {"loop", "score"}
        /\ place' = "score" => Queued' \subseteq unattempted' \/ ~EndedByTime'
    <3>1. CASE /\ pages' = pages \cup {e.url} /\ UNCHANGED unattempted
               /\ place' = IF Sated(pages', frontier') THEN "score" ELSE "loop"
      BY <3>1 DEF EndedByTime, CrawlInv, CrawlTypeOK
    <3>2. CASE UNCHANGED <<place, unattempted>>
      BY <1>4, <3>2 DEF Visit, CrawlInv, CrawlTypeOK
    <3>3. CASE /\ frontier' = Taken(e) /\ place' = "score"
               /\ unattempted' = unattempted \cup Missed(e, Taken(e))
      <4>1. Missed(e, frontier') \subseteq Scored
        <5>1. \A v \in WebPages : frontier'.queued[v] \in Nat \cup {NotQueued}
          BY <2>3 DEF Sound, FrontierType
        <5> QED
          BY <2>2, <5>1, SMTT(40) DEF Missed, Scored
      <4>2. Queued' \subseteq Missed(e, frontier')
        BY DEF Queued, QueuedUrls, Missed
      <4> QED
        BY <3>3, <4>1, <4>2 DEF CrawlInv, CrawlTypeOK
    <3> QED
      BY <2>1, <3>1, <3>2, <3>3 DEF Fetch
  <2>7. expired' \in BOOLEAN /\ timedOut' \in BOOLEAN
    BY <2>1, Zenon DEF Fetch, CrawlInv
  <2> QED
    BY <1>1, <2>3, <2>4, <2>5, <2>6, <2>7
    DEF CrawlInv, CrawlTypeOK, Sound, Visited, FrontierType, Crawling
<1> QED
  BY <1>2, <1>3, <1>4

\* Every other step leaves the frontier alone.
LEMMA IngestStep ==
  ASSUME CrawlAssumption, CrawlInv,
         \/ EndCrawl \/ CutOff \/ Score \/ GiveUp \/ Prepare \/ EndPrepare
         \/ Embed \/ Save \/ EndIngest \/ Expire \/ UNCHANGED crawlVars
  PROVE  CrawlInv'
<1>1. UNCHANGED <<frontier, pages, failed>>
  BY DEF EndCrawl, CutOff, Score, GiveUp, Prepare, EndPrepare, Embed, Save, EndIngest,
         Expire, crawlVars, crawl
<1>2. /\ frontier' \in FrontierType /\ Accounted(frontier')
      /\ frontier'.queued \in [WebPages -> Nat \cup {NotQueued}]
      /\ pages' \subseteq Visited' /\ failed' \subseteq Scored
      /\ Queued' = Queued /\ EndedByTime' = EndedByTime /\ pages' \subseteq WebPages
      /\ Queued \subseteq Scored
  <2>1. Queued \subseteq Scored
    BY DEF CrawlInv, FrontierType, Queued, QueuedUrls, Scored
  <2>2. pages \subseteq WebPages
    BY DEF CrawlInv, CrawlTypeOK, FrontierType, Visited
  <2> QED
    BY <1>1, <2>1, <2>2
    DEF CrawlInv, CrawlTypeOK, FrontierType, Visited, Queued, QueuedUrls, EndedByTime, More
<1>3. \A late \in BOOLEAN :
        UNCHANGED <<relevant, unattempted>> => WarningFor(late)' = WarningFor(late)
  BY <1>1 DEF WarningFor, RelevantFailed, Enough
<1> DEFINE Shape ==
      /\ place' \in {"map", "discover", "loop", "score", "prepare", "embed", "save", "done"}
      /\ unattempted' \subseteq Scored /\ relevant' \subseteq pages'
      /\ fate' \in [WebPages -> Fates] /\ warning' \in CrawlWarnings
           Flags == expired' \in BOOLEAN /\ timedOut' \in BOOLEAN
           Ends ==
      /\ \A u \in WebPages : /\ fate'[u] \in {"kept", "saved"} => u \in present'
                             /\ fate'[u] = "empty" => u \in Blank
      /\ place' \notin Crawling => Queued \subseteq unattempted' \/ ~EndedByTime
      /\ place' \notin Crawling \cup {"score"} => \A u \in relevant' : fate'[u] # "none"
      /\ place' \in {"embed", "save"} => \A u \in WebPages : fate'[u] # "todo"
           Answer ==
      place' = "done" /\ warning' = NoCrawlWarning =>
        /\ WarningFor(timedOut)' = NoCrawlWarning
        /\ ~timedOut' => \A u \in relevant' : fate'[u] \in {"empty", "kept", "saved"}
<1> SUFFICES Shape /\ Flags /\ Ends /\ Answer
  BY <1>2 DEF CrawlInv, CrawlTypeOK
<1>a. CASE UNCHANGED crawlVars
  <2>1. Flags
    BY <1>a, Zenon DEF CrawlInv, crawlVars
  <2>2. timedOut \in BOOLEAN
    BY DEF CrawlInv
  <2>3. WarningFor(timedOut)' = WarningFor(timedOut)
    BY <1>a DEF crawlVars, crawl, WarningFor, RelevantFailed, Enough
  <2>4. Shape /\ Ends /\ Answer
    BY <1>a, <2>3 DEF CrawlInv, CrawlTypeOK, crawlVars, crawl, ingest
  <2> QED
    BY <2>1, <2>4
<1>b. CASE Expire
  <2>1. Flags
    BY <1>b, Zenon DEF Expire, CrawlInv, crawl, ingest
  <2>2. Shape /\ Ends /\ Answer
    BY <1>1, <1>2, <1>3, <1>b DEF Expire, CrawlInv, CrawlTypeOK, Crawling, crawl, ingest
  <2> QED
    BY <2>1, <2>2
<1>c. CASE EndCrawl
  <2>1. Flags
    BY <1>c, Zenon DEF EndCrawl, CrawlInv, crawl, ingest
  <2>2. Shape /\ Ends /\ Answer
    BY <1>1, <1>2, <1>3, <1>c DEF EndCrawl, CrawlInv, CrawlTypeOK, Crawling, crawl, ingest,
           EndedByTime
  <2> QED
    BY <2>1, <2>2
<1>d. CASE CutOff
  <2>1. Flags
    BY <1>d, Zenon DEF CutOff, CrawlInv, crawl, ingest
  <2>2. Shape /\ Ends /\ Answer
    BY <1>1, <1>2, <1>3, <1>d DEF CutOff, CrawlInv, CrawlTypeOK, Crawling, crawl, ingest
  <2> QED
    BY <2>1, <2>2
<1>e. CASE Score
  <2>1. Flags
    BY <1>e, Zenon DEF Score, CrawlInv, crawl, ingest
  <2>2. Shape /\ Ends /\ Answer
    BY <1>1, <1>2, <1>3, <1>e DEF Score, CrawlInv, CrawlTypeOK, Crawling, crawl, ingest, Fates
  <2> QED
    BY <2>1, <2>2
<1>g. CASE Prepare
  <2>1. Flags
    BY <1>g, Zenon DEF Prepare, CrawlInv, crawl, ingest
  <2>2. Shape /\ Ends /\ Answer
    BY <1>1, <1>2, <1>3, <1>g, SMTT(40) DEF Prepare, CrawlInv, CrawlTypeOK, Crawling, crawl, ingest,
           With, FatesOf, Fates
  <2> QED
    BY <2>1, <2>2
<1>h. CASE EndPrepare
  <2>1. Flags
    BY <1>h, Zenon DEF EndPrepare, CrawlInv, crawl, ingest
  <2>2. Shape /\ Ends /\ Answer
    BY <1>1, <1>2, <1>3, <1>h DEF EndPrepare, CrawlInv, CrawlTypeOK, Crawling, crawl, ingest,
           With
  <2> QED
    BY <2>1, <2>2
<1>i. CASE Embed
  <2>1. Flags
    BY <1>i, Zenon DEF Embed, CrawlInv, crawl, ingest
  <2>2. Shape /\ Ends /\ Answer
    BY <1>1, <1>2, <1>3, <1>i DEF Embed, CrawlInv, CrawlTypeOK, Crawling, crawl, ingest,
           With, Fates, CrawlWarnings, NoCrawlWarning
  <2> QED
    BY <2>1, <2>2
<1>j. CASE Save
  <2>1. Flags
    BY <1>j, Zenon DEF Save, CrawlInv, crawl, ingest
  <2>2. Shape /\ Ends /\ Answer
    BY <1>1, <1>2, <1>3, <1>j, ZenonT(40)
       DEF Save, CrawlInv, CrawlTypeOK, Crawling, crawl, ingest, With, Fates
  <2> QED
    BY <2>1, <2>2
<1>f. CASE GiveUp
  <2>1. Flags
    BY <1>f, Zenon DEF GiveUp, CrawlInv
  <2>2. warning' \in CrawlWarnings /\ warning' = WarningFor(TRUE)
    BY <1>f DEF GiveUp, WarningFor, CrawlWarnings
  <2>3. WarningFor(timedOut)' = WarningFor(TRUE)
    BY <1>1, <1>f DEF GiveUp, crawl, WarningFor, RelevantFailed, Enough
  <2>4. Shape /\ Ends /\ Answer
    BY <1>1, <1>2, <1>f, <2>2, <2>3 DEF GiveUp, CrawlInv, CrawlTypeOK, Crawling, crawl
  <2> QED
    BY <2>1, <2>4
<1>k. CASE EndIngest
  <2>1. Flags
    BY <1>k, Zenon DEF EndIngest, CrawlInv
  <2>2. warning' \in CrawlWarnings /\ warning' = FinalWarning(timedOut')
    BY <1>k DEF EndIngest, FinalWarning, WarningFor, CrawlWarnings
  <2>3. WarningFor(timedOut)' = WarningFor(timedOut')
    BY <1>1, <1>k DEF EndIngest, crawl, WarningFor, RelevantFailed, Enough
  <2>4. warning' = NoCrawlWarning => With("failed") = {} /\ WarningFor(timedOut)' = NoCrawlWarning
    BY <2>2, <2>3 DEF FinalWarning, NoCrawlWarning
  <2>5. ASSUME ~timedOut', With("failed") = {}, NEW u \in relevant'
        PROVE  fate'[u] \in {"empty", "kept", "saved"}
    <3>1. u \in relevant /\ u \in WebPages /\ fate' = fate /\ place = "save"
      BY <1>1, <1>2, <1>k DEF EndIngest, CrawlInv, CrawlTypeOK, crawl
    <3>2. fate[u] \in Fates /\ fate[u] \notin {"none", "todo"}
      BY <3>1 DEF CrawlInv, CrawlTypeOK, Crawling
    <3>3. With("ready") = {}
      BY <1>k, <2>5 DEF EndIngest
    <3>4. fate[u] \notin {"ready", "failed"}
      BY <2>5, <3>1, <3>3 DEF With
    <3> QED
      BY <3>1, <3>2, <3>4 DEF Fates
  <2>6. Shape /\ Ends
    BY <1>1, <1>2, <1>k, <2>2 DEF EndIngest, CrawlInv, CrawlTypeOK, Crawling, crawl
  <2>7. Answer
    BY <2>4, <2>5
  <2> QED
    BY <2>1, <2>6, <2>7
<1> QED
  BY <1>a, <1>b, <1>c, <1>d, <1>e, <1>f, <1>g, <1>h, <1>i, <1>j, <1>k

\* The invariant of the crawl holds before it begins.
LEMMA CrawlStart == CrawlAssumption /\ CrawlInit => CrawlInv
<1> SUFFICES ASSUME CrawlAssumption, CrawlInit
             PROVE  CrawlInv
  OBVIOUS
<1>1. frontier = [heap |-> {}, queued |-> [u \in WebPages |-> NotQueued],
                  discovered |-> {}, visited |-> {}, seq |-> 0, skipped |-> 0]
  BY DEF CrawlInit
<1>2. [u \in WebPages |-> NotQueued] \in [WebPages -> Nat \cup {NotQueued}]
  OBVIOUS
<1>3. frontier \in FrontierType
  BY <1>1, <1>2 DEF FrontierType
<1>4. /\ frontier.queued = [u \in WebPages |-> NotQueued]
      /\ frontier.discovered = {}
  BY <1>1
<1>5. Accounted(frontier)
  BY <1>4 DEF Accounted
<1>6. /\ place = "map" /\ expired \in BOOLEAN /\ timedOut \in BOOLEAN
      /\ pages = {} /\ failed = {} /\ unattempted = {} /\ relevant = {}
      /\ fate = [u \in WebPages |-> "none"] /\ warning = NoCrawlWarning
  BY DEF CrawlInit
<1>7. fate \in [WebPages -> Fates] /\ \A u \in WebPages : fate[u] = "none"
  BY <1>6 DEF Fates
<1>8. CrawlTypeOK
  BY <1>2, <1>4, <1>6, <1>7 DEF CrawlTypeOK, CrawlWarnings
<1> QED
  BY <1>3, <1>5, <1>6, <1>7, <1>8 DEF CrawlInv, Crawling

\* The inductive invariant of live_site_search (SiteSearchService.search): the type
\* of its state, every candidate of the frontier accounted for, every relevant page
\* given a fate once the stage that decides it is over, and at the end no page that
\* failed without a warning.
THEOREM CrawlInvariant == CrawlSpec => []CrawlInv
<1>1. CrawlInit => CrawlInv
  BY CrawlStart, CrawlAssumption
<1>2. CrawlInv /\ [CrawlNext]_crawlVars => CrawlInv'
  BY CrawlActionStep, IngestStep, CrawlAssumption DEF CrawlNext, Done
<1> QED
  BY <1>1, <1>2, PTL DEF CrawlSpec

\* No candidate is lost, whatever is found again with a better score.
THEOREM CandidatesKept == CrawlSpec => []NoneLost
<1>1. CrawlInv => NoneLost
  BY DEF CrawlInv, FrontierType, Accounted, NoneLost, QueuedUrls, Visited
<1> QED
  BY <1>1, CrawlInvariant, PTL

\* An answer without a warning misses nothing it knows to be better.
THEOREM MissesAreTold == CrawlSpec => []NoSilentMiss
<1>1. CrawlInv => NoSilentMiss
  <2> SUFFICES ASSUME CrawlInv, place = "done", warning = NoCrawlWarning, ~Enough(relevant)
               PROVE  LET top == Best({PageScore[u] : u \in relevant} \cup {0})
                          missed == RelevantFailed \cup
                                    (IF timedOut THEN unattempted ELSE {}) \cup
                                    (IF timedOut /\ EndedByTime THEN Queued ELSE {})
                      IN IF relevant = {} THEN ~timedOut /\ RelevantFailed = {}
                         ELSE \A f \in missed : f.score <= top + WarningMargin
    BY DEF NoSilentMiss
  <2> DEFINE scores == {PageScore[u] : u \in relevant} \cup {0}
             top    == Best(scores)
  <2>1. WarningFor(timedOut) = NoCrawlWarning
    BY DEF CrawlInv
  <2>2. CASE relevant = {}
    BY <2>1, <2>2 DEF WarningFor, NoCrawlWarning
  <2>3. CASE relevant # {}
    <3>1. /\ ~\E f \in RelevantFailed : f.score > top + WarningMargin
          /\ ~(timedOut /\ \E f \in unattempted : f.score > top + WarningMargin)
      BY <2>1, <2>3 DEF WarningFor, NoCrawlWarning
    <3>2. relevant \subseteq WebPages
      BY DEF CrawlInv, CrawlTypeOK, FrontierType, Visited
    <3>3. scores \in SUBSET Nat /\ scores # {}
      BY <3>2, CrawlAssumption DEF CrawlAssumption
    <3>4. IsFiniteSet(scores)
      <4> DEFINE T == {PageScore[u] : u \in relevant}
                 g == [u \in relevant |-> PageScore[u]]
      <4>0. IsFiniteSet(relevant)
        BY <3>2, CrawlAssumption, FS_Subset DEF CrawlAssumption
      <4>1. g \in Surjection(relevant, T)
        BY DEF Surjection
      <4>2. IsFiniteSet(T)
        BY <4>0, <4>1, FS_Surjection
      <4> QED
        BY <4>2, FS_AddElement
    <3>5. top \in Nat
      BY <3>3, <3>4, BestOf
    <3>6. WarningMargin \in Nat
      BY CrawlAssumption DEF CrawlAssumption
    <3>7. RelevantFailed \subseteq Scored /\ unattempted \subseteq Scored
      BY DEF CrawlInv, CrawlTypeOK, RelevantFailed
    <3>8. timedOut /\ EndedByTime => Queued \subseteq unattempted
      BY DEF CrawlInv, Crawling
    <3> HIDE DEF top
    <3>9. \A f \in Scored : ~(f.score > top + WarningMargin) => f.score <= top + WarningMargin
      BY <3>5, <3>6 DEF Scored
    <3>10. \A f \in RelevantFailed \cup (IF timedOut THEN unattempted ELSE {}) \cup
                    (IF timedOut /\ EndedByTime THEN Queued ELSE {}) :
             f.score <= top + WarningMargin
      BY <3>1, <3>7, <3>8, <3>9
    <3> QED
      BY <2>3, <3>10 DEF top
  <2> QED
    BY <2>2, <2>3
<1> QED
  BY <1>1, CrawlInvariant, PTL

\* A result that calls itself complete has all its pages in the database.
THEOREM CompleteStored == CrawlSpec => []CompleteIsStored
<1>1. CrawlInv => CompleteIsStored
  <2> SUFFICES ASSUME CrawlInv, place = "done", NEW u \in relevant
               PROVE  /\ u \in With("kept") \cup With("saved") => u \in present
                      /\ warning = NoCrawlWarning /\ ~timedOut /\ u \notin Blank => u \in present
    BY DEF CompleteIsStored
  <2>1. u \in WebPages
    BY DEF CrawlInv, CrawlTypeOK, FrontierType, Visited
  <2>2. fate[u] \in {"kept", "saved"} => u \in present
    BY <2>1 DEF CrawlInv
  <2>3. warning = NoCrawlWarning /\ ~timedOut /\ u \notin Blank => fate[u] \in {"kept", "saved"}
    BY <2>1 DEF CrawlInv
  <2> QED
    BY <2>2, <2>3 DEF With
<1> QED
  BY <1>1, CrawlInvariant, PTL

-----------------------------------------------------------------------------
(* The call of a tool.  A call that ends without a warning ends in one of  *)
(* few places; that each is reached only with what makes its silence right *)
(* is known from the steps before, which ToolInv records.                  *)

\* Nothing is counted of a finite set only when there is nothing to count.
LEMMA NoneCounted ==
  ASSUME NEW S, IsFiniteSet(S), NEW T \in SUBSET S, ~(Cardinality(T) > 0)
  PROVE  T = {}
<1>1. IsFiniteSet(T) /\ Cardinality(T) \in Nat
  BY FS_Subset, FS_CardinalityType
<1> QED
  BY <1>1, FS_EmptySet

\* What the counts of the facts say of the rows.
Clear(f, rows, waiting, broken) ==
  /\ f.current # 0 => \E r \in rows : r.current
  /\ \A r \in rows : r.current =>
       /\ ~(f.active > 0) => ~r.leased
       /\ ~(f.soft > 0) => r.age # "soft"
       /\ ~(f.hard > 0) => r.age # "hard"
       /\ ~(f.pending > 0) => r \notin waiting
       /\ ~(f.failed > 0) => r \notin broken

\* A count of the facts that is zero says that no row is of that kind.
LEMMA CountedClear ==
  ASSUME NEW rows, IsFiniteSet(rows), NEW waiting, NEW broken, NEW ev,
         NEW f, f = Counted(rows, waiting, broken, ev)
  PROVE  Clear(f, rows, waiting, broken)
<1>1. PICK cur : cur = {r \in rows : r.current}
  OBVIOUS
<1>2. /\ f.current = Cardinality(cur)
      /\ f.soft = Cardinality({r \in cur : r.age = "soft"})
      /\ f.hard = Cardinality({r \in cur : r.age = "hard"})
      /\ f.pending = Cardinality(cur \cap waiting)
      /\ f.failed = Cardinality(cur \cap broken)
      /\ f.active = Cardinality({r \in cur : r.leased})
  BY <1>1 DEF Counted, NoFacts, Leased
<1>3. IsFiniteSet(cur)
  BY <1>1, FS_Subset
<1>4. /\ f.current # 0 => cur # {}
      /\ ~(f.soft > 0) => {r \in cur : r.age = "soft"} = {}
      /\ ~(f.hard > 0) => {r \in cur : r.age = "hard"} = {}
      /\ ~(f.pending > 0) => cur \cap waiting = {}
      /\ ~(f.failed > 0) => cur \cap broken = {}
      /\ ~(f.active > 0) => {r \in cur : r.leased} = {}
  BY <1>2, <1>3, NoneCounted, FS_EmptySet
<1> QED
  BY <1>1, <1>4 DEF Clear

\* So it is with the facts of the documents.
LEMMA DocumentClear ==
  ASSUME NEW rows, IsFiniteSet(rows), NEW ev, NEW scoped,
         NEW f, f = DocumentFacts(ev, rows, scoped)
  PROVE  \E waiting, broken :
           /\ \A r \in rows : r.current =>
                /\ PendingDocument(r) => r \in waiting
                /\ FailedDocument(r) => r \in broken
           /\ Clear(f, rows, waiting, broken)
<1> DEFINE waiting == {r \in {q \in rows : q.current} : PendingDocument(r)}
           broken  == {r \in {q \in rows : q.current} : FailedDocument(r)}
           g       == Counted(rows, waiting, broken, ev)
<1>1. /\ f.current = g.current /\ f.active = g.active /\ f.soft = g.soft /\ f.hard = g.hard
      /\ f.pending = g.pending /\ f.failed = g.failed
  BY DEF DocumentFacts, Counted, NoFacts
<1>2. Clear(g, rows, waiting, broken)
  BY CountedClear
<1>3. \A r \in rows : r.current => /\ PendingDocument(r) => r \in waiting
                                   /\ FailedDocument(r) => r \in broken
  OBVIOUS
<1> HIDE DEF waiting, broken, g
<1>4. Clear(f, rows, waiting, broken)
  BY <1>1, <1>2 DEF Clear
<1> QED
  BY <1>3, <1>4

\* So it is with the facts of the announcements.
LEMMA AnnouncementClear ==
  ASSUME NEW rows, IsFiniteSet(rows), NEW ev, NEW sources, NEW scoped,
         NEW f, f = AnnouncementFacts(ev, rows, sources, scoped)
  PROVE  \E waiting, broken :
           /\ \A r \in rows : r.current =>
                /\ PendingAnnouncement(r) => r \in waiting
                /\ FailedAnnouncement(r) => r \in broken
           /\ Clear(f, rows, waiting, broken)
<1> DEFINE waiting == {r \in rows : PendingAnnouncement(r)}
           broken  == {r \in rows : FailedAnnouncement(r)}
           g       == Counted(rows, waiting, broken, ev)
<1>1. /\ f.current = g.current /\ f.active = g.active /\ f.soft = g.soft /\ f.hard = g.hard
      /\ f.pending = g.pending /\ f.failed = g.failed
  BY DEF AnnouncementFacts, Counted, NoFacts
<1>2. Clear(g, rows, waiting, broken)
  BY CountedClear
<1>3. \A r \in rows : r.current => /\ PendingAnnouncement(r) => r \in waiting
                                   /\ FailedAnnouncement(r) => r \in broken
  OBVIOUS
<1> HIDE DEF waiting, broken, g
<1>4. Clear(f, rows, waiting, broken)
  BY <1>1, <1>2 DEF Clear
<1> QED
  BY <1>3, <1>4

\* When a decision is to use the database, no count of the facts is against it.
LEMMA UseDbMeans ==
  ASSUME NEW f, NEW intent \in Intents, NEW remaining, Decide(f, intent, remaining) = "useDb"
  PROVE  /\ f.ok /\ ~(f.active > 0) /\ f.current # 0
         /\ ~(f.hard > 0) /\ ~(f.soft > 0) /\ ~(f.pending > 0) /\ ~(f.failed > 0)
<1>1. Insufficient(remaining) # "useDb"
  BY DEF Insufficient
<1> QED
  BY <1>1 DEF Decide, LacksTopic, LacksSnapshot, TerminalIncomplete, Unsettled,
              Intents, TopicIntents, AnnouncementIntents

\* The one silence of a live search that was not complete: the deadline cut off
\* a search by keyword before anything was found.
CutOffSilently == left = 0 /\ live = SilentCutOff /\ ~Documents /\ call.unit # "scoped"

\* What the call knows of itself at each step.
ToolInv ==
  /\ row \in [Url -> Rows(Url)] /\ stored \subseteq Url /\ Urls(cached) \subseteq Url
  /\ pc \in {"preflight", "resolve", "read"} => cached = {}
  /\ pc = "legacy" => ~Enforcing
  /\ pc = "ingestPages" => Documents
  /\ pc \in {"ingestPages", "ingestKeyword", "ingestUnit", "reread"} /\ Enforcing
       => verdict = "live"
  /\ pc = "ingestKeyword" /\ Enforcing => ~Documents /\ call.unit # "scoped"
  /\ pc = "reread" /\ Enforcing /\ ~Documents /\ live.warning = NoWarning
       => live.complete \/ ready \/ CutOffSilently
  /\ live.warning # "scheduled"
  /\ SilentIsVerified
  /\ FoundIsKept

\* The end of a call.
LEMMA FinishStep ==
  ASSUME ToolInv, NEW ev, NEW w, Finish(ev, w), w # "scheduled",
         Enforcing /\ w = NoWarning =>
           \/ ev = {Homepage}
           \/ ready
           \/ verdict = "useDb"
           \/ verdict = "live" /\ (live.complete \/ (CutOffSilently /\ ev = cached))
           \/ Documents /\ ~HasSiteSearch,
         cached # {} => ev # {} \/ ~(Documents \/ (Enforcing /\ call.unit # "scoped"))
  PROVE  ToolInv' /\ "scheduled" \notin warnings' \ warnings /\ verdict' = verdict
<1>1. /\ pc' = "done" /\ evidence' = ev /\ warnings' = warnings \cup Kept(w)
      /\ UNCHANGED <<mode, call, hit, row, stored, left, cached, ready, verdict, live>>
  BY DEF Finish, request, world, progress
<1>2. w # NoWarning /\ ~ready => Kept(w) # {}
  BY DEF Kept
<1>3. "scheduled" \notin Kept(w)
  BY DEF Kept
<1>4. SilentIsVerified'
  <2>1. CutOffSilently /\ verdict = "live" /\ ev = cached => CutOffUnnoticed'
    BY <1>1 DEF CutOffSilently, CutOffUnnoticed, SilentCutOff, NoLive, Documents
  <2> QED
    BY <1>1, <1>2, <2>1 DEF SilentIsVerified, Enforcing, Documents
<1>5. FoundIsKept'
  BY <1>1 DEF FoundIsKept, Enforcing, Documents
<1> QED
  BY <1>1, <1>3, <1>4, <1>5 DEF ToolInv, Enforcing, Documents

\* A row stays one.
LEMMA RowSteps ==
  ASSUME NEW r \in Rows(Url)
  PROVE  /\ [r EXCEPT !.leased = TRUE] \in Rows(Url)
         /\ \A changed \in BOOLEAN : Fetched(r, changed) \in Rows(Url)
         /\ [r EXCEPT !.ingestion = "success", !.sync = TRUE] \in Rows(Url)
         /\ [r EXCEPT !.ingestion = "failed"] \in Rows(Url)
         /\ [r EXCEPT !.age = "fresh", !.warned = FALSE] \in Rows(Url)
<1>1. [r EXCEPT !.leased = TRUE] \in Rows(Url)
  BY DEF Rows
<1>2. ASSUME NEW changed \in BOOLEAN
      PROVE  Fetched(r, changed) \in Rows(Url)
  <2> DEFINE i == IF changed THEN "pending" ELSE r.ingestion
             b == r.sync /\ ~changed
  <2>1. i \in IngestionStates
    BY DEF Rows, IngestionStates
  <2>2. b \in BOOLEAN
    OBVIOUS
  <2>3. "fresh" \in Ages
    BY DEF Ages
  <2>4. Fetched(r, changed) =
          [r EXCEPT !.leased = FALSE, !.age = "fresh", !.ingestion = i, !.sync = b]
    BY DEF Fetched
  <2> HIDE DEF i, b
  <2> QED
    BY <2>1, <2>2, <2>3, <2>4 DEF Rows
<1>3. [r EXCEPT !.ingestion = "success", !.sync = TRUE] \in Rows(Url)
  BY DEF Rows, IngestionStates
<1>4. [r EXCEPT !.ingestion = "failed"] \in Rows(Url)
  BY DEF Rows, IngestionStates
<1>5. [r EXCEPT !.age = "fresh", !.warned = FALSE] \in Rows(Url)
  BY DEF Rows, Ages
<1> QED
  BY <1>1, <1>2, <1>3, <1>4, <1>5

\* After a refresh the rows are rows.
LEMMA RefreshedRows ==
  ASSUME ToolInv, NEW s, Refreshed(s)
  PROVE  row' \in [Url -> Rows(Url)]
  BY RowSteps DEF Refreshed, ToolInv

\* The workers and the clock leave the call alone.
LEMMA OthersStep ==
  ASSUME ToolInv, Tick \/ Others \/ Ended \/ UNCHANGED vars
  PROVE  /\ ToolInv' /\ UNCHANGED <<verdict, warnings>>
<1>1. UNCHANGED <<mode, call, pc, ready, cached, verdict, live, evidence, warnings>>
  BY DEF Tick, Others, CrawlStarts, CrawlEnds, IngestionEnds, Ended, vars, request, progress,
         answer
<1>2. row' \in [Url -> Rows(Url)]
  <2>1. CASE Others
    <3>1. PICK u \in Url : CrawlStarts(u) \/ CrawlEnds(u) \/ IngestionEnds(u)
      BY <2>1 DEF Others
    <3>2. row[u] \in Rows(Url)
      BY DEF ToolInv
    <3>3. row' = row \/ \E r \in Rows(Url) : row' = [row EXCEPT ![u] = r]
      <4>1. CASE CrawlStarts(u)
        BY <3>2, <4>1, RowSteps DEF CrawlStarts
      <4>2. CASE CrawlEnds(u)
        BY <3>2, <4>2, RowSteps DEF CrawlEnds
      <4>3. CASE IngestionEnds(u)
        BY <3>2, <4>3, RowSteps DEF IngestionEnds
      <4> QED
        BY <3>1, <4>1, <4>2, <4>3
    <3> QED
      BY <3>3 DEF ToolInv
  <2>2. CASE Tick \/ Ended \/ UNCHANGED vars
    BY <2>2 DEF Tick, Ended, vars, world, ToolInv
  <2> QED
    BY <2>1, <2>2
<1>3. stored' \subseteq Url
  BY DEF Tick, Others, CrawlStarts, CrawlEnds, IngestionEnds, Ended, vars, world, ToolInv
<1>4. left = 0 => left' = 0
  <2>1. CASE Tick
    BY <2>1 DEF Tick
  <2>2. CASE Others \/ Ended \/ UNCHANGED vars
    BY <2>2 DEF Others, CrawlStarts, CrawlEnds, IngestionEnds, Ended, vars
  <2> QED
    BY <2>1, <2>2
<1>5. /\ CutOffSilently => CutOffSilently'
      /\ CutOffUnnoticed => CutOffUnnoticed'
  BY <1>1, <1>4 DEF CutOffSilently, CutOffUnnoticed, Documents
<1>6. SilentIsVerified' /\ FoundIsKept'
  BY <1>1, <1>5 DEF ToolInv, SilentIsVerified, FoundIsKept, Enforcing, Documents
<1> QED
  BY <1>1, <1>2, <1>3, <1>5, <1>6 DEF ToolInv, Enforcing, Documents

\* What a step of the call promises of the invariant and of the two action properties.
Keeps ==
  /\ ToolInv'
  /\ "scheduled" \in warnings' \ warnings => Targets \cup TargetSources \subseteq due'
  /\ verdict' = "useDb" /\ verdict # "useDb" =>
       LET cur == {r \in RowsOf(cached) : r.current}
       IN  cur # {} /\ \A r \in cur : Settled(r)

\* What retrieval returns was stored.
LEMMA RetrievedUrls ==
  ASSUME NEW S
  PROVE  Urls(Retrieved(S)) \subseteq stored
<1>1. \A u : Hit(u).url = u
  BY DEF Hit
<1> QED
  BY <1>1 DEF Urls, Retrieved

\* Facts that suffice are facts of settled pages.
LEMMA SettledFacts ==
  ASSUME CallAssumption, ToolInv, Decide(FactsNow, Intent, Remaining) = "useDb"
  PROVE  LET cur == {r \in RowsOf(cached) : r.current}
         IN  cur # {} /\ \A r \in cur : Settled(r)
<1> DEFINE rows == RowsOf(cached)
           cur  == {r \in rows : r.current}
<1>1. IsFiniteSet(rows)
  <2> DEFINE g == [u \in Urls(cached) |-> row[u]]
  <2>1. IsFiniteSet(Urls(cached))
    BY FS_Subset DEF CallAssumption, ToolInv
  <2>2. g \in Surjection(Urls(cached), rows)
    BY DEF Surjection, RowsOf
  <2> QED
    BY <2>1, <2>2, FS_Surjection
<1>2. rows \subseteq Rows(Url)
  BY DEF ToolInv, RowsOf
<1>3. Intent \in Intents
  BY DEF Intent, Intents, TopicIntents, AnnouncementIntents
<1>4. PICK f : f = FactsNow
  OBVIOUS
<1>5. /\ f.ok /\ ~(f.active > 0) /\ f.current # 0
      /\ ~(f.hard > 0) /\ ~(f.soft > 0) /\ ~(f.pending > 0) /\ ~(f.failed > 0)
  BY <1>3, <1>4, UseDbMeans
<1> HIDE DEF rows
<1>6. PICK waiting, broken :
        /\ Clear(f, rows, waiting, broken)
        /\ \A r \in rows : r.current =>
             IF Documents
               THEN /\ PendingDocument(r) => r \in waiting
                    /\ FailedDocument(r) => r \in broken
               ELSE /\ PendingAnnouncement(r) => r \in waiting
                    /\ FailedAnnouncement(r) => r \in broken
  <2>1. CASE Documents
    <3>1. f = DocumentFacts(cached, rows, Scoped)
      BY <1>4, <2>1 DEF FactsNow, rows
    <3> QED
      BY <1>1, <2>1, <3>1, DocumentClear
  <2>2. CASE ~Documents
    <3>1. f = AnnouncementFacts(cached, rows, SourceRows, Scoped)
      BY <1>4, <2>2 DEF FactsNow, rows
    <3> QED
      BY <1>1, <2>2, <3>1, AnnouncementClear
  <2> QED
    BY <2>1, <2>2
<1>7. cur # {}
  BY <1>5, <1>6 DEF Clear
<1>8. ASSUME NEW r \in cur
      PROVE  Settled(r)
  <2>1. /\ r.age \in Ages /\ r.ingestion \in IngestionStates
        /\ r.announcement \in AnnouncementStates
    BY <1>2 DEF Rows
  <2>2. r.age = "fresh" /\ ~r.leased /\ r \notin waiting /\ r \notin broken
    BY <1>5, <1>6, <2>1 DEF Ages, Clear
  <2>3. CASE Documents
    BY <1>6, <2>1, <2>2, <2>3 DEF PendingDocument, FailedDocument, Settled, IngestionStates
  <2>4. CASE ~Documents
    BY <1>6, <2>1, <2>2, <2>4
    DEF PendingAnnouncement, FailedAnnouncement, Settled, IngestionStates, AnnouncementStates
  <2> QED
    BY <2>3, <2>4
<1> QED
  BY <1>7, <1>8 DEF rows

\* Each step of a call keeps the invariant and the two action properties.
LEMMA StepKeeps ==
  ASSUME CallAssumption, ToolInv, Step
  PROVE  Keeps
<1> USE DEF request, world, progress, answer
<1>a. CASE Preflight
  <2>1. pc' = "resolve" /\ UNCHANGED <<mode, call, stored, cached, verdict, live>>
    BY <1>a DEF Preflight
  <2>2. row' \in [Url -> Rows(Url)]
    BY <1>a, RefreshedRows DEF Preflight, ToolInv
  <2>3. "scheduled" \notin warnings' \ warnings
    BY <1>a DEF Preflight
  <2> QED
    BY <1>a, <2>1, <2>2, <2>3
    DEF Preflight, ToolInv, Keeps, SilentIsVerified, FoundIsKept, Enforcing, Documents
<1>b. CASE Resolve
  <2>1. CASE Finish({Homepage}, NoWarning)
    BY <2>1, FinishStep DEF Keeps, NoWarning
  <2>2. CASE /\ pc' \in {"failed", "read", "legacy"}
             /\ UNCHANGED <<request, world, due, left, changes, progress, answer>>
             /\ pc' = "legacy" => mode = "off"
    BY <1>b, <2>2 DEF Resolve, ToolInv, Keeps, SilentIsVerified, FoundIsKept, Enforcing,
                      Documents
  <2> QED
    BY <1>b, <2>1, <2>2 DEF Resolve, Fail
<1>c. CASE Read
  <2>1. CASE Finish({}, "siteFailed")
    BY <1>c, <2>1, FinishStep DEF Read, Keeps, NoWarning, ToolInv
  <2>2. CASE Documents /\ ~HasSiteSearch /\ Finish(Retrieved(Url), NoWarning)
    BY <1>c, <2>2, FinishStep DEF Read, Keeps, NoWarning, ToolInv
  <2>3. CASE Fail
    BY <1>c, <2>3 DEF Read, Fail, ToolInv, Keeps, SilentIsVerified, FoundIsKept, Enforcing,
                      Documents
  <2>4. CASE /\ cached' = Retrieved(Url) /\ pc' = IF mode = "off" THEN "legacy" ELSE "decide"
             /\ UNCHANGED <<request, row, stored, verdict, live, answer>>
    <3>1. Urls(cached') \subseteq Url
      BY <2>4, RetrievedUrls DEF ToolInv
    <3> QED
      BY <2>4, <3>1 DEF ToolInv, Keeps, SilentIsVerified, FoundIsKept, Enforcing, Documents
  <2> QED
    BY <1>c, <2>1, <2>2, <2>3, <2>4 DEF Read
<1>d. CASE DecideCall
  <2>1. /\ pc' = IF Enforcing THEN "act" ELSE "legacy"
        /\ UNCHANGED <<request, world, ready, cached, live, answer>>
    BY <1>d DEF DecideCall
  <2>2. PICK facts \in {NoFacts(cached)} \cup {FactsNow} :
          verdict' = IF Enforcing THEN Decide(facts, Intent, Remaining) ELSE "none"
    BY <1>d DEF DecideCall
  <2>3. Decide(NoFacts(cached), Intent, Remaining) # "useDb"
    BY DEF Decide, NoFacts, Insufficient
  <2>4. verdict' = "useDb" =>
          LET cur == {r \in RowsOf(cached) : r.current}
          IN  cur # {} /\ \A r \in cur : Settled(r)
    BY <2>2, <2>3, SettledFacts
  <2>5. ToolInv' /\ warnings' = warnings
    BY <2>1 DEF ToolInv, SilentIsVerified, FoundIsKept, Enforcing, Documents
  <2> QED
    BY <2>4, <2>5 DEF Keeps
<1>e. CASE UseDb
  BY <1>e, FinishStep DEF Keeps, UseDb, NoWarning
<1>f. CASE UseDbIncomplete
  BY <1>f, FinishStep DEF Keeps, UseDbIncomplete, Fallback, NoWarning
<1>g. CASE Schedule
  <2>1. /\ pc' = "done" /\ evidence' = cached
        /\ UNCHANGED <<request, world, ready, cached, verdict, live>>
    BY <1>g DEF Schedule
  <2>2. PICK srcs \in SUBSET TargetSources, raised \in {"no", "pages", "sources"} :
          LET tried      == MaySchedule(Targets, TargetSources, Expired)
              duePages   == IF tried /\ raised # "pages" THEN Accepted ELSE {}
              dueSources == IF tried /\ raised = "no" THEN srcs ELSE {}
              promised   == tried /\ Promised(Targets, TargetSources, duePages, dueSources,
                                              raised # "no")
          IN  /\ due' = duePages \cup dueSources
              /\ warnings' = warnings \cup Kept(IF promised THEN "scheduled" ELSE "sitePartial")
    BY <1>g DEF Schedule
  <2>3. "scheduled" \in warnings' \ warnings => Targets \cup TargetSources \subseteq due'
    BY <2>2 DEF Kept, Promised
  <2>4. ~ready => warnings' # {}
    BY <2>2 DEF Kept, NoWarning
  <2>5. SilentIsVerified'
    BY <2>1, <2>4 DEF SilentIsVerified
  <2>6. FoundIsKept'
    BY <2>1 DEF FoundIsKept
  <2> QED
    BY <2>1, <2>3, <2>5, <2>6 DEF ToolInv, Keeps, Enforcing, Documents
<1>h. CASE GoLive
  <2>1. /\ verdict = "live"
        /\ pc' \in {"ingestPages", "ingestUnit", "ingestKeyword"}
        /\ pc' = "ingestPages" => Documents
        /\ pc' = "ingestKeyword" => ~Documents /\ call.unit # "scoped"
        /\ UNCHANGED <<request, world, progress, answer>>
    BY <1>h DEF GoLive
  <2> QED
    BY <2>1 DEF ToolInv, Keeps, SilentIsVerified, FoundIsKept, Enforcing, Documents
<1>i. CASE NoDeadline
  BY <1>i, FinishStep DEF Keeps, NoDeadline, NoWarning
<1>j. CASE LegacyDocuments
  <2>1. CASE Finish(cached, NoWarning)
    BY <1>j, <2>1, FinishStep DEF LegacyDocuments, Keeps, NoWarning, ToolInv
  <2>2. CASE pc' = "ingestPages" /\ UNCHANGED <<request, world, progress, answer>>
    BY <1>j, <2>2
    DEF LegacyDocuments, ToolInv, Keeps, SilentIsVerified, FoundIsKept, Enforcing, Documents
  <2> QED
    BY <1>j, <2>1, <2>2 DEF LegacyDocuments
<1>k. CASE LegacyAnnouncements
  <2>1. /\ pc = "legacy" /\ pc' \in {"reread", "ingestUnit", "ingestKeyword"}
        /\ UNCHANGED <<request, stored, ready, cached, verdict, answer>>
    BY <1>k DEF LegacyAnnouncements
  <2>2. row' \in [Url -> Rows(Url)]
    <3>1. CASE \E s : Refreshed(s)
      BY <3>1, RefreshedRows
    <3>2. CASE UNCHANGED row
      BY <3>2 DEF ToolInv
    <3> QED
      BY <1>k, <3>1, <3>2 DEF LegacyAnnouncements
  <2>3. live'.warning # "scheduled"
    <3>1. CASE UNCHANGED live
      BY <3>1 DEF ToolInv
    <3>2. CASE \E snapshot \in SUBSET stored, ok \in BOOLEAN :
                 live' = [NoLive EXCEPT !.urls = snapshot, !.scope = "snapshot", !.complete = ok,
                            !.warning = IF ok THEN NoLive.warning ELSE "refreshFailed"]
      BY <3>2 DEF NoLive, NoWarning
    <3> QED
      BY <1>k, <3>1, <3>2 DEF LegacyAnnouncements
  <2> QED
    BY <2>1, <2>2, <2>3
    DEF ToolInv, Keeps, SilentIsVerified, FoundIsKept, Enforcing, Documents
<1>l. CASE IngestPages
  <2>1. CASE Finish(cached, Fallback(cached))
    BY <2>1, FinishStep DEF Keeps, Fallback, NoWarning
  <2>2. CASE \E r \in PageResults : LiveEnds(r)
    <3>1. PICK r \in PageResults : LiveEnds(r)
      BY <2>2
    <3>2. r.urls \subseteq Url /\ r.warning # "scheduled"
      BY DEF PageResults, NoWarning
    <3>3. Documents
      BY <1>l DEF IngestPages, ToolInv
    <3> QED
      BY <1>l, <3>1, <3>2, <3>3 DEF IngestPages, LiveEnds, Saved, ToolInv, Keeps,
             SilentIsVerified,
                     FoundIsKept, Enforcing, Documents
  <2> QED
    BY <1>l, <2>1, <2>2 DEF IngestPages
<1>m. CASE IngestKeyword
  <2>1. CASE Finish(cached, "siteFailed")
    BY <2>1, FinishStep DEF Keeps, NoWarning
  <2>2. CASE \E r \in KeywordResults : LiveEnds(r)
    <3>1. PICK r \in KeywordResults : LiveEnds(r)
      BY <2>2
    <3>2. /\ r.urls \subseteq Url /\ r.warning # "scheduled"
          /\ r.warning = NoWarning => r.complete
      <4>1. CASE r = [NoLive EXCEPT !.scope = "all", !.warning = "searchFailed"]
        BY <4>1 DEF NoLive, NoWarning
      <4>2. CASE r \in {[complete |-> c, urls |-> S, scope |-> "pages",
                         warning |-> IF c THEN NoWarning ELSE "searchPartial",
                         found |-> FALSE] : S \in SUBSET Url, c \in BOOLEAN}
        BY <4>2 DEF NoWarning
      <4> QED
        BY <4>1, <4>2 DEF KeywordResults
    <3> QED
      BY <1>m, <3>1, <3>2 DEF IngestKeyword, LiveEnds, Saved, ToolInv, Keeps, SilentIsVerified,
                     FoundIsKept, Enforcing, Documents
  <2>3. [NoLive EXCEPT !.scope = "all", !.warning = "searchFailed"] \in KeywordResults
    BY DEF KeywordResults
  <2>4. CASE Expired /\ LiveEnds(SilentCutOff)
    <3>1. SilentCutOff.urls = {} /\ SilentCutOff.warning = NoWarning /\ NoWarning # "scheduled"
      BY DEF SilentCutOff, NoLive, NoWarning
    <3>2. ready \/ left = 0
      BY <2>4 DEF Expired, Remaining
    <3>3. Enforcing => ready' \/ CutOffSilently'
      BY <1>m, <2>4, <3>2
      DEF IngestKeyword, LiveEnds, ToolInv, CutOffSilently, Documents, Enforcing
    <3> QED
      BY <1>m, <2>4, <3>1, <3>3 DEF IngestKeyword, LiveEnds, Saved, ToolInv, Keeps,
                     SilentIsVerified, FoundIsKept, Enforcing, Documents
  <2> QED
    BY <1>m, <2>1, <2>2, <2>3, <2>4 DEF IngestKeyword
<1>n. CASE IngestUnit
  <2>1. PICK r : /\ LiveEnds(r)
                 /\ \/ r \in UnitResults
                    \/ r = [NoLive EXCEPT !.scope = "all", !.warning = "siteFailed"]
    BY <1>n DEF IngestUnit
  <2>2. /\ r.urls \subseteq Url /\ r.warning # "scheduled"
        /\ r.warning = NoWarning => r.complete
    <3>1. CASE r \in UnitResults
      BY <3>1 DEF UnitResults, NoWarning
    <3>2. CASE r = [NoLive EXCEPT !.scope = "all", !.warning = "siteFailed"]
      BY <3>2 DEF NoLive, NoWarning
    <3> QED
      BY <2>1, <3>1, <3>2
  <2> QED
    BY <1>n, <2>1, <2>2 DEF IngestUnit, LiveEnds, Saved, ToolInv, Keeps, SilentIsVerified,
                   FoundIsKept, Enforcing, Documents
<1>o. CASE RereadDocuments
  <2>1. Enforcing => verdict = "live"
    BY <1>o DEF RereadDocuments, ToolInv
  <2>2. \A ev, reread : PageWarning(ev, reread) # "scheduled" /\
          (PageWarning(ev, reread) = NoWarning => live.complete)
    BY DEF PageWarning, Fallback, NoWarning, ToolInv
  <2>3. PICK ev, w : Finish(ev, w) /\ w # "scheduled" /\ (w = NoWarning => live.complete)
                     /\ (cached # {} => ev # {})
    BY <1>o, <2>2 DEF RereadDocuments
  <2> QED
    BY <2>1, <2>3, FinishStep DEF Keeps
<1>p. CASE RereadAnnouncements
  <2>1. Enforcing => verdict = "live"
    BY <1>p DEF RereadAnnouncements, ToolInv
  <2>2. /\ live.warning # "scheduled"
        /\ Enforcing /\ live.warning = NoWarning
             => live.complete \/ ready \/ CutOffSilently
    BY <1>p DEF RereadAnnouncements, ToolInv
  <2>3. CASE Fail
    BY <2>3 DEF Fail, ToolInv, Keeps, SilentIsVerified, FoundIsKept, Enforcing, Documents
  <2>4. CASE ~Fail
    <3>0. CutOffSilently => InScope = {} /\ call.unit # "scoped"
      BY DEF CutOffSilently, SilentCutOff, NoLive, InScope
    <3>1. PICK ev, w : /\ Finish(ev, w) /\ w \in {"siteFailed", live.warning}
                       /\ cached # {} => ev # {} \/ ~(Enforcing /\ call.unit # "scoped")
                       /\ CutOffSilently /\ Enforcing => ev = cached
      BY <1>p, <2>1, <2>4, <3>0 DEF RereadAnnouncements
    <3>2. ~Documents
      BY <1>p DEF RereadAnnouncements
    <3> QED
      BY <2>1, <2>2, <3>1, <3>2, FinishStep DEF Keeps, NoWarning
  <2> QED
    BY <2>3, <2>4
<1> QED
  BY <1>a, <1>b, <1>c, <1>d, <1>e, <1>f, <1>g, <1>h, <1>i, <1>j, <1>k, <1>l, <1>m, <1>n,
     <1>o, <1>p DEF Step

\* Every step of a call and of the workers around it.
LEMMA NextKeeps == ToolInv /\ [Next]_vars => Keeps
<1> SUFFICES ASSUME ToolInv, [Next]_vars
             PROVE  Keeps
  OBVIOUS
<1>1. CASE Step
  BY <1>1, StepKeeps, CallAssumption
<1>2. CASE Tick \/ Others \/ Ended \/ UNCHANGED vars
  BY <1>2, OthersStep DEF Keeps
<1> QED
  BY <1>1, <1>2 DEF Next

\* The invariant of the call holds before it begins.
LEMMA ToolStart == Init => ToolInv
<1> SUFFICES ASSUME Init
             PROVE  ToolInv
  OBVIOUS
<1>1. Urls(cached) = {} /\ cached = {} /\ pc = "preflight" /\ live.warning = NoWarning
  BY DEF Init, Urls, NoLive
<1> QED
  BY <1>1 DEF Init, ToolInv, SilentIsVerified, FoundIsKept, NoWarning

\* The inductive invariant of a tool call (ToolExecutor.execute): what is read of the
\* map is stored, the step reached tells the decision taken, and an enforced live search
\* without a warning was complete when the evidence is read again, or follows a listing
\* refreshed for this call, or is a search by keyword cut off before it found anything.
THEOREM ToolInvariant == Spec => []ToolInv
<1>1. ToolInv /\ [Next]_vars => ToolInv'
  BY NextKeeps DEF Keeps
<1> QED
  BY <1>1, ToolStart, PTL DEF Spec

\* A silent answer of an enforced call is verified, but for the search by keyword that
\* the deadline cut off before it found anything (crawlers/search.py:231-240 and 326-331):
\* no other failure, cut-off or shortfall of a call is silent.
THEOREM SilenceVerified == Spec => []SilentIsVerified
<1>1. ToolInv => SilentIsVerified
  BY DEF ToolInv
<1> QED
  BY <1>1, ToolInvariant, PTL

\* What the database gave is not lost to a live search, in a call for documents and in
\* one for announcements that is enforced and not for a single unit.
THEOREM EvidenceKept == Spec => []FoundIsKept
<1>1. ToolInv => FoundIsKept
  BY DEF ToolInv
<1> QED
  BY <1>1, ToolInvariant, PTL

\* The database alone is trusted only when its pages are settled.
THEOREM TrustSettled == Spec => TrustedIsSettled
<1>1. ToolInv /\ [Next]_vars =>
        [verdict' = "useDb" /\ verdict # "useDb" =>
           LET cur == {r \in RowsOf(cached) : r.current}
           IN  cur # {} /\ \A r \in cur : Settled(r)]_vars
  BY NextKeeps DEF Keeps
<1> QED
  BY <1>1, ToolInvariant, PTL DEF Spec, TrustedIsSettled

\* A refresh the answer promises is due.
THEOREM PromiseDue == Spec => PromisedIsDue
<1>1. ToolInv /\ [Next]_vars =>
        [("scheduled" \in warnings' \ warnings) => Targets \cup TargetSources \subseteq due']_vars
  BY NextKeeps DEF Keeps
<1> QED
  BY <1>1, ToolInvariant, PTL DEF Spec, PromisedIsDue

-----------------------------------------------------------------------------
(* The search by keyword.  What is selected is stored already, still to be *)
(* stored, or counted as a failure; and a query that was never answered is *)
(* counted, or was given up because time was up.                           *)

\* What is left to store.
LeftToStore == {toStore[i] : i \in DOMAIN toStore}

KeywordInv ==
  /\ toStore \in Seq(AllItems)
  /\ failures \in BOOLEAN /\ unanswered \in BOOLEAN /\ timeUp \in BOOLEAN
  /\ stage = "store" /\ ~failures =>
       \A i \in DOMAIN Selected(found) : Selected(found)[i] \in ingested \cup LeftToStore
  /\ stage = "done" /\ ~failures =>
       \A i \in DOMAIN Selected(found) : Selected(found)[i] \in ingested
  /\ stage = "done" /\ reported.warning = "none" => ~failures
  /\ unanswered => failures \/ timeUp

\* What is selected is in a list.
LEMMA SelectedType ==
  ASSUME KeywordAssumption, NEW S
  PROVE  Selected(S) \in Seq(AllItems)
<1> DEFINE among == Among(Items, S)
<1>1. among \in Seq(AllItems) /\ ItemLimit \in Nat
  BY AmongType DEF KeywordAssumption, AllItems
<1> HIDE DEF among
<1>2. Len(among) \in Nat
  BY <1>1
<1>3. Upto(among, ItemLimit) \in Seq(AllItems)
  BY <1>1, <1>2 DEF Upto
<1> QED
  BY <1>3 DEF Selected, among

\* A request that is given up is counted, or the time is up.
LEMMA ToldStays ==
  ASSUME NEW f \in BOOLEAN, NEW u \in BOOLEAN, NEW t \in BOOLEAN, u => f \/ t,
         NEW f1, NEW u1, NEW t1, t1 \in {t, TRUE},
         \/ f1 = f /\ u1 = u
         \/ f1 = f /\ t1 = TRUE /\ u1 = TRUE
         \/ f1 = TRUE /\ u1 \in {u, TRUE}
  PROVE  /\ f1 \in BOOLEAN /\ u1 \in BOOLEAN /\ t1 \in BOOLEAN
         /\ u1 => f1 \/ t1
<1>1. t1 = t \/ t1 = TRUE
  OBVIOUS
<1>2. t1 \in BOOLEAN
  BY <1>1, Zenon
<1>3. CASE f1 = f /\ u1 = u
  BY <1>1, <1>2, <1>3, Zenon
<1>4. CASE f1 = f /\ t1 = TRUE /\ u1 = TRUE
  BY <1>2, <1>4, Zenon
<1>5. CASE f1 = TRUE /\ u1 \in {u, TRUE}
  BY <1>2, <1>5, Zenon
<1> QED
  BY <1>3, <1>4, <1>5, Zenon

\* Every step of a search by keyword keeps count of what it leaves out.
LEMMA KeywordStep ==
  ASSUME KeywordAssumption, KeywordInv, [KeywordNext]_keywordVars
  PROVE  KeywordInv'
<1>0. /\ toStore \in Seq(AllItems)
      /\ failures \in BOOLEAN /\ unanswered \in BOOLEAN /\ timeUp \in BOOLEAN
      /\ unanswered => failures \/ timeUp
  BY DEF KeywordInv
<1> DEFINE Told == /\ failures' \in BOOLEAN /\ unanswered' \in BOOLEAN /\ timeUp' \in BOOLEAN
                   /\ unanswered' => failures' \/ timeUp'
<1>1. ASSUME LoadForm \/ Answered \/ Unanswered \/ GivenUp
      PROVE  KeywordInv'
  <2>1. toStore' = toStore /\ stage' \in {"form", "query", "site"}
    BY <1>1 DEF LoadForm, Answered, Unanswered, GivenUp, NextQuery
  <2>2. CASE LoadForm \/ Answered
    <3>1. timeUp' \in {timeUp, TRUE}
      BY <2>2 DEF LoadForm, Answered, MayFail
    <3>2. \/ failures' = failures /\ unanswered' = unanswered
          \/ failures' = TRUE /\ unanswered' = TRUE
      BY <2>2 DEF LoadForm, Answered, Count
    <3>3. Told
      BY <1>0, <3>1, <3>2, ToldStays
    <3> QED
      BY <1>0, <2>1, <3>3 DEF KeywordInv
  <2>3. CASE Unanswered
    <3>1. timeUp' \in {timeUp, TRUE}
      BY <2>3 DEF Unanswered, MayFail
    <3>2. \/ failures' = failures /\ unanswered' = unanswered
          \/ failures' = TRUE /\ unanswered' = TRUE
      BY <2>3 DEF Unanswered, CountFailure, Count
    <3>3. Told
      BY <1>0, <3>1, <3>2, ToldStays
    <3> QED
      BY <1>0, <2>1, <3>3 DEF KeywordInv
  <2>4. CASE GivenUp
    <3>1. timeUp' = TRUE /\ failures' = failures /\ unanswered' = TRUE
      BY <2>4 DEF GivenUp
    <3>2. Told
      BY <1>0, <3>1, ToldStays
    <3> QED
      BY <1>0, <2>1, <3>2 DEF KeywordInv
  <2> QED
    BY <1>1, <2>2, <2>3, <2>4
<1>2. ASSUME SiteSearch
      PROVE  KeywordInv'
  <2>1. toStore' = Selected(found') /\ stage' = "store" /\ ingested' = ingested
    BY <1>2 DEF SiteSearch
  <2>2. toStore' \in Seq(AllItems)
    BY <2>1, SelectedType
  <2>3. Told
    <3>1. timeUp' \in {timeUp, TRUE}
      BY <1>2 DEF SiteSearch, MayFail
    <3>2. \/ failures' = failures /\ unanswered' = unanswered
          \/ \E missed \in BOOLEAN : /\ failures' = (failures \/ missed)
                                     /\ unanswered' = (unanswered \/ missed)
          \/ failures' = TRUE /\ unanswered' = TRUE
      BY <1>2, Zenon DEF SiteSearch, Count
    <3>3. \/ failures' = failures /\ unanswered' = unanswered
          \/ failures' = TRUE /\ unanswered' \in {unanswered, TRUE}
      <4>1. \A m \in BOOLEAN : m = TRUE \/ m = FALSE
        OBVIOUS
      <4>2. (failures \/ FALSE) = failures /\ (unanswered \/ FALSE) = unanswered
        BY <1>0, Zenon
      <4> QED
        BY <3>2, <4>1, <4>2, Zenon
    <3> QED
      BY <1>0, <3>1, <3>3, ToldStays
  <2>4. \A i \in DOMAIN Selected(found') : Selected(found')[i] \in LeftToStore'
    BY <2>1 DEF LeftToStore
  <2>5. Selected(found)' = Selected(found')
    BY DEF Selected
  <2> QED
    BY <2>1, <2>2, <2>3, <2>4, <2>5 DEF KeywordInv
<1>3. ASSUME Store
      PROVE  KeywordInv'
  <2>1. /\ stage = "store" /\ stage' = stage /\ toStore # <<>> /\ toStore' = Tail(toStore)
        /\ unanswered' = unanswered /\ found' = found /\ timeUp' \in {timeUp, TRUE}
    BY <1>3 DEF Store, MayFail
  <2>2. \/ ingested' = ingested \cup {Head(toStore)} /\ failures' = failures
        \/ failures' = TRUE
    BY <1>3 DEF Store, Count
  <2>3. LeftToStore \subseteq {Head(toStore)} \cup LeftToStore'
    <3>1. ASSUME NEW i \in DOMAIN toStore, i # 1
          PROVE  i - 1 \in DOMAIN Tail(toStore) /\ Tail(toStore)[i - 1] = toStore[i]
      BY <1>0, <2>1, <3>1
    <3>2. Head(toStore) = toStore[1]
      BY <1>0, <2>1
    <3>3. ASSUME NEW i \in DOMAIN toStore
          PROVE  toStore[i] \in {Head(toStore)} \cup LeftToStore'
      <4>1. CASE i = 1
        BY <3>2, <4>1
      <4>2. CASE i # 1
        <5>1. i - 1 \in DOMAIN toStore' /\ toStore'[i - 1] = toStore[i]
          BY <2>1, <3>1, <4>2
        <5> QED
          BY <5>1 DEF LeftToStore
      <4> QED
        BY <4>1, <4>2
    <3> QED
      BY <3>3 DEF LeftToStore
  <2>4. ~failures' => \A i \in DOMAIN Selected(found) :
          Selected(found)[i] \in ingested' \cup LeftToStore'
    BY <2>1, <2>2, <2>3 DEF KeywordInv
  <2>5. toStore' \in Seq(AllItems)
    BY <1>0, <2>1
  <2>7. Told
    <3>1. failures' = failures \/ failures' = TRUE
      BY <2>2
    <3> QED
      BY <1>0, <2>1, <3>1, ToldStays
  <2>6. Selected(found)' = Selected(found)
    BY <2>1 DEF Selected
  <2> QED
    BY <2>1, <2>4, <2>5, <2>6, <2>7 DEF KeywordInv
<1>4. ASSUME CutOffStore
      PROVE  KeywordInv'
  <2>1. toStore' = <<>> /\ failures' = TRUE /\ stage' = "store"
        /\ unanswered' = unanswered /\ timeUp' = timeUp
    BY <1>4 DEF CutOffStore, CutOffFailure, Count
  <2>2. toStore' \in Seq(AllItems)
    BY <2>1
  <2>3. Told
    BY <1>0, <2>1, ToldStays
  <2> QED
    BY <2>1, <2>2, <2>3 DEF KeywordInv
<1>5. ASSUME Report
      PROVE  KeywordInv'
  <2>1. /\ stage = "store" /\ toStore = <<>> /\ stage' = "done" /\ toStore' = toStore
        /\ failures' = failures /\ timeUp' = timeUp /\ found' = found
        /\ ingested' = ingested /\ unanswered' = unanswered
        /\ reported'.warning = IF successes = 0 THEN "failed"
                               ELSE IF failures THEN "partial" ELSE "none"
    BY <1>5 DEF Report, searches
  <2>2. LeftToStore = {}
    BY <2>1 DEF LeftToStore
  <2>3. Selected(found)' = Selected(found)
    BY <2>1 DEF Selected
  <2> QED
    BY <1>0, <2>1, <2>2, <2>3 DEF KeywordInv
<1>6. ASSUME UNCHANGED keywordVars
      PROVE  KeywordInv'
  <2>1. UNCHANGED <<stage, timeUp, found, failures, unanswered, toStore, ingested, reported>>
    BY <1>6 DEF keywordVars, searches
  <2>2. Selected(found)' = Selected(found) /\ LeftToStore' = LeftToStore
    BY <2>1 DEF Selected, LeftToStore
  <2> QED
    BY <2>1, <2>2 DEF KeywordInv
<1> QED
  BY <1>1, <1>2, <1>3, <1>4, <1>5, <1>6 DEF KeywordNext, KeywordEnded

\* A search by keyword without a warning has stored what it was to store, and had
\* an answer to every query or ran out of time (crawlers/search.py:227-236,
\* :287-290, :325-331).
THEOREM KeywordStored == KeywordSpec => []SilentIsStored
<1>1. KeywordInit => KeywordInv
  <2> SUFFICES ASSUME KeywordInit
               PROVE  KeywordInv
    OBVIOUS
  <2>1. toStore = <<>> /\ stage = "form" /\ failures = FALSE /\ unanswered = FALSE
        /\ timeUp \in BOOLEAN
    BY DEF KeywordInit
  <2>2. toStore \in Seq(AllItems)
    BY <2>1
  <2> QED
    BY <2>1, <2>2 DEF KeywordInv
<1>2. KeywordInv /\ [KeywordNext]_keywordVars => KeywordInv'
  BY KeywordStep, KeywordAssumption
<1>3. KeywordInv => SilentIsStored
  BY DEF KeywordInv, SilentIsStored
<1> QED
  BY <1>1, <1>2, <1>3, PTL DEF KeywordSpec

=============================================================================
