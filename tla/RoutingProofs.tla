--------------------------- MODULE RoutingProofs ---------------------------
(***************************************************************************)
(* Proofs about RoutingReload, for any catalog, however it changes and is  *)
(* paged, any sequence of edits, any broken files, failed requests,        *)
(* cancelled callers and crashes: one snapshot is in force, whole, and the *)
(* walk over the catalog finds what is listed.                             *)
(***************************************************************************)
EXTENDS RoutingReload, FiniteSetTheorems, WellFoundedInduction, TLAPS

\* A table of targets gives each ref a library that goes by it.
Right(found) == \A t \in DOMAIN found : RefOf[found[t]] = t

\* A walk resolves what c names: the refs found, looked for and
\* left are those of c, and no ref is found under another's library.
Resolves(w, c) ==
    /\ w.pc \in {"reading", "found"} => Right(w.found)
    /\ w.pc = "reading" => {w.wanted} \cup w.left \cup DOMAIN w.found = RefsIn(c)
    /\ w.pc = "found" => DOMAIN w.found = RefsIn(c)

Shaped(w) == DOMAIN w = {"pc", "wanted", "left", "received", "seen", "total",
                         "found", "healthy"}

\* Who has the walk: the lifespan's startup, a reload, or nobody.
WalkOwned ==
    /\ life \in {"down", "loaded", "resolving", "up"}
    /\ holder # Nobody => life = "up"
    /\ life = "up" /\ holder = Nobody => walk.pc = "idle"
    /\ life = "resolving" => Resolves(walk, conf)
    /\ holder # Nobody => Resolves(walk, reload.config)

\* The snapshot in force.
InForce ==
    /\ policies = Policies(Defaults, conf)
    /\ life = "up" => DOMAIN targets = RefsIn(conf) /\ Right(targets)

RoutingInv ==
    /\ conf \in Configs
    /\ DOMAIN reload = {"mtime", "config"} /\ reload.config \in Configs
    /\ Shaped(walk) /\ WalkOwned /\ InForce

\* The walk at its start, and no walk.
LEMMA LookForFields ==
    ASSUME NEW R, NEW found
    PROVE  LET w == LookFor(R, found)
               r == CHOOSE x \in R : TRUE
           IN  /\ Shaped(w)
               /\ w.pc = "reading" /\ w.wanted = r /\ w.left = R \ {r} /\ w.found = found
  BY DEF LookFor, Shaped

LEMMA NoWalkFields ==
    Shaped(NoWalk) /\ NoWalk.pc = "idle" /\ NoWalk.found = NoneFound
<1> DEFINE w == LookFor(Refs, NoneFound)
<1>1. Shaped(w) /\ w.found = NoneFound
  BY LookForFields
<1>2. NoWalk = [w EXCEPT !.pc = "idle", !.healthy = FALSE]
  BY DEF NoWalk
<1> HIDE DEF w
<1>3. QED
  BY <1>1, <1>2 DEF Shaped

LEMMA InitHolds == RoutingInit => RoutingInv
<1> SUFFICES ASSUME RoutingInit PROVE RoutingInv
  OBVIOUS
<1>1. Shaped(walk)
  BY NoWalkFields DEF RoutingInit, CatalogInit
<1>2. WalkOwned /\ InForce
  BY DEF RoutingInit, WalkOwned, InForce
<1>3. QED
  BY <1>1, <1>2, ConfigsAssumption DEF RoutingInit, RoutingInv, NoReload
\* A walk that begins, for every ref of c.
LEMMA ResolveStarts ==
    ASSUME NEW c, Resolve(RefsIn(c))
    PROVE  Shaped(walk') /\ Resolves(walk', c) /\ walk'.pc # "idle"
<1>1. CASE RefsIn(c) = {}
  <2>1. walk' = [NoWalk EXCEPT !.pc = "found"]
    BY <1>1 DEF Resolve
  <2>2. Shaped(walk') /\ walk'.pc = "found" /\ walk'.found = NoneFound
    BY <2>1, NoWalkFields DEF Shaped
  <2>3. QED
    BY <1>1, <2>2 DEF Resolves, Right, NoneFound
<1>2. CASE RefsIn(c) # {}
  <2>1. walk' = LookFor(RefsIn(c), NoneFound)
    BY <1>2 DEF Resolve
  <2>2. PICK r \in RefsIn(c) : /\ Shaped(walk') /\ walk'.pc = "reading"
                               /\ walk'.wanted = r /\ walk'.left = RefsIn(c) \ {r}
                               /\ walk'.found = NoneFound
    BY <1>2, <2>1, LookForFields
  <2>3. QED
    BY <2>2 DEF Resolves, Right, NoneFound
<1>3. QED
  BY <1>1, <1>2

\* A page read takes the walk on: a row found goes by the ref that was wanted.
LEMMA ReadPageKeeps ==
    ASSUME NEW c, Shaped(walk), ReadPage
    PROVE  Shaped(walk') /\ (Resolves(walk, c) => Resolves(walk', c))
<1> DEFINE page == Page(walk.wanted, walk.received)
           next == [walk EXCEPT !.received = @ + Cardinality(page),
                                !.seen = @ \cup Rows(page),
                                !.total = Cardinality(Results(walk.wanted))]
<1>1. walk.pc = "reading"
  BY DEF ReadPage
<1>2. ASSUME NEW d \in Exact(page), NEW found, found = WithFound(d),
             walk' = IF walk.left = {} THEN [NoWalk EXCEPT !.pc = "found", !.found = found]
                                       ELSE LookFor(walk.left, found)
      PROVE  Shaped(walk') /\ (Resolves(walk, c) => Resolves(walk', c))
  <2>1. RefOf[d] = walk.wanted
    BY DEF Exact
  <2>2. DOMAIN found = DOMAIN walk.found \cup {walk.wanted}
    BY <1>2 DEF WithFound
  <2>3. Resolves(walk, c) => Right(found)
    BY <1>1, <1>2, <2>1 DEF WithFound, Resolves, Right
  <2>4. CASE walk.left = {}
    <3>1. Shaped(walk') /\ walk'.pc = "found" /\ walk'.found = found
      BY <1>2, <2>4, NoWalkFields DEF Shaped
    <3>2. QED
      BY <1>1, <2>2, <2>3, <2>4, <3>1 DEF Resolves
  <2>5. CASE walk.left # {}
    <3>1. PICK r \in walk.left : /\ Shaped(walk') /\ walk'.pc = "reading"
                                 /\ walk'.wanted = r /\ walk'.left = walk.left \ {r}
                                 /\ walk'.found = found
      BY <1>2, <2>5, LookForFields
    <3>2. QED
      BY <1>1, <2>2, <2>3, <3>1 DEF Resolves
  <2>6. QED
    BY <2>4, <2>5
<1>3. /\ Shaped(next) /\ next.pc = "reading" /\ next.wanted = walk.wanted
      /\ next.left = walk.left /\ next.found = walk.found
  BY <1>1 DEF Shaped
<1> HIDE DEF next
<1>4. ASSUME NEW v \in {"invisible", "incomplete"}, walk' = [next EXCEPT !.pc = v]
      PROVE  Shaped(walk') /\ Resolves(walk', c)
  BY <1>3, <1>4 DEF Shaped, Resolves
<1>5. CASE walk' = next
  BY <1>1, <1>3, <1>5 DEF Resolves
<1>6. \/ \E d \in Exact(page) :
            walk' = IF walk.left = {}
                    THEN [NoWalk EXCEPT !.pc = "found", !.found = WithFound(d)]
                    ELSE LookFor(walk.left, WithFound(d))
      \/ walk' = next
      \/ \E v \in {"invisible", "incomplete"} : walk' = [next EXCEPT !.pc = v]
  BY DEF ReadPage, next
<1>7. QED
  BY <1>2, <1>4, <1>5, <1>6

-----------------------------------------------------------------------------
(* The steps.                                                              *)

LEMMA StartKeeps == ASSUME RoutingInv, Start PROVE RoutingInv'
<1>1. CASE LoadAtStart
  BY <1>1 DEF LoadAtStart, RoutingInv, WalkOwned, InForce, catalogVars
<1>2. CASE StartResolving
  <2>1. Shaped(walk') /\ Resolves(walk', conf)
    BY <1>2, ResolveStarts DEF StartResolving
  <2>2. QED
    BY <1>2, <2>1 DEF StartResolving, RoutingInv, WalkOwned, InForce
<1>3. CASE Initialized
  <2>1. DOMAIN targets' = RefsIn(conf) /\ Right(targets')
    BY <1>3 DEF Initialized, RoutingInv, WalkOwned, Resolves
  <2>2. holder = Nobody
    BY <1>3 DEF Initialized, RoutingInv, WalkOwned
  <2>3. QED
    BY <1>3, <2>1, <2>2, NoWalkFields DEF Initialized, RoutingInv, WalkOwned, InForce
<1>4. CASE StartupFails
  BY <1>4, NoWalkFields, ConfigsAssumption
     DEF StartupFails, Stop, RoutingInv, WalkOwned, InForce, NoReload
<1>5. QED
  BY <1>1, <1>2, <1>3, <1>4 DEF Start

LEMMA GiveUpKeeps == ASSUME RoutingInv, GiveUp PROVE RoutingInv'
  BY NoWalkFields, ConfigsAssumption DEF GiveUp, RoutingInv, WalkOwned, InForce, NoReload, Resolves

LEMMA ReloadKeeps == ASSUME RoutingInv, Reload PROVE RoutingInv'
<1>1. ASSUME NEW p \in Callers, Sample(p) PROVE RoutingInv'
  <2>1. CASE UNCHANGED <<holder, reload>>
    BY <1>1, <2>1 DEF Sample, RoutingInv, WalkOwned, InForce, catalogVars
  <2>2. CASE holder' = p /\ reload' = [NoReload EXCEPT !.mtime = file.mtime]
    <3>1. walk.pc = "idle"
      BY <1>1 DEF Sample, RoutingInv, WalkOwned
    <3>2. QED
      BY <1>1, <2>2, <3>1, ConfigsAssumption
         DEF Sample, RoutingInv, WalkOwned, InForce, NoReload, Resolves, catalogVars
  <2>3. QED
    BY <1>1, <2>1, <2>2 DEF Sample
<1>2. CASE LoadFails \/ ResolutionFails
  BY <1>2, GiveUpKeeps DEF LoadFails, ResolutionFails
<1>3. CASE Load
  <2>1. Shaped(walk') /\ Resolves(walk', file.content)
    BY <1>3, ResolveStarts DEF Load
  <2>2. reload'.config = file.content /\ DOMAIN reload' = {"mtime", "config"}
    BY <1>3 DEF Load, RoutingInv
  <2>3. QED
    BY <1>3, <2>1, <2>2 DEF Load, Loading, RoutingInv, WalkOwned, InForce
<1>4. CASE Reloaded
  <2>1. DOMAIN targets' = RefsIn(conf') /\ Right(targets')
    BY <1>4 DEF Reloaded, Replace, RoutingInv, WalkOwned, Resolves
  <2>2. QED
    BY <1>4, <2>1, NoWalkFields, ConfigsAssumption
       DEF Reloaded, Replace, RoutingInv, WalkOwned, InForce, NoReload
<1>5. QED
  BY <1>1, <1>2, <1>3, <1>4 DEF Reload

\* Everything else but a page read leaves the walk's refs and findings alone.
LEMMA WalkStepKeeps ==
    ASSUME RoutingInv, UNCHANGED <<routerVars>>, Shaped(walk'),
           \A c : Resolves(walk, c) => Resolves(walk', c),
           walk.pc = "idle" => walk'.pc = "idle"
    PROVE  RoutingInv'
  BY DEF RoutingInv, WalkOwned, InForce, routerVars

LEMMA RoutingStep == RoutingInv /\ [RoutingNext]_routingVars => RoutingInv'
<1> SUFFICES ASSUME RoutingInv, [RoutingNext]_routingVars PROVE RoutingInv'
  OBVIOUS
<1>1. CASE Start \/ Reload
  BY <1>1, StartKeeps, ReloadKeeps
<1>2. CASE Reading
  <2>1. Shaped(walk') /\ \A c : Resolves(walk, c) => Resolves(walk', c)
    BY <1>2, ReadPageKeeps DEF Reading, RoutingInv
  <2>2. walk.pc # "idle"
    BY <1>2 DEF Reading, ReadPage
  <2>3. QED
    BY <1>2, <2>1, <2>2, WalkStepKeeps DEF Reading
<1>3. CASE Refused
  <2>1. Shaped(walk') /\ walk'.pc = "error" /\ walk'.found = walk.found
    BY <1>3 DEF Refused, RequestFails, RoutingInv, Shaped
  <2>2. \A c : Resolves(walk, c) => Resolves(walk', c)
    BY <2>1 DEF Resolves
  <2>3. QED
    BY <1>3, <2>1, <2>2, WalkStepKeeps DEF Refused, RequestFails
<1>4. CASE Die
  BY <1>4, NoWalkFields, ConfigsAssumption DEF Die, Stop, RoutingInv, WalkOwned, InForce, NoReload
<1>5. CASE CancelCaller
  BY <1>5, GiveUpKeeps DEF CancelCaller
<1>6. CASE EditFile
  BY <1>6, WalkStepKeeps DEF EditFile, RoutingInv, catalogVars
<1>7. CASE CatalogChanges /\ UNCHANGED <<file, routerVars, failures>>
  <2>1. /\ Shaped(walk') /\ walk'.pc = walk.pc /\ walk'.found = walk.found
        /\ walk'.wanted = walk.wanted /\ walk'.left = walk.left
    BY <1>7 DEF CatalogChanges, Appear, Vanish, RoutingInv, Shaped
  <2>2. \A c : Resolves(walk, c) => Resolves(walk', c)
    BY <2>1 DEF Resolves
  <2>3. QED
    BY <1>7, <2>1, <2>2, WalkStepKeeps
<1>8. CASE UNCHANGED routingVars
  BY <1>8, WalkStepKeeps DEF routingVars, catalogVars, RoutingInv
<1>9. QED
  BY <1>1, <1>2, <1>3, <1>4, <1>5, <1>6, <1>7, <1>8 DEF RoutingNext

-----------------------------------------------------------------------------
(* What the invariant says of routing.                                     *)

LEMMA LeastIsThere ==
    ASSUME NEW S \in SUBSET Nat, S # {}
    PROVE  Min(S) \in S
<1>1. PICK m \in S : \A n \in S : ~(<<n, m>> \in OpToRel(<, Nat))
  BY NatLessThanWellFounded, WFMin
<1>2. \A n \in S : ~(n < m)
  BY <1>1, Zenon DEF OpToRel
<1>3. \A n \in S : m <= n
  BY <1>2
<1>4. QED
  BY <1>3 DEF Min

\* A match names a ref of the config.
LEMMA MatchIsNamed ==
    ASSUME NEW c \in Configs, NEW facts, FirstMatch(c, facts) # Unset
    PROVE  FirstMatch(c, facts) \in RefsIn(c)
<1> DEFINE hits == {n \in DOMAIN c.rules : c.rules[n].match \subseteq facts}
<1>1. DOMAIN c.rules \subseteq Nat
  BY ConfigsAssumption
<1>2. CASE hits = {}
  BY <1>2 DEF FirstMatch, RefsIn
<1>3. CASE hits # {}
  <2>1. Min(hits) \in hits
    BY <1>1, <1>3, LeastIsThere
  <2>2. FirstMatch(c, facts) = c.rules[Min(hits)].target
    BY <1>3 DEF FirstMatch
  <2>3. QED
    BY <2>1, <2>2 DEF RefsIn
<1>4. QED
  BY <1>2, <1>3

LEMMA WholeSnapshot == RoutingInv => SnapshotIsWhole
<1> SUFFICES ASSUME RoutingInv, life = "up" PROVE SnapshotIsWhole
  BY DEF SnapshotIsWhole
<1>1. DOMAIN targets = RefsIn(conf) /\ Right(targets) /\ conf \in Configs
  BY DEF RoutingInv, InForce
<1>2. ASSUME NEW facts \in SUBSET Facts, RouteOf(facts) # Unset
      PROVE  RefOf[RouteOf(facts)] = FirstMatch(conf, facts)
  <2>1. FirstMatch(conf, facts) # Unset /\ RouteOf(facts) = targets[FirstMatch(conf, facts)]
    BY <1>2 DEF RouteOf
  <2>2. QED
    BY <1>1, <2>1, MatchIsNamed DEF Right
<1>3. ASSUME NEW k \in Kinds
      PROVE  ForKind(k) = IF k \in DOMAIN conf.overrides
                          THEN Merge(Defaults, conf.overrides[k]) ELSE Defaults
  BY DEF RoutingInv, InForce, ForKind, Policies
<1>4. QED
  BY <1>1, <1>2, <1>3 DEF SnapshotIsWhole

\* A connector that serves routes by one configuration, whole, however many
\* edits, broken files, reloads, failed requests, cancelled callers and crashes
\* came before, and whatever the catalog does meanwhile: every target it names
\* is resolved, to a library of that name, and every kind has the policy it gives.
THEOREM OneSnapshot == RoutingSpec => []SnapshotIsWhole
<1>1. RoutingInit => RoutingInv
  BY InitHolds
<1>2. RoutingInv /\ [RoutingNext]_routingVars => RoutingInv'
  BY RoutingStep
<1>3. RoutingInv => SnapshotIsWhole
  BY WholeSnapshot
<1>4. QED
  BY <1>1, <1>2, <1>3, PTL DEF RoutingSpec


-----------------------------------------------------------------------------
(* The catalog and its pages.                                              *)

LEMMA InsertFacts ==
    ASSUME NEW S, NEW s \in Seq(S), NEW k \in 1 .. Len(s) + 1, NEW d \in S
    PROVE  LET t == InsertAt(s, k, d)
           IN  /\ t \in Seq(S) /\ Len(t) = Len(s) + 1
               /\ \A n \in 1 .. Len(s) : t[IF n < k THEN n ELSE n + 1] = s[n]
<1> DEFINE u == SubSeq(s, 1, k - 1)
           v == SubSeq(s, k, Len(s))
           uv == u \o <<d>>
           t == uv \o v
<1>1. u \in Seq(S) /\ Len(u) = k - 1 /\ \A n \in 1 .. k - 1 : u[n] = s[n]
  OBVIOUS
<1>2. v \in Seq(S) /\ Len(v) = Len(s) - k + 1 /\ \A n \in 1 .. Len(s) - k + 1 : v[n] = s[k + n - 1]
  OBVIOUS
<1> HIDE DEF u, v
<1>3. uv \in Seq(S) /\ Len(uv) = k /\ \A n \in 1 .. k - 1 : uv[n] = s[n]
  BY <1>1
<1> HIDE DEF uv
<1>4. t \in Seq(S) /\ Len(t) = Len(s) + 1
  <2>1. t \in Seq(S) /\ Len(t) = Len(uv) + Len(v)
    <3>1. uv \in Seq(S) /\ v \in Seq(S)
      BY <1>2, <1>3
    <3>2. QED
      BY <3>1
  <2>2. k \in Int /\ Len(s) \in Int
    OBVIOUS
  <2>3. QED
    BY <1>2, <1>3, <2>1, <2>2
<1>5. ASSUME NEW n \in 1 .. Len(s) PROVE t[IF n < k THEN n ELSE n + 1] = s[n]
  <2>1. CASE n < k
    <3>1. n \in 1 .. k - 1 /\ n \in 1 .. k
      BY <2>1
    <3>2. t[n] = uv[n]
      BY <1>2, <1>3, <3>1
    <3>3. QED
      BY <1>3, <2>1, <3>1, <3>2
  <2>2. CASE ~(n < k)
    <3>1. n + 1 - k \in 1 .. Len(s) - k + 1 /\ k + (n + 1 - k) - 1 = n
      BY <2>2
    <3>2. v[n + 1 - k] = s[n]
      BY <1>2, <3>1
    <3>3. t[n + 1] = v[n + 1 - k]
      BY <1>2, <1>3, <2>2
    <3>4. QED
      BY <2>2, <3>2, <3>3
  <2>3. QED
    BY <2>1, <2>2
<1>6. InsertAt(s, k, d) = t
  BY DEF InsertAt, uv, u, v
<1>7. QED
  BY <1>4, <1>5, <1>6

LEMMA RemoveFacts ==
    ASSUME NEW S, NEW s \in Seq(S), NEW k \in 1 .. Len(s)
    PROVE  RemoveAt(s, k) \in Seq(S)
  BY DEF RemoveAt

\* The search results among s for r, and the ones up to place n.
HitsIn(s, r)  == {n \in DOMAIN s : RefOf[s[n]] \in Hits[r]}
UpTo(s, r, n) == {m \in HitsIn(s, r) : m <= n}

LEMMA HitsFacts ==
    ASSUME NEW s \in Seq(LibraryIds), NEW r, NEW T \in SUBSET HitsIn(s, r)
    PROVE  /\ HitsIn(s, r) \subseteq 1 .. Len(s)
           /\ IsFiniteSet(T) /\ Cardinality(T) \in Nat
           /\ Cardinality(T) <= Cardinality(HitsIn(s, r))
           /\ Cardinality(HitsIn(s, r)) \in Nat
<1>1. HitsIn(s, r) \subseteq 1 .. Len(s)
  BY DEF HitsIn
<1>2. IsFiniteSet(1 .. Len(s))
  BY FS_Interval
<1>3. IsFiniteSet(HitsIn(s, r))
  BY <1>1, <1>2, FS_Subset
<1>4. IsFiniteSet(T) /\ Cardinality(T) <= Cardinality(HitsIn(s, r))
  BY <1>3, FS_Subset
<1>5. QED
  BY <1>1, <1>3, <1>4, FS_CardinalityType

\* A library that appears moves no row forward in the results.
LEMMA InsertKeepsRank ==
    ASSUME NEW s \in Seq(LibraryIds), NEW k \in 1 .. Len(s) + 1, NEW d \in LibraryIds,
           NEW r, NEW n \in 1 .. Len(s), NEW t, t = InsertAt(s, k, d),
           NEW n2, n2 = IF n < k THEN n ELSE n + 1
    PROVE  /\ n2 \in DOMAIN t /\ t[n2] = s[n]
           /\ Cardinality(UpTo(s, r, n)) <= Cardinality(UpTo(t, r, n2))
<1> DEFINE f == [m \in UpTo(s, r, n) |-> IF m < k THEN m ELSE m + 1]
<1>1. t \in Seq(LibraryIds) /\ Len(t) = Len(s) + 1
  BY InsertFacts
<1>2. \A m \in 1 .. Len(s) : t[IF m < k THEN m ELSE m + 1] = s[m]
  BY InsertFacts
<1>3. n2 \in DOMAIN t /\ t[n2] = s[n]
  BY <1>1, <1>2
<1>4. ASSUME NEW m \in UpTo(s, r, n) PROVE f[m] \in UpTo(t, r, n2)
  <2>1. m \in 1 .. Len(s) /\ m <= n /\ RefOf[s[m]] \in Hits[r]
    BY DEF UpTo, HitsIn
  <2>2. f[m] = IF m < k THEN m ELSE m + 1
    OBVIOUS
  <2>3. f[m] \in 1 .. Len(s) + 1 /\ f[m] <= n2
    BY <2>1, <2>2
  <2>4. t[f[m]] = s[m]
    BY <1>2, <2>1, <2>2
  <2>5. QED
    BY <1>1, <2>1, <2>3, <2>4 DEF UpTo, HitsIn
<1>5. UpTo(s, r, n) \subseteq Nat
  BY DEF UpTo, HitsIn
<1>6. f \in Injection(UpTo(s, r, n), UpTo(t, r, n2))
  <2>1. f \in [UpTo(s, r, n) -> UpTo(t, r, n2)]
    BY <1>4
  <2>2. \A x, y \in UpTo(s, r, n) : f[x] = f[y] => x = y
    BY <1>5
  <2>3. QED
    BY <2>1, <2>2 DEF Injection, IsInjective
<1>7. IsFiniteSet(UpTo(t, r, n2))
  BY <1>1, HitsFacts DEF UpTo
<1>8. QED
  BY <1>3, <1>6, <1>7, FS_Injection

\* Results further on have a higher rank.
LEMMA RankGrows ==
    ASSUME NEW s \in Seq(LibraryIds), NEW r, NEW m \in HitsIn(s, r), NEW n \in HitsIn(s, r),
           m < n
    PROVE  Cardinality(UpTo(s, r, m)) < Cardinality(UpTo(s, r, n))
<1>1. UpTo(s, r, m) \subseteq UpTo(s, r, n)
  BY DEF UpTo, HitsIn
<1>2. n \in UpTo(s, r, n) /\ n \notin UpTo(s, r, m)
  BY DEF UpTo, HitsIn
<1>3. IsFiniteSet(UpTo(s, r, n)) /\ IsFiniteSet(UpTo(s, r, m))
  BY HitsFacts DEF UpTo
<1>4. /\ Cardinality(UpTo(s, r, m)) <= Cardinality(UpTo(s, r, n))
      /\ Cardinality(UpTo(s, r, m)) # Cardinality(UpTo(s, r, n))
  BY <1>1, <1>2, <1>3, FS_Subset
<1>5. Cardinality(UpTo(s, r, m)) \in Nat /\ Cardinality(UpTo(s, r, n)) \in Nat
  BY <1>3, FS_CardinalityType
<1>6. QED
  BY <1>4, <1>5

\* A page has at most Clamp rows.
LEMMA PageIsBounded ==
    ASSUME NEW s \in Seq(LibraryIds), NEW r, NEW from \in Nat, NEW P,
           P = {n \in HitsIn(s, r) : Cardinality(UpTo(s, r, n)) \in from + 1 .. from + Clamp}
    PROVE  Cardinality(P) \in Nat /\ Cardinality(P) <= Clamp
<1> DEFINE f == [n \in P |-> Cardinality(UpTo(s, r, n))]
<1>1. \A m, n \in P : f[m] = f[n] => m = n
  <2> SUFFICES ASSUME NEW m \in P, NEW n \in P, m # n PROVE f[m] # f[n]
    OBVIOUS
  <2>1. m \in Nat /\ n \in Nat
    BY DEF HitsIn
  <2>2. \A x, y \in P : x < y => f[x] < f[y] /\ f[x] \in Nat /\ f[y] \in Nat
    BY RankGrows, PageAssumption
  <2>3. QED
    BY <2>1, <2>2
<1>2. f \in Injection(P, from + 1 .. from + Clamp)
  BY <1>1 DEF Injection, IsInjective
<1>3. IsFiniteSet(from + 1 .. from + Clamp) /\ Cardinality(from + 1 .. from + Clamp) = Clamp
  BY FS_Interval, PageAssumption
<1>4. QED
  BY <1>2, <1>3, FS_Injection, FS_CardinalityType


-----------------------------------------------------------------------------
(* A listed library is found.                                              *)

\* A walk whose ref was listed when it began, with nothing gone since, has not
\* been past the row yet.
Ahead ==
    walk.pc = "reading" /\ walk.healthy =>
        \E n \in 1 .. Len(catalog) : /\ RefOf[catalog[n]] = walk.wanted
                                     /\ Rank(walk.wanted, n) > walk.received

\* What is kept of the catalog and the walk over it.
WalkInv == CatalogTypeOK /\ (HonoursOffset => Ahead /\ InvisibleIsHidden)

LEMMA RankIs == ASSUME NEW r, NEW n PROVE Rank(r, n) = Cardinality(UpTo(catalog, r, n))
  BY DEF Rank, Results, UpTo, HitsIn

LEMMA FirstRank ==
    ASSUME NEW s \in Seq(LibraryIds), NEW r, NEW n \in HitsIn(s, r)
    PROVE  Cardinality(UpTo(s, r, n)) \in Nat /\ Cardinality(UpTo(s, r, n)) > 0
<1>1. n \in UpTo(s, r, n)
  BY DEF UpTo, HitsIn
<1>2. IsFiniteSet(UpTo(s, r, n))
  BY HitsFacts DEF UpTo
<1>3. QED
  BY <1>1, <1>2, FS_CardinalityType, FS_EmptySet

\* A walk that begins is well typed, and ahead of it is all of the catalog.
LEMMA LookForHolds ==
    ASSUME NEW R \in SUBSET Refs, R # {},
           NEW found \in UNION {[S -> LibraryIds] : S \in SUBSET Refs},
           catalog \in Seq(LibraryIds), walk' = LookFor(R, found), catalog' = catalog
    PROVE  walk' \in Walk /\ Ahead' /\ InvisibleIsHidden'
<1>1. PICK r \in R : walk' = [pc |-> "reading", wanted |-> r, left |-> R \ {r},
                              received |-> 0, seen |-> {}, total |-> 0,
                              found |-> found, healthy |-> Visible(r)]
  BY DEF LookFor
<1>2. walk' \in Walk
  BY <1>1 DEF Walk, Verdicts, Visible
<1>3. ASSUME walk'.healthy PROVE Ahead'
  <2>1. PICK n \in 1 .. Len(catalog) : RefOf[catalog[n]] = r
    BY <1>1, <1>3 DEF Visible
  <2>2. n \in HitsIn(catalog, r)
    BY <2>1, HitsAssumption DEF HitsIn
  <2>3. Rank(r, n)' > 0
    BY <2>2, FirstRank, RankIs DEF Rank, Results
  <2>4. QED
    BY <1>1, <2>1, <2>3 DEF Ahead
<1>4. QED
  BY <1>1, <1>2, <1>3 DEF Ahead, InvisibleIsHidden

LEMMA NoWalkTyped ==
    ASSUME NEW v \in {"idle", "found"},
           NEW found \in UNION {[S -> LibraryIds] : S \in SUBSET Refs}
    PROVE  [NoWalk EXCEPT !.pc = v, !.found = found] \in Walk /\ NoWalk \in Walk
<1> DEFINE w == LookFor(Refs, NoneFound)
           r == CHOOSE x \in Refs : TRUE
<1>1. NoneFound \in UNION {[S -> LibraryIds] : S \in SUBSET Refs}
  <2>1. NoneFound \in [{} -> LibraryIds] /\ {} \in SUBSET Refs
    BY DEF NoneFound
  <2>2. QED
    BY <2>1
<1>2. r \in Refs
  BY RefsAssumption
<1>3. w = [pc |-> "reading", wanted |-> r, left |-> Refs \ {r}, received |-> 0,
           seen |-> {}, total |-> 0, found |-> NoneFound, healthy |-> Visible(r)]
  BY DEF LookFor
<1>4. NoWalk = [w EXCEPT !.pc = "idle", !.healthy = FALSE]
  BY DEF NoWalk
<1> HIDE DEF r, w
<1>5. w \in Walk
  BY <1>1, <1>2, <1>3 DEF Walk, Visible
<1>6. NoWalk \in Walk
  BY <1>4, <1>5 DEF Walk
<1>7. v \in {"idle", "reading"} \cup Verdicts
  BY DEF Verdicts
<1>8. [NoWalk EXCEPT !.pc = v, !.found = found] \in Walk
  BY <1>6, <1>7 DEF Walk
<1>9. QED
  BY <1>6, <1>8


\* A page, its rows, and the walk once it is read.
LEMMA PageFacts ==
    ASSUME CatalogTypeOK, NEW page, page = Page(walk.wanted, walk.received), NEW next,
           next = [walk EXCEPT !.received = @ + Cardinality(page),
                               !.seen = @ \cup Rows(page),
                               !.total = Cardinality(Results(walk.wanted))]
    PROVE  /\ page \subseteq 1 .. Len(catalog) /\ Rows(page) \subseteq LibraryIds
           /\ Cardinality(page) \in Nat /\ Cardinality(page) <= Clamp
           /\ Cardinality(Results(walk.wanted)) \in Nat
           /\ next \in Walk
           /\ next.received = walk.received + Cardinality(page)
           /\ next.pc = walk.pc /\ next.wanted = walk.wanted /\ next.healthy = walk.healthy
<1> DEFINE from == IF HonoursOffset THEN walk.received ELSE 0
           r == walk.wanted
<1>1. catalog \in Seq(LibraryIds) /\ walk \in Walk /\ r \in Refs /\ walk.received \in Nat
  BY DEF CatalogTypeOK, Walk
<1>2. Results(r) = HitsIn(catalog, r)
  BY DEF Results, HitsIn
<1>3. page = {n \in HitsIn(catalog, r) : Cardinality(UpTo(catalog, r, n)) \in from + 1 .. from + Clamp}
  BY <1>2, RankIs DEF Page
<1>4. from \in Nat
  BY <1>1
<1> HIDE DEF from, r
<1>5. Cardinality(page) \in Nat /\ Cardinality(page) <= Clamp
  BY <1>1, <1>3, <1>4, PageIsBounded
<1>6. page \subseteq 1 .. Len(catalog)
  BY <1>1, <1>3, HitsFacts
<1>7. Rows(page) \subseteq LibraryIds
  BY <1>1, <1>6 DEF Rows
<1>8. Cardinality(Results(r)) \in Nat
  BY <1>1, <1>2, HitsFacts
<1>9. /\ DOMAIN walk = {"pc", "wanted", "left", "received", "seen", "total", "found", "healthy"}
      /\ walk.seen \subseteq LibraryIds
  BY <1>1 DEF Walk
<1>10. /\ next.received = walk.received + Cardinality(page)
       /\ next.pc = walk.pc /\ next.wanted = walk.wanted /\ next.healthy = walk.healthy
  BY <1>9
<1>11. walk.received + Cardinality(page) \in Nat /\ walk.seen \cup Rows(page) \subseteq LibraryIds
  BY <1>1, <1>5, <1>7, <1>9
<1>12. next \in Walk
  BY <1>1, <1>8, <1>11 DEF Walk, r
<1>13. QED
  BY <1>5, <1>6, <1>7, <1>8, <1>10, <1>12 DEF r

\* If the wanted row is not on the page, it is further on.
LEMMA StillAhead ==
    ASSUME CatalogTypeOK, Ahead, HonoursOffset, walk.pc = "reading", walk.healthy,
           NEW page, page = Page(walk.wanted, walk.received), Exact(page) = {}
    PROVE  /\ ~Exhausted(page)
           /\ \E n \in 1 .. Len(catalog) :
                 /\ RefOf[catalog[n]] = walk.wanted
                 /\ Rank(walk.wanted, n) > walk.received + Cardinality(page)
<1>1. catalog \in Seq(LibraryIds) /\ walk.wanted \in Refs /\ walk.received \in Nat
  BY DEF CatalogTypeOK, Walk
<1>2. PICK n \in 1 .. Len(catalog) : /\ RefOf[catalog[n]] = walk.wanted
                                     /\ Rank(walk.wanted, n) > walk.received
  BY DEF Ahead
<1>3. n \in Results(walk.wanted)
  BY <1>1, <1>2, HitsAssumption DEF Results
<1>4. n \notin page
  <2>1. n \in page => catalog[n] \in Exact(page)
    BY <1>2 DEF Exact, Rows
  <2>2. QED
    BY <2>1
<1>5. Cardinality(page) \in Nat /\ Cardinality(page) <= Clamp /\ Cardinality(Results(walk.wanted)) \in Nat
  BY PageFacts
<1>6. /\ Rank(walk.wanted, n) \in Nat
      /\ Rank(walk.wanted, n) <= Cardinality(Results(walk.wanted))
  <2>1. Results(walk.wanted) = HitsIn(catalog, walk.wanted)
    BY DEF Results, HitsIn
  <2>2. UpTo(catalog, walk.wanted, n) \subseteq HitsIn(catalog, walk.wanted)
    BY DEF UpTo
  <2>3. QED
    BY <1>1, <2>1, <2>2, HitsFacts, RankIs
<1>7. Rank(walk.wanted, n) \notin walk.received + 1 .. walk.received + Clamp
  BY <1>3, <1>4 DEF Page
<1>8. Rank(walk.wanted, n) > walk.received + Cardinality(page)
  BY <1>1, <1>2, <1>5, <1>6, <1>7, PageAssumption
<1>9. ~Exhausted(page)
  BY <1>1, <1>5, <1>6, <1>8 DEF Exhausted
<1>10. QED
  BY <1>2, <1>8, <1>9

LEMMA WithFoundTyped ==
    ASSUME CatalogTypeOK, NEW d \in LibraryIds
    PROVE  WithFound(d) \in UNION {[S -> LibraryIds] : S \in SUBSET Refs}
<1>1. PICK S \in SUBSET Refs : walk.found \in [S -> LibraryIds]
  BY DEF CatalogTypeOK, Walk
<1>2. walk.wanted \in Refs
  BY DEF CatalogTypeOK, Walk
<1>3. WithFound(d) \in [S \cup {walk.wanted} -> LibraryIds] /\ S \cup {walk.wanted} \in SUBSET Refs
  BY <1>1, <1>2 DEF WithFound
<1>4. QED
  BY <1>3

LEMMA ReadPageHolds == ASSUME WalkInv, ReadPage PROVE WalkInv'
<1> DEFINE page == Page(walk.wanted, walk.received)
           next == [walk EXCEPT !.received = @ + Cardinality(page),
                                !.seen = @ \cup Rows(page),
                                !.total = Cardinality(Results(walk.wanted))]
<1>1. /\ walk.pc = "reading" /\ CatalogTypeOK /\ (HonoursOffset => Ahead)
      /\ catalog' = catalog /\ changes' = changes
  BY DEF ReadPage, WalkInv
<1>2. /\ page \subseteq 1 .. Len(catalog) /\ Rows(page) \subseteq LibraryIds
      /\ next \in Walk
      /\ next.received = walk.received + Cardinality(page)
      /\ next.pc = walk.pc /\ next.wanted = walk.wanted /\ next.healthy = walk.healthy
  BY <1>1, PageFacts
<1>3. \/ \E d \in Exact(page) :
            walk' = IF walk.left = {}
                    THEN [NoWalk EXCEPT !.pc = "found", !.found = WithFound(d)]
                    ELSE LookFor(walk.left, WithFound(d))
      \/ Exact(page) = {} /\ Exhausted(page) /\ walk' = [next EXCEPT !.pc = "invisible"]
      \/ /\ Exact(page) = {} /\ ~Exhausted(page)
         /\ walk' = [next EXCEPT !.pc = "incomplete"] \/ walk' = next
  BY DEF ReadPage
<1>4. (HonoursOffset /\ walk.healthy /\ Exact(page) = {}) =>
          /\ ~Exhausted(page)
          /\ \E n \in 1 .. Len(catalog) :
                /\ RefOf[catalog[n]] = walk.wanted
                /\ Rank(walk.wanted, n) > walk.received + Cardinality(page)
  BY <1>1, StillAhead
<1> HIDE DEF page, next
<1>5. SUFFICES walk' \in Walk /\ (HonoursOffset => Ahead' /\ InvisibleIsHidden')
  BY <1>1 DEF WalkInv, CatalogTypeOK
<1>6. ASSUME NEW d \in Exact(page), NEW found, found = WithFound(d),
             walk' = IF walk.left = {}
                     THEN [NoWalk EXCEPT !.pc = "found", !.found = found]
                     ELSE LookFor(walk.left, found)
      PROVE  walk' \in Walk /\ Ahead' /\ InvisibleIsHidden'
  <2>1. d \in LibraryIds
    BY <1>2 DEF Exact
  <2>2. found \in UNION {[S -> LibraryIds] : S \in SUBSET Refs}
    BY <1>1, <1>6, <2>1, WithFoundTyped
  <2>3. CASE walk.left = {}
    <3>1. walk' \in Walk
      BY <1>6, <2>2, <2>3, NoWalkTyped
    <3>2. walk'.pc = "found"
      BY <1>6, <2>3, NoWalkFields DEF Shaped
    <3>3. QED
      BY <3>1, <3>2 DEF Ahead, InvisibleIsHidden
  <2>4. CASE walk.left # {}
    <3>1. walk' = LookFor(walk.left, found)
      BY <1>6, <2>4
    <3>2. walk.left \in SUBSET Refs /\ catalog \in Seq(LibraryIds)
      BY <1>1 DEF CatalogTypeOK, Walk
    <3>3. QED
      BY <1>1, <2>2, <2>4, <3>1, <3>2, LookForHolds
  <2>5. QED
    BY <2>3, <2>4
<1>7. CASE Exact(page) = {} /\ Exhausted(page) /\ walk' = [next EXCEPT !.pc = "invisible"]
  <2>1. walk' \in Walk /\ walk'.pc = "invisible" /\ walk'.healthy = walk.healthy
    BY <1>2, <1>7 DEF Walk, Verdicts
  <2>2. QED
    BY <1>4, <1>7, <2>1 DEF Ahead, InvisibleIsHidden
<1>8. CASE Exact(page) = {} /\ walk' = [next EXCEPT !.pc = "incomplete"]
  <2>1. walk' \in Walk /\ walk'.pc = "incomplete"
    BY <1>2, <1>8 DEF Walk, Verdicts
  <2>2. QED
    BY <2>1 DEF Ahead, InvisibleIsHidden
<1>9. CASE Exact(page) = {} /\ walk' = next
  <2>1. ASSUME HonoursOffset, walk'.healthy PROVE Ahead'
    <3>1. PICK n \in 1 .. Len(catalog) :
             /\ RefOf[catalog[n]] = walk.wanted
             /\ Rank(walk.wanted, n) > walk.received + Cardinality(page)
      BY <1>2, <1>4, <1>9, <2>1
    <3>2. Rank(walk.wanted, n)' = Rank(walk.wanted, n)
      BY <1>1, <1>2, <1>9 DEF Rank, Results
    <3>3. QED
      BY <1>1, <1>2, <1>9, <3>1, <3>2 DEF Ahead
  <2>2. QED
    BY <1>1, <1>2, <1>9, <2>1 DEF Ahead, InvisibleIsHidden
<1>10. QED
  BY <1>3, <1>6, <1>7, <1>8, <1>9


LEMMA RequestFailsHolds == ASSUME WalkInv, RequestFails PROVE WalkInv'
<1>1. walk' \in Walk /\ walk'.pc = "error"
  BY DEF WalkInv, CatalogTypeOK, RequestFails, Walk, Verdicts
<1>2. QED
  BY <1>1 DEF WalkInv, CatalogTypeOK, RequestFails, Ahead, InvisibleIsHidden

LEMMA AppearHolds ==
    ASSUME WalkInv, NEW d \in LibraryIds, NEW k, Appear(d, k) PROVE WalkInv'
<1>1. /\ catalog \in Seq(LibraryIds) /\ k \in 1 .. Len(catalog) + 1
      /\ catalog' = InsertAt(catalog, k, d) /\ walk' = walk
      /\ CatalogTypeOK
  BY DEF Appear, WalkInv, CatalogTypeOK
<1>2. catalog' \in Seq(LibraryIds) /\ Len(catalog') = Len(catalog) + 1
  BY <1>1, InsertFacts
<1>3. CatalogTypeOK'
  <2>1. changes' \in 0 .. MaxChanges
    BY <1>1, MaxChangesAssumption DEF Appear, Change, CatalogTypeOK
  <2>2. QED
    BY <1>1, <1>2, <2>1 DEF CatalogTypeOK
<1>4. ASSUME HonoursOffset, Ahead, walk.pc = "reading", walk.healthy PROVE Ahead'
  <2>1. PICK n \in 1 .. Len(catalog) : /\ RefOf[catalog[n]] = walk.wanted
                                       /\ Rank(walk.wanted, n) > walk.received
    BY <1>4 DEF Ahead
  <2>2. PICK n2 : n2 = IF n < k THEN n ELSE n + 1
    OBVIOUS
  <2>3. /\ n2 \in DOMAIN catalog' /\ catalog'[n2] = catalog[n]
        /\ Cardinality(UpTo(catalog, walk.wanted, n)) <= Cardinality(UpTo(catalog', walk.wanted, n2))
    BY <1>1, <2>2, InsertKeepsRank
  <2>4. Rank(walk.wanted, n2)' = Cardinality(UpTo(catalog', walk.wanted, n2))
    BY <1>1 DEF Rank, Results, UpTo, HitsIn
  <2>5. /\ Cardinality(UpTo(catalog, walk.wanted, n)) \in Nat
        /\ Cardinality(UpTo(catalog', walk.wanted, n2)) \in Nat
        /\ walk.received \in Nat
    BY <1>1, <1>2, HitsFacts DEF UpTo, CatalogTypeOK, Walk
  <2>6. Rank(walk.wanted, n2)' > walk.received
    BY <2>1, <2>3, <2>4, <2>5, RankIs
  <2>7. n2 \in 1 .. Len(catalog')
    BY <1>2, <2>3
  <2>8. QED
    BY <1>1, <2>1, <2>3, <2>6, <2>7 DEF Ahead
<1>5. QED
  BY <1>1, <1>3, <1>4 DEF WalkInv, Ahead, InvisibleIsHidden

LEMMA VanishHolds == ASSUME WalkInv, NEW k, Vanish(k) PROVE WalkInv'
<1>1. catalog \in Seq(LibraryIds) /\ k \in 1 .. Len(catalog) /\ walk \in Walk
  BY DEF Vanish, WalkInv, CatalogTypeOK
<1>2. catalog' \in Seq(LibraryIds)
  BY <1>1, RemoveFacts DEF Vanish
<1>3. walk' \in Walk /\ ~walk'.healthy
  BY <1>1 DEF Vanish, Walk
<1>4. changes' \in 0 .. MaxChanges
  BY MaxChangesAssumption DEF Vanish, Change, WalkInv, CatalogTypeOK
<1>5. QED
  BY <1>2, <1>3, <1>4 DEF WalkInv, CatalogTypeOK, Ahead, InvisibleIsHidden

LEMMA NamedRefs == ASSUME NEW c \in Configs PROVE RefsIn(c) \subseteq Refs
<1>1. /\ c.rules \in Seq([match : (SUBSET Facts) \ {{}}, target : Refs])
      /\ c.default \in Refs \cup {Unset}
  BY ConfigsAssumption
<1>2. ASSUME NEW n \in DOMAIN c.rules PROVE c.rules[n].target \in Refs
  <2> DEFINE rules == c.rules
             Rule == [match : (SUBSET Facts) \ {{}}, target : Refs]
  <2>1. rules \in Seq(Rule) => \A m \in DOMAIN rules : rules[m] \in Rule
    <3> HIDE DEF rules, Rule
    <3>1. QED
      OBVIOUS
  <2>2. c.rules[n] \in Rule
    BY <1>1, <2>1
  <2>3. QED
    BY <2>2
<1>3. QED
  BY <1>1, <1>2 DEF RefsIn

LEMMA NoneFoundTyped == NoneFound \in UNION {[S -> LibraryIds] : S \in SUBSET Refs}
<1>1. NoneFound \in [{} -> LibraryIds] /\ {} \in SUBSET Refs
  BY DEF NoneFound
<1>2. QED
  BY <1>1

\* A walk that ends, or begins, for the refs of c.
LEMMA NoWalkHolds ==
    ASSUME WalkInv, walk' = NoWalk, UNCHANGED <<catalog, changes>> PROVE WalkInv'
<1>1. walk' \in Walk /\ walk'.pc = "idle"
  BY NoWalkTyped, NoWalkFields, NoneFoundTyped
<1>2. QED
  BY <1>1 DEF WalkInv, CatalogTypeOK, Ahead, InvisibleIsHidden

LEMMA ResolveHolds ==
    ASSUME WalkInv, NEW c \in Configs, Resolve(RefsIn(c)), UNCHANGED <<catalog, changes>>
    PROVE  WalkInv'
<1>1. CASE RefsIn(c) = {}
  <2>1. walk' = [NoWalk EXCEPT !.pc = "found"] /\ NoWalk \in Walk
    BY <1>1, NoWalkTyped, NoneFoundTyped DEF Resolve
  <2>2. walk' \in Walk /\ walk'.pc = "found"
    BY <2>1 DEF Walk, Verdicts
  <2>3. QED
    BY <2>2 DEF WalkInv, CatalogTypeOK, Ahead, InvisibleIsHidden
<1>2. CASE RefsIn(c) # {}
  <2>1. walk' = LookFor(RefsIn(c), NoneFound)
    BY <1>2 DEF Resolve
  <2>2. walk' \in Walk /\ Ahead' /\ InvisibleIsHidden'
    BY <1>2, <2>1, NamedRefs, NoneFoundTyped, LookForHolds DEF WalkInv, CatalogTypeOK
  <2>3. QED
    BY <2>2 DEF WalkInv, CatalogTypeOK
<1>3. QED
  BY <1>1, <1>2


-----------------------------------------------------------------------------
(* The type invariant.                                                     *)

\* What the type invariant of RoutingReload says beyond the catalog's.
RouterTyped ==
    /\ file \in [content : Files, mtime : Mtimes]
    /\ life \in {"down", "loaded", "resolving", "up"}
    /\ conf \in Configs
    /\ targets \in UNION {[S -> LibraryIds] : S \in SUBSET Refs}
    /\ policies = Policies(Defaults, conf)
    /\ stamp \in Mtimes /\ built \in Mtimes
    /\ holder \in Callers \cup {Nobody}
    /\ reload \in [mtime : Mtimes, config : Configs]
    /\ failures \in 0 .. MaxFailures

ReloadInv == WalkInv /\ RouterTyped

LEMMA ReloadInvInit == RoutingInit => ReloadInv
<1> SUFFICES ASSUME RoutingInit PROVE ReloadInv
  OBVIOUS
<1>1. WalkInv
  <2>1. walk \in Walk /\ walk.pc = "idle"
    BY NoWalkTyped, NoWalkFields, NoneFoundTyped DEF RoutingInit, CatalogInit
  <2>2. QED
    BY <2>1, ListedAssumption, MaxChangesAssumption
       DEF RoutingInit, CatalogInit, WalkInv, CatalogTypeOK, Ahead, InvisibleIsHidden
<1>2. RouterTyped
  BY ConfigsAssumption, BoundsAssumption, NoneFoundTyped
     DEF RoutingInit, RouterTyped, NoReload, Mtimes
<1>3. QED
  BY <1>1, <1>2 DEF ReloadInv

\* What StartupFails and Die, and the ends of a reload, leave.
LEMMA StopHolds == ASSUME ReloadInv, Stop, failures' \in 0 .. MaxFailures PROVE ReloadInv'
<1>1. WalkInv'
  BY NoWalkHolds DEF Stop, ReloadInv
<1>2. RouterTyped'
  BY ConfigsAssumption, BoundsAssumption, NoneFoundTyped
     DEF Stop, ReloadInv, RouterTyped, NoReload, Mtimes
<1>3. QED
  BY <1>1, <1>2 DEF ReloadInv

LEMMA GiveUpHolds == ASSUME ReloadInv, GiveUp, failures' \in 0 .. MaxFailures PROVE ReloadInv'
<1>1. WalkInv'
  BY NoWalkHolds DEF GiveUp, ReloadInv
<1>2. RouterTyped'
  BY ConfigsAssumption, BoundsAssumption DEF GiveUp, ReloadInv, RouterTyped, NoReload, Mtimes
<1>3. QED
  BY <1>1, <1>2 DEF ReloadInv

LEMMA FailureCounts ==
    ASSUME ReloadInv
    PROVE  failures \in 0 .. MaxFailures /\ (Failure => failures' \in 0 .. MaxFailures)
  BY BoundsAssumption DEF ReloadInv, RouterTyped, Failure

\* A step that leaves the catalog and the walk alone, or the router.
LEMMA RouterOnly ==
    ASSUME ReloadInv, UNCHANGED catalogVars, RouterTyped' PROVE ReloadInv'
  BY DEF ReloadInv, WalkInv, CatalogTypeOK, Ahead, InvisibleIsHidden, Rank, Results, catalogVars

LEMMA WalkOnly ==
    ASSUME ReloadInv, UNCHANGED <<file, routerVars>>, failures' \in 0 .. MaxFailures, WalkInv'
    PROVE  ReloadInv'
  BY DEF ReloadInv, RouterTyped, routerVars

LEMMA StartHolds == ASSUME ReloadInv, Start PROVE ReloadInv'
<1>1. CASE LoadAtStart
  BY <1>1, RouterOnly DEF LoadAtStart, ReloadInv, RouterTyped
<1>2. CASE StartResolving
  <2>1. WalkInv'
    BY <1>2, ResolveHolds DEF StartResolving, ReloadInv, RouterTyped
  <2>2. RouterTyped'
    BY <1>2 DEF StartResolving, ReloadInv, RouterTyped
  <2>3. QED
    BY <2>1, <2>2 DEF ReloadInv
<1>3. CASE Initialized
  <2>1. WalkInv'
    BY <1>3, NoWalkHolds DEF Initialized, ReloadInv
  <2>2. walk.found \in UNION {[S -> LibraryIds] : S \in SUBSET Refs}
    BY DEF ReloadInv, WalkInv, CatalogTypeOK, Walk
  <2>3. RouterTyped'
    BY <1>3, <2>2 DEF Initialized, ReloadInv, RouterTyped
  <2>4. QED
    BY <2>1, <2>3 DEF ReloadInv
<1>4. CASE StartupFails
  BY <1>4, StopHolds, FailureCounts DEF StartupFails
<1>5. QED
  BY <1>1, <1>2, <1>3, <1>4 DEF Start

LEMMA ReloadHolds == ASSUME ReloadInv, Reload PROVE ReloadInv'
<1>1. ASSUME NEW p \in Callers, Sample(p) PROVE ReloadInv'
  <2>1. reload' \in [mtime : Mtimes, config : Configs]
    BY <1>1, ConfigsAssumption DEF Sample, ReloadInv, RouterTyped, NoReload
  <2>2. QED
    BY <1>1, <2>1, RouterOnly DEF Sample, ReloadInv, RouterTyped
<1>2. CASE LoadFails \/ ResolutionFails
  BY <1>2, GiveUpHolds, FailureCounts DEF LoadFails, ResolutionFails
<1>3. CASE Load
  <2>1. WalkInv'
    BY <1>3, ResolveHolds DEF Load, ReloadInv
  <2>2. RouterTyped'
    BY <1>3 DEF Load, ReloadInv, RouterTyped
  <2>3. QED
    BY <2>1, <2>2 DEF ReloadInv
<1>4. CASE Reloaded
  <2>1. WalkInv'
    BY <1>4, NoWalkHolds DEF Reloaded, ReloadInv
  <2>2. walk.found \in UNION {[S -> LibraryIds] : S \in SUBSET Refs}
    BY DEF ReloadInv, WalkInv, CatalogTypeOK, Walk
  <2>3. RouterTyped'
    BY <1>4, <2>2, ConfigsAssumption, BoundsAssumption
       DEF Reloaded, Replace, ReloadInv, RouterTyped, NoReload, Mtimes
  <2>4. QED
    BY <2>1, <2>3 DEF ReloadInv
<1>5. QED
  BY <1>1, <1>2, <1>3, <1>4 DEF Reload

LEMMA ReloadInvStep == ReloadInv /\ [RoutingNext]_routingVars => ReloadInv'
<1> SUFFICES ASSUME ReloadInv, [RoutingNext]_routingVars PROVE ReloadInv'
  OBVIOUS
<1> USE FailureCounts
<1>1. CASE Start \/ Reload
  BY <1>1, StartHolds, ReloadHolds
<1>2. CASE Reading
  BY <1>2, ReadPageHolds, WalkOnly DEF Reading, ReloadInv
<1>3. CASE Refused
  BY <1>3, RequestFailsHolds, WalkOnly DEF Refused, ReloadInv
<1>4. CASE Die
  BY <1>4, StopHolds DEF Die
<1>5. CASE CancelCaller
  BY <1>5, GiveUpHolds DEF CancelCaller
<1>6. CASE EditFile
  <2>1. PICK f \in Files : file' = [content |-> f, mtime |-> file.mtime + 1]
    BY <1>6 DEF EditFile
  <2>2. file.mtime + 1 \in Mtimes
    BY <1>6, BoundsAssumption DEF EditFile, ReloadInv, RouterTyped, Mtimes
  <2>3. RouterTyped'
    BY <1>6, <2>1, <2>2 DEF EditFile, ReloadInv, RouterTyped, routerVars
  <2>4. QED
    BY <1>6, <2>3, RouterOnly DEF EditFile
<1>7. CASE CatalogChanges /\ UNCHANGED <<file, routerVars, failures>>
  <2>1. WalkInv'
    BY <1>7, AppearHolds, VanishHolds DEF CatalogChanges, ReloadInv
  <2>2. QED
    BY <1>7, <2>1, WalkOnly
<1>8. CASE UNCHANGED routingVars
  BY <1>8, RouterOnly DEF routingVars, routerVars, ReloadInv, RouterTyped
<1>9. QED
  BY <1>1, <1>2, <1>3, <1>4, <1>5, <1>6, <1>7, <1>8 DEF RoutingNext

LEMMA ReloadInvTypes == ReloadInv => RoutingTypeOK
<1> SUFFICES ASSUME ReloadInv PROVE RoutingTypeOK
  OBVIOUS
<1>1. DOMAIN targets \subseteq Refs /\ \A t \in DOMAIN targets : targets[t] \in LibraryIds
  BY DEF ReloadInv, RouterTyped
<1>2. DOMAIN policies.by_kind \subseteq Kinds /\ DOMAIN policies.default = Fields
  BY ConfigsAssumption, DefaultsAssumption DEF ReloadInv, RouterTyped, Policies
<1>3. QED
  BY <1>1, <1>2 DEF ReloadInv, RouterTyped, WalkInv, RoutingTypeOK

\* Every reachable state of the routing snapshot, and of the resolution under
\* way, is well typed, for any catalog, routing files, pages and callers.
THEOREM RoutingTypeCorrect == RoutingSpec => []RoutingTypeOK
  BY ReloadInvInit, ReloadInvStep, ReloadInvTypes, PTL DEF RoutingSpec

\* With a service that heeds `offset`, a library that was listed when the walk
\* for its ref began is found, however many libraries appear during the walk,
\* wherever in the results, and however short the pages are: a ref is reported
\* not visible only if its library was not listed, or some library vanished.
THEOREM ListedIsFound ==
    ASSUME HonoursOffset = TRUE PROVE RoutingSpec => []InvisibleIsHidden
<1>1. ReloadInv => InvisibleIsHidden
  BY DEF ReloadInv, WalkInv
<1>2. QED
  BY <1>1, ReloadInvInit, ReloadInvStep, PTL DEF RoutingSpec
=============================================================================
