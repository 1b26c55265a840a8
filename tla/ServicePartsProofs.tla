------------------------- MODULE ServicePartsProofs -------------------------
(***************************************************************************)
(* Proofs of the invariants of the parts, one section each: that Init      *)
(* implies the inductive invariant (InitIInv), that a step of the part     *)
(* keeps it (NextIInv), and that it implies the property of the part       *)
(* (IInvSuffices).  The names in a section begin with the name of the      *)
(* part.  ServicesProofs has five sections more, and concludes.            *)
(***************************************************************************)
EXTENDS ServiceInvariants, SumLemmas, FiniteSetTheorems, SequenceTheorems, WellFoundedInduction, TLAPS

-----------------------------------------------------------------------------
(***************************************************************************)
(* The cache of the champion statistics.                                   *)
(***************************************************************************)
USE DEF cacheData, cacheGeneration, cacheBumped, cacheOwed, cachePages,
        cacheRequest, cacheAsked, cacheRewrites, cacheRedisFaults

(* The finite sets of the instance are those of the library.               *)
LEMMA CacheSameFiniteSets ==
  ASSUME NEW S
  PROVE  Cache!IsFiniteSet(S) <=> IsFiniteSet(S)
BY DEF Cache!IsFiniteSet, IsFiniteSet

(* A set of naturals that is not empty has a least element. *)
LEMMA CacheLeastOf ==
  ASSUME NEW S \in SUBSET Nat, S # {}
  PROVE  \E x \in S : \A y \in S : x <= y
<1>1. \A a, b \in Nat : <<a, b>> \in OpToRel(<, Nat) <=> a < b
  BY Zenon DEF OpToRel
<1>2. PICK x \in S : \A y \in S : ~ (<<y, x>> \in OpToRel(<, Nat))
  BY NatLessThanWellFounded, WFMin, Zenon
<1>3. ASSUME NEW y \in S PROVE x <= y
  <2>1. ~ (y < x)
    BY <1>1, <1>2, Zenon
  <2> QED BY <2>1
<1> QED BY <1>3

(* A finite set of naturals that is not empty has a greatest element: a
   smallest set without one would have one element less and still be
   without. *)
LEMMA CacheGreatestOf ==
  ASSUME NEW S \in SUBSET Nat, IsFiniteSet(S), S # {}
  PROVE  \E x \in S : \A y \in S : y <= x
<1> DEFINE HasMax(T) == \E x \in T : \A y \in T : y <= x
           Bad == {T \in SUBSET S : T # {} /\ ~HasMax(T)}
           Sizes == {Cardinality(T) : T \in Bad}
<1> SUFFICES ASSUME Bad # {} PROVE FALSE
  OBVIOUS
<1>1. \A T \in Bad : IsFiniteSet(T) /\ Cardinality(T) \in Nat
  BY FS_Subset, FS_CardinalityType
<1>2. Sizes \in SUBSET Nat /\ Sizes # {}
  BY <1>1
<1> HIDE DEF Bad
<1>3. PICK T \in Bad : \A U \in Bad : Cardinality(T) <= Cardinality(U)
  <2> HIDE DEF Sizes
  <2>1. PICK n \in Sizes : \A m \in Sizes : n <= m
    BY <1>2, CacheLeastOf
  <2> QED BY <2>1 DEF Sizes
<1>4. PICK x \in T : TRUE
  BY DEF Bad
<1>5. IsFiniteSet(T \ {x}) /\ Cardinality(T \ {x}) = Cardinality(T) - 1
      /\ Cardinality(T) \in Nat
  BY <1>1, <1>3, <1>4, FS_RemoveElement
<1>6. T \ {x} \notin Bad
  BY <1>1, <1>3, <1>5
<1>7. T \in SUBSET Nat /\ T \ {x} \in SUBSET S /\ ~HasMax(T)
  BY DEF Bad
<1>8. CASE T \ {x} = {}
  <2>1. x \in T /\ \A y \in T : y = x /\ y \in Nat
    BY <1>4, <1>7, <1>8
  <2>2. HasMax(T)
    BY <2>1
  <2> QED BY <1>7, <2>2
<1>9. CASE T \ {x} # {}
  <2>1. PICK m \in T \ {x} : \A y \in T \ {x} : y <= m
    BY <1>6, <1>7, <1>9 DEF Bad
  <2>2. m \in Nat /\ x \in Nat
    BY <1>4, <1>7, <2>1
  <2>3. CASE m <= x
    <3>1. \A y \in T : y \in Nat /\ y <= x
      BY <1>7, <2>1, <2>2, <2>3
    <3> QED BY <1>4, <1>7, <3>1
  <2>4. CASE x <= m
    <3>1. \A y \in T : y \in Nat /\ y <= m
      BY <1>7, <2>1, <2>2, <2>4
    <3> QED BY <1>7, <3>1
  <2> QED BY <2>2, <2>3, <2>4
<1> QED BY <1>8, <1>9

-----------------------------------------------------------------------------
(* The operators.                                                          *)

(* What is known of the constants. *)
LEMMA CacheConstants ==
  ASSUME Cache!ConstantsAssumption
  PROVE  /\ CachePatch \subseteq Nat /\ IsFiniteSet(CachePatch) /\ None \notin CachePatch
         /\ CacheMaxWrites \in Nat /\ CacheMaxRequests \in Nat /\ CacheMaxFaults \in Nat
BY CacheSameFiniteSets DEF Cache!ConstantsAssumption

(* The latest patch is a patch, if there is one. *)
LEMMA CacheLatestPatchTyped ==
  ASSUME Cache!ConstantsAssumption
  PROVE  Cache!LatestPatch \in CachePatch \cup {None}
<1>1. CASE Cache!ListedPatches # {}
  <2>1. Cache!ListedPatches \in SUBSET Nat /\ IsFiniteSet(Cache!ListedPatches) /\ Cache!ListedPatches \subseteq CachePatch
    BY CacheConstants, FS_Subset DEF Cache!ListedPatches
  <2>2. \E p \in Cache!ListedPatches : \A o \in Cache!ListedPatches : o <= p
    BY <1>1, <2>1, CacheGreatestOf
  <2> QED BY <1>1, <2>1, <2>2 DEF Cache!LatestPatch
<1> QED BY <1>1 DEF Cache!LatestPatch

(* The endpoints and the kinds of their rows. *)
LEMMA CacheEndpoints ==
  ASSUME Cache!ConstantsAssumption, NEW q \in Cache!Query
  PROVE  /\ q.endpoint \in {"filters", "table", "champion", "builds", "matchups"}
         /\ Cache!KindOf[q.endpoint] = CASE q.endpoint = "builds" -> "builds"
                                   [] q.endpoint = "matchups" -> "matchups"
                                   [] OTHER -> "stats"
         /\ Cache!KindOf[q.endpoint] \in Cache!Kind
         /\ q.tier \in Cache!Rank /\ Cache!RankScope(q) \in Cache!Rank /\ q.patch \in CachePatch \cup {None}
         /\ q.endpoint # "matchups" => Cache!RankScope(q) = q.tier
         /\ q.endpoint = "filters" => q.tier = "ALL" /\ q.patch = None
<1>1. DOMAIN Cache!KindOf = {"filters", "table", "champion", "builds", "matchups"}
  BY DEF Cache!KindOf
<1>2. q.endpoint \in {"filters", "table", "champion", "builds", "matchups"}
  BY <1>1 DEF Cache!Query
<1>3. Cache!KindOf[q.endpoint] = CASE q.endpoint = "builds" -> "builds"
                             [] q.endpoint = "matchups" -> "matchups"
                             [] OTHER -> "stats"
  BY <1>2 DEF Cache!KindOf
<1>4. q.tier \in Cache!Rank /\ q.patch \in CachePatch \cup {None} /\ q.rankScope \in {"GOLD", None}
  BY DEF Cache!Query
<1>5. Cache!RankScope(q) \in Cache!Rank
  BY <1>4 DEF Cache!RankScope, Cache!Rank
<1>6. /\ q.endpoint # "matchups" => Cache!RankScope(q) = q.tier
      /\ q.endpoint = "filters" => q.tier = "ALL" /\ q.patch = None
  BY DEF Cache!Query, Cache!RankScope
<1> QED BY <1>2, <1>3, <1>4, <1>5, <1>6 DEF Cache!Kind

(* A request asks one counter, or none when it has no patch. *)
LEMMA CacheGenerationIs ==
  ASSUME Cache!ConstantsAssumption, NEW q \in Cache!Query, NEW p \in CachePatch \cup {None}, Cache!Scoped(q, p), NEW count
  PROVE  Cache!GenerationOf(q, p, count) = IF p = None THEN 0 ELSE count[Cache!KindOf[q.endpoint]][p]
<1>1. p = None => q.endpoint = "filters"
  BY CacheConstants DEF Cache!Scoped
<1> QED BY <1>1, CacheEndpoints
        DEF Cache!GenerationOf, Cache!StatsGeneration, Cache!BuildGeneration, Cache!MatchupGeneration, Cache!KindOf

(* The rows an endpoint shows. *)
LEMMA CachePageIs ==
  ASSUME Cache!ConstantsAssumption, NEW q \in Cache!Query, NEW p \in CachePatch \cup {None}, Cache!Scoped(q, p)
  PROVE  /\ Cache!PageOf(q, p).patch = p /\ Cache!PageOf(q, p).rank = Cache!RankScope(q)
         /\ Cache!PageOf(q, p).rows = Cache!GenerationOf(q, p, cacheData)
         /\ Cache!PageOf(q, p) = [patch |-> p, rank |-> Cache!RankScope(q), rows |-> Cache!GenerationOf(q, p, cacheData)]
<1>1. p = None => q.endpoint = "filters"
  BY CacheConstants DEF Cache!Scoped
<1>2. Cache!PageOf(q, p) = [patch |-> p, rank |-> Cache!RankScope(q), rows |-> Cache!GenerationOf(q, p, cacheData)]
  BY <1>1, CacheEndpoints
     DEF Cache!PageOf, Cache!FiltersPage, Cache!TablePage, Cache!ChampionPage, Cache!BuildsPage, Cache!MatchupsPage,
         Cache!GenerationOf, Cache!StatsGeneration, Cache!BuildGeneration, Cache!MatchupGeneration, Cache!KindOf
<1> QED BY <1>2

(* Keys tell apart what they are made of. *)
LEMMA CacheKeysDiffer ==
  ASSUME Cache!ConstantsAssumption, NEW q \in Cache!Query, NEW o \in Cache!Query, NEW p, NEW s, NEW g, NEW h,
         Cache!PageKey(q, p, g) = Cache!PageKey(o, s, h)
  PROVE  Cache!SameScope(q, o) /\ p = s /\ g = h /\ Cache!RankScope(q) = Cache!RankScope(o)
<1>1. Cache!PageKey(q, p, g)[1] = q.endpoint /\ Cache!PageKey(o, s, h)[1] = o.endpoint
  BY CacheEndpoints DEF Cache!PageKey, Cache!FiltersKey, Cache!TableKey, Cache!ChampionKey, Cache!BuildsKey, Cache!MatchupsKey
<1>2. /\ Cache!PageKey(q, p, g)[2] = g /\ Cache!PageKey(o, s, h)[2] = h
      /\ Cache!PageKey(q, p, g)[3] = p /\ Cache!PageKey(o, s, h)[3] = s
  BY CacheEndpoints DEF Cache!PageKey, Cache!FiltersKey, Cache!TableKey, Cache!ChampionKey, Cache!BuildsKey, Cache!MatchupsKey
<1>3. /\ q.endpoint # "filters" => Cache!PageKey(q, p, g)[4] = Cache!RankScope(q)
      /\ o.endpoint # "filters" => Cache!PageKey(o, s, h)[4] = Cache!RankScope(o)
  BY CacheEndpoints DEF Cache!PageKey, Cache!FiltersKey, Cache!TableKey, Cache!ChampionKey, Cache!BuildsKey, Cache!MatchupsKey
<1>4. q.endpoint = o.endpoint
  BY <1>1
<1>5. q.endpoint = "filters" => Cache!RankScope(q) = "ALL" /\ Cache!RankScope(o) = "ALL"
  BY <1>4, CacheEndpoints
<1> QED BY <1>2, <1>3, <1>4, <1>5 DEF Cache!SameScope
-----------------------------------------------------------------------------
(* The inductive invariant.                                                *)

(* Counters are numbers. *)
LEMMA CacheCountsTyped ==
  ASSUME Cache!ConstantsAssumption, Cache!TypeOK, NEW q \in Cache!Query, NEW p \in CachePatch \cup {None}, Cache!Scoped(q, p)
  PROVE  /\ Cache!GenerationOf(q, p, cacheData) \in 0..CacheMaxWrites
         /\ Cache!GenerationOf(q, p, cacheGeneration) \in 0..CacheMaxWrites
         /\ Cache!GenerationOf(q, p, cacheBumped) \in 0..CacheMaxWrites
<1>1. CacheMaxWrites \in Nat /\ Cache!KindOf[q.endpoint] \in Cache!Kind
  BY CacheConstants, CacheEndpoints
<1> QED BY <1>1, CacheGenerationIs DEF Cache!TypeOK

(* What idles has its type. *)
LEMMA CacheIdleTyped ==
  ASSUME Cache!ConstantsAssumption
  PROVE  /\ Cache!Idle \in Cache!RequestType
         /\ Cache!Idle.step = "idle" /\ Cache!Idle.gen = 0 /\ Cache!Idle.since = 0
BY CacheConstants DEF Cache!Idle, Cache!RequestType

(* The initial states satisfy the inductive invariant. *)
LEMMA CacheInitIInv ==
  ASSUME Cache!ConstantsAssumption
  PROVE  Cache!Init => Cache!IInv
<1> SUFFICES ASSUME Cache!Init PROVE Cache!IInv
  OBVIOUS
<1>1. /\ CacheMaxWrites \in Nat /\ CacheMaxRequests \in Nat /\ CacheMaxFaults \in Nat
      /\ cacheData = [k \in Cache!Kind |-> [p \in CachePatch |-> 0]] /\ cacheGeneration = cacheData /\ cacheBumped = cacheData
      /\ cacheOwed = {} /\ DOMAIN cachePages = {} /\ cacheRequest = [c \in CacheClient |-> Cache!Idle]
      /\ cacheAsked = 0 /\ cacheRewrites = 0 /\ cacheRedisFaults = 0
  BY CacheConstants DEF Cache!Init
<1>2. Cache!TypeOK
  BY <1>1, CacheIdleTyped DEF Cache!TypeOK
<1>3. Cache!CountersFollow
  BY <1>1 DEF Cache!CountersFollow
<1>4. Cache!RequestsFit /\ Cache!GenerationsPromise
  BY <1>1, CacheIdleTyped DEF Cache!RequestsFit, Cache!GenerationsPromise, Cache!OnTheWay
<1>5. Cache!PagesFit
  BY <1>1 DEF Cache!PagesFit
<1> QED BY <1>2, <1>3, <1>4, <1>5 DEF Cache!IInv

(* Pages that fit before and are still there fit. *)
LEMMA CachePagesStay ==
  ASSUME Cache!ConstantsAssumption, Cache!IInv, DOMAIN cachePages' \subseteq DOMAIN cachePages,
         \A key \in DOMAIN cachePages' : cachePages'[key] = cachePages[key]
  PROVE  /\ \A key \in DOMAIN cachePages' : cachePages'[key] \in Cache!Page
         /\ \A q \in Cache!Query, p \in CachePatch \cup {None}, g \in 0..CacheMaxWrites :
              Cache!Scoped(q, p) /\ Cache!PageKey(q, p, g) \in DOMAIN cachePages' =>
                Cache!PageFits(q, p, g, cachePages'[Cache!PageKey(q, p, g)])
<1>1. \A key \in DOMAIN cachePages' : cachePages'[key] \in Cache!Page
  BY DEF Cache!IInv, Cache!TypeOK
<1>2. ASSUME NEW q \in Cache!Query, NEW p \in CachePatch \cup {None}, NEW g \in 0..CacheMaxWrites,
             Cache!Scoped(q, p), Cache!PageKey(q, p, g) \in DOMAIN cachePages'
      PROVE  Cache!PageFits(q, p, g, cachePages'[Cache!PageKey(q, p, g)])
  <2>1. Cache!PageFits(q, p, g, cachePages[Cache!PageKey(q, p, g)])
    BY <1>2 DEF Cache!IInv, Cache!PagesFit
  <2>2. cachePages'[Cache!PageKey(q, p, g)] = cachePages[Cache!PageKey(q, p, g)]
    BY <1>2
  <2> QED BY <2>1, <2>2
<1> QED BY <1>1, <1>2

(* A step of one request: it goes on with its promise, is promised what its
   generation stands for, is promised nothing, or is through. *)
LEMMA CacheRequestStep ==
  ASSUME Cache!ConstantsAssumption, Cache!IInv, NEW c \in CacheClient, NEW r \in Cache!RequestType,
         cacheRequest' = [cacheRequest EXCEPT ![c] = r],
         Cache!OnTheWay(r) => Cache!PromiseFits(r),
         r.step \in {"recheck", "store", "done"} => Cache!AnswerFits(r),
         Cache!OnTheWay(r) =>
           \/ /\ Cache!OnTheWay(cacheRequest[c]) /\ r.query = cacheRequest[c].query
              /\ r.patch = cacheRequest[c].patch /\ r.gen = cacheRequest[c].gen
              /\ r.since = cacheRequest[c].since
           \/ r.gen = Cache!GenerationOf(r.query, r.patch, cacheGeneration)
           \/ r.gen = 0,
         \A key \in DOMAIN cachePages' : cachePages'[key] \in Cache!Page,
         \A q \in Cache!Query, p \in CachePatch \cup {None}, g \in 0..CacheMaxWrites :
           Cache!Scoped(q, p) /\ Cache!PageKey(q, p, g) \in DOMAIN cachePages' =>
             Cache!PageFits(q, p, g, cachePages'[Cache!PageKey(q, p, g)]),
         UNCHANGED <<cacheData, cacheGeneration, cacheBumped, cacheOwed, cacheRewrites>>,
         cacheAsked' \in 0..CacheMaxRequests, cacheRedisFaults' \in 0..CacheMaxFaults
  PROVE  Cache!IInv'
<1>1. /\ Cache!TypeOK /\ cacheRequest \in [CacheClient -> Cache!RequestType]
      /\ \A d \in CacheClient : cacheRequest[d] \in Cache!RequestType
  BY DEF Cache!IInv, Cache!TypeOK
<1>2. cacheRequest'[c] = r /\ \A d \in CacheClient \ {c} : cacheRequest'[d] = cacheRequest[d]
  BY <1>1
<1>3. Cache!TypeOK'
  BY <1>1 DEF Cache!TypeOK
<1>4. Cache!CountersFollow'
  BY DEF Cache!IInv, Cache!CountersFollow
<1>5. Cache!RequestsFit'
  <2> SUFFICES ASSUME NEW d \in CacheClient
               PROVE  /\ Cache!OnTheWay(cacheRequest'[d]) => Cache!PromiseFits(cacheRequest[d])'
                      /\ cacheRequest'[d].step \in {"recheck", "store", "done"} => Cache!AnswerFits(cacheRequest[d])'
    BY DEF Cache!RequestsFit, Cache!OnTheWay
  <2>1. CASE d = c
    BY <1>2, <2>1 DEF Cache!PromiseFits, Cache!AnswerFits, Cache!OnTheWay, Cache!Scoped
  <2>2. CASE d # c
    BY <1>2, <2>2 DEF Cache!IInv, Cache!RequestsFit, Cache!PromiseFits, Cache!AnswerFits, Cache!OnTheWay, Cache!Scoped
  <2> QED BY <2>1, <2>2
<1>6. ASSUME NEW d \in CacheClient, d # c, Cache!OnTheWay(r), Cache!OnTheWay(cacheRequest[d]),
             Cache!SameScope(r.query, cacheRequest[d].query), r.patch = cacheRequest[d].patch,
             r.gen = cacheRequest[d].gen
      PROVE  r.since = cacheRequest[d].since
  <2>1. Cache!PromiseFits(r) /\ Cache!PromiseFits(cacheRequest[d])
    BY <1>6 DEF Cache!IInv, Cache!RequestsFit
  <2>2. /\ Cache!GenerationOf(r.query, r.patch, cacheGeneration)
             = Cache!GenerationOf(cacheRequest[d].query, cacheRequest[d].patch, cacheGeneration)
        /\ Cache!GenerationOf(r.query, r.patch, cacheBumped)
             = Cache!GenerationOf(cacheRequest[d].query, cacheRequest[d].patch, cacheBumped)
    BY <1>1, <1>6, <2>1, CacheGenerationIs DEF Cache!PromiseFits, Cache!SameScope, Cache!RequestType
  <2>3. CASE r.gen = Cache!GenerationOf(r.query, r.patch, cacheGeneration) \/ r.gen = 0
    BY <1>6, <2>1, <2>2, <2>3 DEF Cache!PromiseFits
  <2>4. CASE /\ Cache!OnTheWay(cacheRequest[c]) /\ r.query = cacheRequest[c].query
             /\ r.patch = cacheRequest[c].patch /\ r.gen = cacheRequest[c].gen
             /\ r.since = cacheRequest[c].since
    BY <1>6, <2>4 DEF Cache!IInv, Cache!GenerationsPromise
  <2> QED BY <1>6, <2>3, <2>4
<1>7. Cache!GenerationsPromise'
  <2> SUFFICES ASSUME NEW d \in CacheClient, NEW e \in CacheClient,
                      Cache!OnTheWay(cacheRequest'[d]), Cache!OnTheWay(cacheRequest'[e]),
                      Cache!SameScope(cacheRequest'[d].query, cacheRequest'[e].query),
                      cacheRequest'[d].patch = cacheRequest'[e].patch, cacheRequest'[d].gen = cacheRequest'[e].gen
               PROVE  cacheRequest'[d].since = cacheRequest'[e].since
    BY DEF Cache!GenerationsPromise, Cache!OnTheWay, Cache!SameScope
  <2>1. CASE d = c /\ e # c
    BY <1>2, <1>6, <2>1
  <2>2. CASE d # c /\ e = c
    <3>1. Cache!SameScope(r.query, cacheRequest[d].query)
      BY <1>2, <2>2 DEF Cache!SameScope
    <3> QED BY <1>2, <1>6, <2>2, <3>1
  <2>3. CASE d # c /\ e # c
    BY <1>2, <2>3 DEF Cache!IInv, Cache!GenerationsPromise
  <2> QED BY <2>1, <2>2, <2>3
<1>8. Cache!PagesFit'
  <2> SUFFICES ASSUME NEW q \in Cache!Query, NEW p \in CachePatch \cup {None}, NEW g \in 0..CacheMaxWrites,
                      Cache!Scoped(q, p), Cache!PageKey(q, p, g) \in DOMAIN cachePages'
               PROVE  Cache!PageFits(q, p, g, cachePages[Cache!PageKey(q, p, g)])'
    BY DEF Cache!PagesFit, Cache!Scoped, Cache!PageKey, Cache!FiltersKey, Cache!TableKey, Cache!ChampionKey, Cache!BuildsKey, Cache!MatchupsKey
  <2> DEFINE page == cachePages'[Cache!PageKey(q, p, g)]
  <2>1. Cache!PageFits(q, p, g, page)
    OBVIOUS
  <2>2. page \in Cache!Page /\ page.rows \in Nat
    BY CacheConstants DEF Cache!Page
  <2>3. ASSUME Cache!OnTheWay(r), Cache!SameScope(r.query, q), r.patch = p, r.gen = g
        PROVE  page.rows >= r.since
    <3>1. Cache!PromiseFits(r)
      BY <2>3
    <3>2. Cache!GenerationOf(r.query, r.patch, cacheGeneration) = Cache!GenerationOf(q, p, cacheGeneration)
          /\ Cache!GenerationOf(r.query, r.patch, cacheBumped) = Cache!GenerationOf(q, p, cacheBumped)
      BY <2>3, <3>1, CacheGenerationIs DEF Cache!PromiseFits, Cache!SameScope, Cache!RequestType
    <3>3. CASE r.gen = Cache!GenerationOf(r.query, r.patch, cacheGeneration)
      BY <2>1, <2>3, <3>1, <3>2, <3>3 DEF Cache!PromiseFits, Cache!PageFits
    <3>4. CASE r.gen = 0
      BY <2>2, <3>1, <3>4 DEF Cache!PromiseFits
    <3>5. CASE /\ Cache!OnTheWay(cacheRequest[c]) /\ r.query = cacheRequest[c].query
               /\ r.patch = cacheRequest[c].patch /\ r.gen = cacheRequest[c].gen
               /\ r.since = cacheRequest[c].since
      BY <2>1, <2>3, <3>5 DEF Cache!PageFits
    <3> QED BY <2>3, <3>3, <3>4, <3>5
  <2> HIDE DEF page
  <2>4. ASSUME NEW d \in CacheClient, Cache!OnTheWay(cacheRequest'[d]), Cache!SameScope(cacheRequest'[d].query, q),
               cacheRequest'[d].patch = p, cacheRequest'[d].gen = g
        PROVE  page.rows >= cacheRequest'[d].since
    <3>1. CASE d = c
      BY <1>2, <2>3, <2>4, <3>1
    <3>2. CASE d # c
      BY <1>2, <2>1, <2>4, <3>2 DEF Cache!PageFits
    <3> QED BY <3>1, <3>2
  <2>5. cachePages'[Cache!PageKey(q, p, g)] = page
    BY DEF page
  <2> QED BY <2>1, <2>4, <2>5 DEF Cache!PageFits, Cache!OnTheWay, Cache!SameScope, page
<1> QED BY <1>3, <1>4, <1>5, <1>7, <1>8 DEF Cache!IInv

-----------------------------------------------------------------------------
(* The steps of a request.                                                 *)

(* What the invariant says of one request. *)
LEMMA CacheRequestFacts ==
  ASSUME Cache!ConstantsAssumption, Cache!IInv, NEW c \in CacheClient
  PROVE  /\ cacheRequest[c] \in Cache!RequestType /\ cacheRequest \in [CacheClient -> Cache!RequestType]
         /\ CacheMaxWrites \in Nat /\ CacheMaxRequests \in Nat /\ CacheMaxFaults \in Nat
         /\ cacheAsked \in 0..CacheMaxRequests /\ cacheRedisFaults \in 0..CacheMaxFaults
         /\ Cache!OnTheWay(cacheRequest[c]) => Cache!PromiseFits(cacheRequest[c])
         /\ cacheRequest[c].step \in {"recheck", "store", "done"} => Cache!AnswerFits(cacheRequest[c])
BY CacheConstants DEF Cache!IInv, Cache!TypeOK, Cache!RequestsFit

(* A counter that stands at 0 has promised nothing. *)
LEMMA CacheZeroPromisesNothing ==
  ASSUME Cache!ConstantsAssumption, Cache!IInv, NEW q \in Cache!Query, NEW p \in CachePatch \cup {None}, Cache!Scoped(q, p),
         Cache!GenerationOf(q, p, cacheGeneration) = 0
  PROVE  Cache!GenerationOf(q, p, cacheBumped) = 0
<1> DEFINE k == Cache!KindOf[q.endpoint]
<1>1. k \in Cache!Kind
  BY CacheEndpoints
<1>2. /\ Cache!GenerationOf(q, p, cacheGeneration) = IF p = None THEN 0 ELSE cacheGeneration[k][p]
      /\ Cache!GenerationOf(q, p, cacheBumped) = IF p = None THEN 0 ELSE cacheBumped[k][p]
  BY CacheGenerationIs
<1> HIDE DEF k
<1>3. p # None /\ cacheGeneration[k][p] = 0 => cacheBumped[k][p] = 0
  BY <1>1 DEF Cache!IInv, Cache!CountersFollow
<1> QED BY <1>2, <1>3

(* A question is resolved, and answered at once when it has no rows to show. *)
LEMMA CacheAskKeepsIInv ==
  ASSUME Cache!ConstantsAssumption, Cache!AskedAssumption, Cache!IInv, NEW c \in CacheClient, NEW q \in CacheAsked, Cache!Ask(c, q)
  PROVE  Cache!IInv'
<1> DEFINE patch == Cache!ResolvePatch(q)
           over == (patch = None /\ q.endpoint # "filters") \/ Cache!Hidden(q)
           r == [step |-> IF over THEN "done" ELSE "generation", query |-> q, patch |-> patch,
                 gen |-> 0, since |-> 0, page |-> IF over THEN Cache!EmptyPage(q, patch) ELSE None]
<1>1. q \in Cache!Query /\ q.patch \in CachePatch \cup {None} /\ Cache!RankScope(q) \in Cache!Rank
  BY CacheEndpoints DEF Cache!AskedAssumption
<1>2. patch \in CachePatch \cup {None}
  BY <1>1, CacheLatestPatchTyped DEF Cache!ResolvePatch
<1>3. Cache!EmptyPage(q, patch) \in Cache!Page
  BY <1>1, <1>2, CacheConstants DEF Cache!EmptyPage, Cache!Page
<1> HIDE DEF patch
<1>4. /\ r.query = q /\ r.patch = patch /\ r.gen = 0 /\ r.since = 0
      /\ r.step = IF over THEN "done" ELSE "generation"
      /\ r.page = IF over THEN Cache!EmptyPage(q, patch) ELSE None
  OBVIOUS
<1>5. r \in Cache!RequestType
  <2> HIDE DEF over
  <2> QED BY <1>1, <1>2, <1>3, CacheConstants DEF Cache!RequestType
<1>6. cacheRequest' = [cacheRequest EXCEPT ![c] = r]
  BY DEF Cache!Ask, patch
<1> HIDE DEF r
<1>7. ASSUME ~over PROVE Cache!PromiseFits(r)
  <2>1. Cache!Scoped(q, patch)
    BY <1>2, <1>7 DEF Cache!Scoped
  <2>2. /\ Cache!GenerationOf(q, patch, cacheGeneration) \in 0..CacheMaxWrites
        /\ Cache!GenerationOf(q, patch, cacheBumped) \in 0..CacheMaxWrites
    BY <1>1, <1>2, <2>1, CacheCountsTyped DEF Cache!IInv
  <2>3. Cache!GenerationOf(q, patch, cacheGeneration) = 0 => Cache!GenerationOf(q, patch, cacheBumped) = 0
    BY <1>1, <1>2, <2>1, CacheZeroPromisesNothing
  <2> QED BY <1>1, <1>4, <2>1, <2>2, <2>3, CacheConstants DEF Cache!PromiseFits
<1>8. over => Cache!AnswerFits(r)
  BY <1>3, <1>4 DEF Cache!AnswerFits, Cache!EmptyPage
<1> HIDE DEF over
<1>9. cacheAsked' \in 0..CacheMaxRequests /\ cacheRedisFaults' \in 0..CacheMaxFaults
      /\ UNCHANGED <<cacheData, cacheGeneration, cacheBumped, cacheOwed, cachePages, cacheRewrites>>
  BY CacheRequestFacts DEF Cache!Ask
<1> QED BY <1>4, <1>5, <1>6, <1>7, <1>8, <1>9, CachePagesStay, CacheRequestStep DEF Cache!OnTheWay

(* The generation read is a promise, a read that failed promises nothing. *)
LEMMA CacheReadGenerationKeepsIInv ==
  ASSUME Cache!ConstantsAssumption, Cache!IInv, NEW c \in CacheClient, Cache!ReadGeneration(c)
  PROVE  Cache!IInv'
<1> DEFINE o == cacheRequest[c]
           r == [o EXCEPT !.step = "lookup",
                          !.gen = Cache!GenerationOf(o.query, o.patch, cacheGeneration),
                          !.since = Cache!GenerationOf(o.query, o.patch, cacheBumped)]
           f == [o EXCEPT !.step = "lookup"]
<1>1. o \in Cache!RequestType /\ Cache!OnTheWay(o) /\ Cache!PromiseFits(o)
  BY CacheRequestFacts DEF Cache!ReadGeneration, Cache!OnTheWay
<1>2. o.query \in Cache!Query /\ Cache!Scoped(o.query, o.patch) /\ o.patch \in CachePatch \cup {None}
  BY <1>1 DEF Cache!PromiseFits, Cache!RequestType
<1>3. /\ Cache!GenerationOf(o.query, o.patch, cacheGeneration) \in 0..CacheMaxWrites
      /\ Cache!GenerationOf(o.query, o.patch, cacheBumped) \in 0..CacheMaxWrites
      /\ Cache!GenerationOf(o.query, o.patch, cacheGeneration) = 0
           => Cache!GenerationOf(o.query, o.patch, cacheBumped) = 0
      /\ CacheMaxWrites \in Nat
  BY <1>2, CacheCountsTyped, CacheZeroPromisesNothing, CacheConstants DEF Cache!IInv
<1>4. cacheAsked' \in 0..CacheMaxRequests /\ cacheRedisFaults' \in 0..CacheMaxFaults
      /\ UNCHANGED <<cacheData, cacheGeneration, cacheBumped, cacheOwed, cachePages, cacheRewrites>>
  BY CacheRequestFacts DEF Cache!ReadGeneration, Cache!Works, Cache!Fails, Cache!OnlyRequest
<1>5. CASE cacheRequest' = [cacheRequest EXCEPT ![c] = r]
  <2>1. r \in Cache!RequestType
    BY <1>1, <1>3 DEF Cache!RequestType
  <2>2. /\ r.step = "lookup" /\ r.query = o.query /\ r.patch = o.patch
        /\ r.gen = Cache!GenerationOf(o.query, o.patch, cacheGeneration)
        /\ r.since = Cache!GenerationOf(o.query, o.patch, cacheBumped)
    BY <1>1 DEF Cache!RequestType
  <2> HIDE DEF r
  <2>3. Cache!PromiseFits(r)
    BY <1>2, <1>3, <2>2 DEF Cache!PromiseFits
  <2> QED BY <1>4, <1>5, <2>1, <2>2, <2>3, CachePagesStay, CacheRequestStep
<1>6. CASE cacheRequest' = [cacheRequest EXCEPT ![c] = f]
  <2>1. f \in Cache!RequestType
    BY <1>1 DEF Cache!RequestType
  <2>2. /\ f.step = "lookup" /\ f.query = o.query /\ f.patch = o.patch
        /\ f.gen = o.gen /\ f.since = o.since
    BY <1>1 DEF Cache!RequestType
  <2> HIDE DEF f
  <2>3. Cache!PromiseFits(f)
    BY <1>1, <2>2 DEF Cache!PromiseFits
  <2> QED BY <1>1, <1>4, <1>6, <2>1, <2>2, <2>3, CachePagesStay, CacheRequestStep
<1> QED BY <1>5, <1>6, CacheRequestFacts DEF Cache!ReadGeneration

(* A page found under the key of the request answers it. *)
LEMMA CacheLookUpKeepsIInv ==
  ASSUME Cache!ConstantsAssumption, Cache!IInv, NEW c \in CacheClient, Cache!LookUp(c)
  PROVE  Cache!IInv'
<1> DEFINE o == cacheRequest[c]
           key == Cache!PageKey(o.query, o.patch, o.gen)
           r == [o EXCEPT !.step = "done", !.page = cachePages[key]]
           f == [o EXCEPT !.step = "rows"]
<1>1. o \in Cache!RequestType /\ Cache!OnTheWay(o) /\ Cache!PromiseFits(o)
  BY CacheRequestFacts DEF Cache!LookUp, Cache!OnTheWay
<1>2. /\ o.query \in Cache!Query /\ Cache!Scoped(o.query, o.patch) /\ o.patch \in CachePatch \cup {None}
      /\ o.gen \in 0..CacheMaxWrites
  BY <1>1 DEF Cache!PromiseFits, Cache!RequestType
<1>3. cacheAsked' \in 0..CacheMaxRequests /\ cacheRedisFaults' \in 0..CacheMaxFaults
      /\ UNCHANGED <<cacheData, cacheGeneration, cacheBumped, cacheOwed, cachePages, cacheRewrites>>
  BY CacheRequestFacts DEF Cache!LookUp, Cache!Works, Cache!Fails, Cache!OnlyRequest
<1>4. CASE key \in DOMAIN cachePages /\ cacheRequest' = [cacheRequest EXCEPT ![c] = r]
  <2>1. cachePages[key] \in Cache!Page
    BY <1>4 DEF Cache!IInv, Cache!TypeOK
  <2>2. Cache!PageFits(o.query, o.patch, o.gen, cachePages[key])
    BY <1>2, <1>4 DEF Cache!IInv, Cache!PagesFit
  <2>3. r \in Cache!RequestType
    BY <1>1, <2>1 DEF Cache!RequestType
  <2>4. /\ r.step = "done" /\ r.query = o.query /\ r.patch = o.patch
        /\ r.since = o.since /\ r.page = cachePages[key]
    BY <1>1 DEF Cache!RequestType
  <2>5. cachePages[key].rows >= o.since
    BY <1>1, <2>2 DEF Cache!PageFits, Cache!SameScope
  <2> HIDE DEF r, key
  <2>6. Cache!AnswerFits(r)
    BY <2>1, <2>2, <2>4, <2>5 DEF Cache!AnswerFits, Cache!PageFits
  <2>7. ~Cache!OnTheWay(r)
    BY <2>4 DEF Cache!OnTheWay
  <2> QED BY <1>3, <1>4, <2>3, <2>4, <2>6, <2>7, CachePagesStay, CacheRequestStep
<1>5. CASE cacheRequest' = [cacheRequest EXCEPT ![c] = f]
  <2>1. f \in Cache!RequestType
    BY <1>1 DEF Cache!RequestType
  <2>2. /\ f.step = "rows" /\ f.query = o.query /\ f.patch = o.patch
        /\ f.gen = o.gen /\ f.since = o.since
    BY <1>1 DEF Cache!RequestType
  <2> HIDE DEF f
  <2>3. Cache!PromiseFits(f)
    BY <1>1, <2>2 DEF Cache!PromiseFits
  <2> QED BY <1>1, <1>3, <1>5, <2>1, <2>2, <2>3, CachePagesStay, CacheRequestStep
<1> QED BY <1>4, <1>5, CacheRequestFacts DEF Cache!LookUp, Cache!Respond

(* The rows a request shows are as new as it was promised. *)
LEMMA CacheReadRowsKeepsIInv ==
  ASSUME Cache!ConstantsAssumption, Cache!IInv, NEW c \in CacheClient, Cache!ReadRows(c)
  PROVE  Cache!IInv'
<1> DEFINE o == cacheRequest[c]
           page == Cache!PageOf(o.query, o.patch)
           r == [o EXCEPT !.step = "recheck", !.page = page]
<1>1. o \in Cache!RequestType /\ Cache!OnTheWay(o) /\ Cache!PromiseFits(o)
  BY CacheRequestFacts DEF Cache!ReadRows, Cache!OnTheWay
<1>2. /\ o.query \in Cache!Query /\ Cache!Scoped(o.query, o.patch) /\ o.patch \in CachePatch \cup {None}
      /\ Cache!KindOf[o.query.endpoint] \in Cache!Kind /\ Cache!RankScope(o.query) \in Cache!Rank
      /\ o.since \in Nat
  BY <1>1, CacheEndpoints DEF Cache!PromiseFits, Cache!RequestType
<1>3. cacheAsked' \in 0..CacheMaxRequests /\ cacheRedisFaults' \in 0..CacheMaxFaults
      /\ UNCHANGED <<cacheData, cacheGeneration, cacheBumped, cacheOwed, cachePages, cacheRewrites>>
  BY CacheRequestFacts DEF Cache!ReadRows, Cache!Works, Cache!OnlyRequest
<1>4. /\ Cache!GenerationOf(o.query, o.patch, cacheData) \in 0..CacheMaxWrites
      /\ Cache!GenerationOf(o.query, o.patch, cacheBumped) \in 0..CacheMaxWrites
      /\ CacheMaxWrites \in Nat
  BY <1>2, CacheCountsTyped, CacheConstants DEF Cache!IInv
<1>5. Cache!GenerationOf(o.query, o.patch, cacheBumped) <= Cache!GenerationOf(o.query, o.patch, cacheData)
  <2> DEFINE k == Cache!KindOf[o.query.endpoint]
  <2>1. /\ Cache!GenerationOf(o.query, o.patch, cacheBumped) = IF o.patch = None THEN 0 ELSE cacheBumped[k][o.patch]
        /\ Cache!GenerationOf(o.query, o.patch, cacheData) = IF o.patch = None THEN 0 ELSE cacheData[k][o.patch]
    BY <1>2, CacheGenerationIs
  <2> HIDE DEF k
  <2>2. o.patch # None => cacheBumped[k][o.patch] <= cacheData[k][o.patch]
    BY <1>2 DEF Cache!IInv, Cache!CountersFollow, k
  <2> QED BY <2>1, <2>2
<1>6. /\ page = [patch |-> o.patch, rank |-> Cache!RankScope(o.query),
                 rows |-> Cache!GenerationOf(o.query, o.patch, cacheData)]
  BY <1>2, CachePageIs
<1> HIDE DEF page
<1>7. page \in Cache!Page /\ page.patch = o.patch /\ page.rank = Cache!RankScope(o.query)
      /\ page.rows = Cache!GenerationOf(o.query, o.patch, cacheData)
  BY <1>2, <1>4, <1>6 DEF Cache!Page
<1>8. page.rows >= o.since
  BY <1>1, <1>2, <1>4, <1>5, <1>7 DEF Cache!PromiseFits
<1>9. r \in Cache!RequestType
  BY <1>1, <1>7 DEF Cache!RequestType
<1>10. /\ r.step = "recheck" /\ r.query = o.query /\ r.patch = o.patch
       /\ r.gen = o.gen /\ r.since = o.since /\ r.page = page
  BY <1>1 DEF Cache!RequestType
<1>11. cacheRequest' = [cacheRequest EXCEPT ![c] = r]
  BY CacheRequestFacts DEF Cache!ReadRows, page
<1> HIDE DEF r
<1>12. Cache!PromiseFits(r) /\ Cache!AnswerFits(r)
  BY <1>1, <1>7, <1>8, <1>10 DEF Cache!PromiseFits, Cache!AnswerFits
<1> QED BY <1>1, <1>3, <1>9, <1>10, <1>11, <1>12, CachePagesStay, CacheRequestStep

(* A page is kept for storing under the generation it was read under. *)
LEMMA CacheRecheckKeepsIInv ==
  ASSUME Cache!ConstantsAssumption, Cache!IInv, NEW c \in CacheClient, Cache!Recheck(c)
  PROVE  Cache!IInv'
<1> DEFINE o == cacheRequest[c]
           r == [o EXCEPT !.step = "store", !.gen = o.gen]
           f == [o EXCEPT !.step = "done", !.page = o.page]
<1>1. o \in Cache!RequestType /\ Cache!OnTheWay(o) /\ Cache!PromiseFits(o) /\ Cache!AnswerFits(o)
  BY CacheRequestFacts DEF Cache!Recheck, Cache!OnTheWay
<1>2. cacheAsked' \in 0..CacheMaxRequests /\ cacheRedisFaults' \in 0..CacheMaxFaults
      /\ UNCHANGED <<cacheData, cacheGeneration, cacheBumped, cacheOwed, cachePages, cacheRewrites>>
  BY CacheRequestFacts DEF Cache!Recheck, Cache!Works, Cache!Fails, Cache!OnlyRequest
<1>3. CASE cacheRequest' = [cacheRequest EXCEPT ![c] = r]
  <2>1. r \in Cache!RequestType
    BY <1>1 DEF Cache!RequestType
  <2>2. /\ r.step = "store" /\ r.query = o.query /\ r.patch = o.patch
        /\ r.gen = o.gen /\ r.since = o.since /\ r.page = o.page
    BY <1>1 DEF Cache!RequestType
  <2> HIDE DEF r
  <2>3. Cache!PromiseFits(r) /\ Cache!AnswerFits(r)
    BY <1>1, <2>2 DEF Cache!PromiseFits, Cache!AnswerFits
  <2> QED BY <1>1, <1>2, <1>3, <2>1, <2>2, <2>3, CachePagesStay, CacheRequestStep
<1>4. CASE cacheRequest' = [cacheRequest EXCEPT ![c] = f]
  <2>1. f \in Cache!RequestType
    BY <1>1 DEF Cache!RequestType, Cache!AnswerFits
  <2>2. /\ f.step = "done" /\ f.query = o.query /\ f.patch = o.patch
        /\ f.since = o.since /\ f.page = o.page
    BY <1>1 DEF Cache!RequestType
  <2> HIDE DEF f
  <2>3. Cache!AnswerFits(f) /\ ~Cache!OnTheWay(f)
    BY <1>1, <2>2 DEF Cache!AnswerFits, Cache!OnTheWay
  <2> QED BY <1>2, <1>4, <2>1, <2>2, <2>3, CachePagesStay, CacheRequestStep
<1> QED BY <1>3, <1>4, CacheRequestFacts DEF Cache!Recheck, Cache!MayStore, Cache!Respond

(* What is stored is as new as the generation of its key promises. *)
LEMMA CacheStoreKeepsIInv ==
  ASSUME Cache!ConstantsAssumption, Cache!IInv, NEW c \in CacheClient, Cache!Store(c)
  PROVE  Cache!IInv'
<1> DEFINE o == cacheRequest[c]
           key == Cache!PageKey(o.query, o.patch, o.gen)
           f == [o EXCEPT !.step = "done", !.page = o.page]
<1>1. o \in Cache!RequestType /\ Cache!OnTheWay(o) /\ Cache!PromiseFits(o) /\ Cache!AnswerFits(o)
  BY CacheRequestFacts DEF Cache!Store, Cache!OnTheWay
<1>2. /\ o.query \in Cache!Query /\ Cache!Scoped(o.query, o.patch) /\ o.patch \in CachePatch \cup {None}
  BY <1>1 DEF Cache!PromiseFits, Cache!RequestType
<1>3. cacheAsked' \in 0..CacheMaxRequests /\ cacheRedisFaults' \in 0..CacheMaxFaults
      /\ UNCHANGED <<cacheData, cacheGeneration, cacheBumped, cacheOwed, cacheRewrites>>
  BY CacheRequestFacts DEF Cache!Store, Cache!Works, Cache!Fails
<1>4. /\ f \in Cache!RequestType /\ Cache!AnswerFits(f) /\ ~Cache!OnTheWay(f)
      /\ cacheRequest' = [cacheRequest EXCEPT ![c] = f]
  <2>1. f \in Cache!RequestType
    BY <1>1 DEF Cache!RequestType, Cache!AnswerFits
  <2>2. /\ f.step = "done" /\ f.query = o.query /\ f.patch = o.patch
        /\ f.since = o.since /\ f.page = o.page
    BY <1>1 DEF Cache!RequestType
  <2>3. cacheRequest' = [cacheRequest EXCEPT ![c] = f]
    BY CacheRequestFacts DEF Cache!Store, Cache!Respond
  <2> HIDE DEF f
  <2> QED BY <1>1, <2>1, <2>2, <2>3 DEF Cache!AnswerFits, Cache!OnTheWay
<1> HIDE DEF f
<1>5. CASE UNCHANGED cachePages
  BY <1>3, <1>4, <1>5, CachePagesStay, CacheRequestStep
<1>6. CASE cachePages' = [k \in DOMAIN cachePages \cup {key} |-> IF k = key THEN o.page ELSE cachePages[k]]
  <2>1. \A k \in DOMAIN cachePages' : cachePages'[k] \in Cache!Page
    BY <1>1, <1>6 DEF Cache!IInv, Cache!TypeOK, Cache!AnswerFits
  <2>2. ASSUME NEW q \in Cache!Query, NEW p \in CachePatch \cup {None}, NEW g \in 0..CacheMaxWrites,
               Cache!Scoped(q, p), Cache!PageKey(q, p, g) \in DOMAIN cachePages'
        PROVE  Cache!PageFits(q, p, g, cachePages'[Cache!PageKey(q, p, g)])
    <3>1. CASE Cache!PageKey(q, p, g) = key
      <4>1. /\ Cache!SameScope(q, o.query) /\ p = o.patch /\ g = o.gen
            /\ Cache!RankScope(q) = Cache!RankScope(o.query)
        BY <1>2, <3>1, CacheKeysDiffer
      <4>2. /\ Cache!GenerationOf(q, p, cacheGeneration) = Cache!GenerationOf(o.query, o.patch, cacheGeneration)
            /\ Cache!GenerationOf(q, p, cacheBumped) = Cache!GenerationOf(o.query, o.patch, cacheBumped)
        BY <1>2, <2>2, <4>1, CacheGenerationIs DEF Cache!SameScope
      <4>3. cachePages'[Cache!PageKey(q, p, g)] = o.page
        BY <1>6, <3>1
      <4>4. g = Cache!GenerationOf(q, p, cacheGeneration) => o.page.rows >= Cache!GenerationOf(q, p, cacheBumped)
        BY <1>1, <4>1, <4>2 DEF Cache!PromiseFits, Cache!AnswerFits
      <4>5. ASSUME NEW d \in CacheClient, Cache!OnTheWay(cacheRequest[d]), Cache!SameScope(cacheRequest[d].query, q),
                   cacheRequest[d].patch = p, cacheRequest[d].gen = g
            PROVE  o.page.rows >= cacheRequest[d].since
        <5>1. cacheRequest[d].since = o.since
          BY <1>1, <4>1, <4>5 DEF Cache!IInv, Cache!GenerationsPromise, Cache!SameScope
        <5> QED BY <1>1, <5>1 DEF Cache!AnswerFits
      <4> QED BY <1>1, <4>1, <4>2, <4>3, <4>4, <4>5 DEF Cache!PageFits, Cache!PromiseFits, Cache!AnswerFits
    <3>2. CASE Cache!PageKey(q, p, g) # key
      <4>1. Cache!PageKey(q, p, g) \in DOMAIN cachePages
            /\ cachePages'[Cache!PageKey(q, p, g)] = cachePages[Cache!PageKey(q, p, g)]
        BY <1>6, <2>2, <3>2
      <4>2. Cache!PageFits(q, p, g, cachePages[Cache!PageKey(q, p, g)])
        BY <2>2, <4>1 DEF Cache!IInv, Cache!PagesFit
      <4> QED BY <4>1, <4>2
    <3> QED BY <3>1, <3>2
  <2> QED BY <1>3, <1>4, <2>1, <2>2, CacheRequestStep
<1> QED BY <1>5, <1>6 DEF Cache!Store

-----------------------------------------------------------------------------
(* The steps of Redis and of the workers.                                  *)

(* The counters stay in their range when one of them is set within it. *)
LEMMA CacheCounterSet ==
  ASSUME Cache!ConstantsAssumption, NEW f \in [Cache!Kind -> [CachePatch -> 0..CacheMaxWrites]], NEW k \in Cache!Kind, NEW p \in CachePatch,
         NEW v \in 0..CacheMaxWrites
  PROVE  [f EXCEPT ![k][p] = v] \in [Cache!Kind -> [CachePatch -> 0..CacheMaxWrites]]
<1>1. [f[k] EXCEPT ![p] = v] \in [CachePatch -> 0..CacheMaxWrites]
  OBVIOUS
<1>2. [f EXCEPT ![k][p] = v] = [f EXCEPT ![k] = [f[k] EXCEPT ![p] = v]]
  OBVIOUS
<1> QED BY <1>1, <1>2

(* Requests and pages fit as long as counters stand and no page is added. *)
LEMMA CacheFitsStay ==
  ASSUME Cache!ConstantsAssumption, Cache!IInv, UNCHANGED <<cacheGeneration, cacheBumped, cacheRequest>>,
         DOMAIN cachePages' \subseteq DOMAIN cachePages,
         \A k \in DOMAIN cachePages' : cachePages'[k] = cachePages[k]
  PROVE  Cache!RequestsFit' /\ Cache!GenerationsPromise' /\ Cache!PagesFit'
<1>1. Cache!RequestsFit' /\ Cache!GenerationsPromise'
  BY DEF Cache!IInv, Cache!RequestsFit, Cache!GenerationsPromise, Cache!OnTheWay, Cache!SameScope,
         Cache!PromiseFits, Cache!AnswerFits, Cache!Scoped, Cache!GenerationOf, Cache!StatsGeneration, Cache!BuildGeneration,
         Cache!MatchupGeneration
<1>2. Cache!PagesFit'
  <2> SUFFICES ASSUME NEW q \in Cache!Query, NEW p \in CachePatch \cup {None}, NEW g \in 0..CacheMaxWrites,
                      Cache!Scoped(q, p), Cache!PageKey(q, p, g) \in DOMAIN cachePages'
               PROVE  Cache!PageFits(q, p, g, cachePages[Cache!PageKey(q, p, g)])'
    BY DEF Cache!PagesFit, Cache!Scoped, Cache!PageKey, Cache!FiltersKey, Cache!TableKey, Cache!ChampionKey, Cache!BuildsKey, Cache!MatchupsKey
  <2>1. Cache!PageFits(q, p, g, cachePages'[Cache!PageKey(q, p, g)])
    BY CachePagesStay
  <2> QED BY <2>1 DEF Cache!PageFits, Cache!OnTheWay, Cache!SameScope
<1> QED BY <1>1, <1>2

(* A page less. *)
LEMMA CacheExpireKeepsIInv ==
  ASSUME Cache!ConstantsAssumption, Cache!IInv, NEW key, Cache!Expire(key)
  PROVE  Cache!IInv'
<1>1. /\ UNCHANGED <<cacheData, cacheGeneration, cacheBumped, cacheOwed, cacheRequest, cacheAsked, cacheRewrites, cacheRedisFaults>>
      /\ DOMAIN cachePages' \subseteq DOMAIN cachePages
      /\ \A k \in DOMAIN cachePages' : cachePages'[k] = cachePages[k]
  BY DEF Cache!Expire
<1>2. Cache!TypeOK'
  BY <1>1, CachePagesStay DEF Cache!IInv, Cache!TypeOK
<1>3. Cache!CountersFollow'
  BY <1>1 DEF Cache!IInv, Cache!CountersFollow
<1>4. Cache!RequestsFit' /\ Cache!GenerationsPromise' /\ Cache!PagesFit'
  BY <1>1, CacheFitsStay
<1> QED BY <1>2, <1>3, <1>4 DEF Cache!IInv

(* New rows promise nothing by themselves. *)
LEMMA CacheRewriteKeepsIInv ==
  ASSUME Cache!ConstantsAssumption, Cache!IInv, NEW k \in Cache!Kind, NEW p \in CachePatch, Cache!Rewrite(k, p)
  PROVE  Cache!IInv'
<1>1. /\ Cache!TypeOK /\ Cache!CountersFollow /\ CacheMaxWrites \in Nat
      /\ UNCHANGED <<cacheGeneration, cacheBumped, cachePages, cacheRequest, cacheAsked, cacheRedisFaults>>
      /\ cacheRewrites \in 0..CacheMaxWrites /\ cacheRewrites < CacheMaxWrites /\ cacheRewrites' = cacheRewrites + 1
      /\ cacheData' = [cacheData EXCEPT ![k][p] = @ + 1] /\ cacheOwed' = cacheOwed \cup {<<k, p>>}
  BY CacheConstants DEF Cache!Rewrite, Cache!IInv, Cache!TypeOK
<1>2. \A l \in Cache!Kind, s \in CachePatch :
        /\ cacheData[l][s] \in Nat /\ cacheGeneration[l][s] \in Nat /\ cacheBumped[l][s] \in Nat
        /\ cacheData'[l][s] = IF l = k /\ s = p THEN cacheData[l][s] + 1 ELSE cacheData[l][s]
  BY <1>1 DEF Cache!TypeOK
<1>3. ASSUME NEW l \in Cache!Kind, NEW s \in CachePatch
      PROVE  /\ cacheGeneration'[l][s] + (IF <<l, s>> \in cacheOwed' THEN 1 ELSE 0) <= cacheData'[l][s]
             /\ cacheData'[l][s] <= cacheRewrites'
             /\ cacheBumped'[l][s] <= cacheData'[l][s]
             /\ cacheGeneration'[l][s] = 0 => cacheBumped'[l][s] = 0
  <2>1. /\ cacheGeneration[l][s] + (IF <<l, s>> \in cacheOwed THEN 1 ELSE 0) <= cacheData[l][s]
        /\ cacheData[l][s] <= cacheRewrites /\ cacheBumped[l][s] <= cacheData[l][s]
        /\ cacheGeneration[l][s] = 0 => cacheBumped[l][s] = 0
    BY <1>1 DEF Cache!CountersFollow
  <2>2. <<l, s>> \in cacheOwed' <=> <<l, s>> \in cacheOwed \/ (l = k /\ s = p)
    BY <1>1
  <2>3. cacheData[l][s] \in Nat /\ cacheGeneration[l][s] \in Nat /\ cacheBumped[l][s] \in Nat
        /\ cacheData'[l][s] = IF l = k /\ s = p THEN cacheData[l][s] + 1 ELSE cacheData[l][s]
    BY <1>2
  <2> QED BY <1>1, <2>1, <2>2, <2>3
<1>4. Cache!CountersFollow'
  BY <1>3 DEF Cache!CountersFollow
<1>5. cacheData' \in [Cache!Kind -> [CachePatch -> 0..CacheMaxWrites]]
  <2>1. cacheData[k][p] <= cacheRewrites /\ cacheData[k][p] \in Nat
    BY <1>1, <1>2 DEF Cache!CountersFollow
  <2>2. cacheData[k][p] + 1 \in 0..CacheMaxWrites
    BY <1>1, <2>1
  <2> QED BY <1>1, <2>2, CacheCounterSet DEF Cache!TypeOK
<1>6. Cache!TypeOK'
  BY <1>1, <1>5 DEF Cache!TypeOK
<1>7. Cache!RequestsFit' /\ Cache!GenerationsPromise' /\ Cache!PagesFit'
  BY <1>1, CacheFitsStay
<1> QED BY <1>4, <1>6, <1>7 DEF Cache!IInv

(* A new generation is one that no request has and no page is stored under. *)
LEMMA CacheBumpKeepsIInv ==
  ASSUME Cache!ConstantsAssumption, Cache!IInv, NEW k \in Cache!Kind, NEW p \in CachePatch, Cache!Bump(k, p)
  PROVE  Cache!IInv'
<1>1. /\ Cache!TypeOK /\ Cache!CountersFollow /\ CacheMaxWrites \in Nat
      /\ UNCHANGED <<cacheData, cachePages, cacheRequest, cacheAsked, cacheRewrites>>
      /\ <<k, p>> \in cacheOwed /\ cacheOwed' = cacheOwed \ {<<k, p>>}
      /\ cacheRedisFaults' \in 0..CacheMaxFaults
      /\ \/ UNCHANGED <<cacheGeneration, cacheBumped>>
         \/ /\ cacheGeneration' = [cacheGeneration EXCEPT ![k][p] = @ + 1]
            /\ cacheBumped' = [cacheBumped EXCEPT ![k][p] = cacheData[k][p]]
  BY CacheConstants DEF Cache!Bump, Cache!IInv, Cache!TypeOK, Cache!Works, Cache!Fails
<1>2. ASSUME NEW l \in Cache!Kind, NEW s \in CachePatch
      PROVE  /\ cacheData[l][s] \in 0..CacheMaxWrites /\ cacheGeneration[l][s] \in 0..CacheMaxWrites
             /\ cacheBumped[l][s] \in 0..CacheMaxWrites
             /\ cacheGeneration[l][s] + (IF <<l, s>> \in cacheOwed THEN 1 ELSE 0) <= cacheData[l][s]
             /\ cacheData[l][s] <= cacheRewrites /\ cacheBumped[l][s] <= cacheData[l][s]
             /\ cacheGeneration[l][s] = 0 => cacheBumped[l][s] = 0
  BY <1>1 DEF Cache!TypeOK, Cache!CountersFollow
<1>3. ASSUME NEW l \in Cache!Kind, NEW s \in CachePatch
      PROVE  \/ cacheGeneration'[l][s] = cacheGeneration[l][s] /\ cacheBumped'[l][s] = cacheBumped[l][s]
             \/ /\ l = k /\ s = p
                /\ cacheGeneration'[l][s] = cacheGeneration[l][s] + 1 /\ cacheBumped'[l][s] = cacheData[l][s]
  BY <1>1 DEF Cache!TypeOK
<1>4. Cache!CountersFollow'
  <2> SUFFICES ASSUME NEW l \in Cache!Kind, NEW s \in CachePatch
               PROVE  /\ cacheGeneration'[l][s] + (IF <<l, s>> \in cacheOwed' THEN 1 ELSE 0) <= cacheData[l][s]
                      /\ cacheData[l][s] <= cacheRewrites
                      /\ cacheBumped'[l][s] <= cacheData[l][s]
                      /\ cacheGeneration'[l][s] = 0 => cacheBumped'[l][s] = 0
    BY <1>1 DEF Cache!CountersFollow
  <2>1. <<l, s>> \in cacheOwed' <=> <<l, s>> \in cacheOwed /\ ~(l = k /\ s = p)
    BY <1>1
  <2>2. l = k /\ s = p => <<l, s>> \in cacheOwed
    BY <1>1
  <2> QED BY <1>2, <1>3, <2>1, <2>2
<1>5. /\ cacheGeneration' \in [Cache!Kind -> [CachePatch -> 0..CacheMaxWrites]]
      /\ cacheBumped' \in [Cache!Kind -> [CachePatch -> 0..CacheMaxWrites]]
  <2>1. cacheGeneration[k][p] + 1 \in 0..CacheMaxWrites /\ cacheData[k][p] \in 0..CacheMaxWrites
    BY <1>1, <1>2
  <2>2. /\ cacheGeneration \in [Cache!Kind -> [CachePatch -> 0..CacheMaxWrites]]
        /\ cacheBumped \in [Cache!Kind -> [CachePatch -> 0..CacheMaxWrites]]
    BY <1>1 DEF Cache!TypeOK
  <2>3. /\ [cacheGeneration EXCEPT ![k][p] = cacheGeneration[k][p] + 1]
             \in [Cache!Kind -> [CachePatch -> 0..CacheMaxWrites]]
        /\ [cacheBumped EXCEPT ![k][p] = cacheData[k][p]] \in [Cache!Kind -> [CachePatch -> 0..CacheMaxWrites]]
    BY <2>1, <2>2, CacheCounterSet
  <2> QED BY <1>1, <2>2, <2>3
<1>6. Cache!TypeOK'
  BY <1>1, <1>5 DEF Cache!TypeOK
<1>7. ASSUME NEW q \in Cache!Query, NEW s \in CachePatch \cup {None}, Cache!Scoped(q, s)
      PROVE  /\ Cache!GenerationOf(q, s, cacheGeneration) \in Nat
             /\ Cache!GenerationOf(q, s, cacheBumped) \in Nat /\ Cache!GenerationOf(q, s, cacheBumped') \in Nat
             /\ Cache!GenerationOf(q, s, cacheBumped) <= Cache!GenerationOf(q, s, cacheBumped')
             /\ \/ /\ Cache!GenerationOf(q, s, cacheGeneration') = Cache!GenerationOf(q, s, cacheGeneration)
                   /\ Cache!GenerationOf(q, s, cacheBumped') = Cache!GenerationOf(q, s, cacheBumped)
                \/ Cache!GenerationOf(q, s, cacheGeneration') = Cache!GenerationOf(q, s, cacheGeneration) + 1
  <2> DEFINE l == Cache!KindOf[q.endpoint]
  <2>1. l \in Cache!Kind
    BY CacheEndpoints
  <2>2. /\ Cache!GenerationOf(q, s, cacheGeneration) = IF s = None THEN 0 ELSE cacheGeneration[l][s]
        /\ Cache!GenerationOf(q, s, cacheGeneration') = IF s = None THEN 0 ELSE cacheGeneration'[l][s]
        /\ Cache!GenerationOf(q, s, cacheBumped) = IF s = None THEN 0 ELSE cacheBumped[l][s]
        /\ Cache!GenerationOf(q, s, cacheBumped') = IF s = None THEN 0 ELSE cacheBumped'[l][s]
    BY <1>7, CacheGenerationIs
  <2> HIDE DEF l
  <2>3. CASE s = None
    BY <2>2, <2>3
  <2>4. CASE s \in CachePatch /\ s # None
    <3>1. /\ cacheData[l][s] \in Nat /\ cacheGeneration[l][s] \in Nat /\ cacheBumped[l][s] \in Nat
          /\ cacheBumped[l][s] <= cacheData[l][s]
      <4>1. /\ cacheData[l][s] \in 0..CacheMaxWrites /\ cacheGeneration[l][s] \in 0..CacheMaxWrites
            /\ cacheBumped[l][s] \in 0..CacheMaxWrites /\ cacheBumped[l][s] <= cacheData[l][s]
        BY <1>2, <2>1, <2>4
      <4> QED BY <4>1
    <3>2. \/ cacheGeneration'[l][s] = cacheGeneration[l][s] /\ cacheBumped'[l][s] = cacheBumped[l][s]
          \/ cacheGeneration'[l][s] = cacheGeneration[l][s] + 1 /\ cacheBumped'[l][s] = cacheData[l][s]
      BY <1>3, <2>1, <2>4
    <3> QED BY <2>2, <2>4, <3>1, <3>2
  <2> QED BY <2>3, <2>4
<1>8. Cache!RequestsFit'
  <2> SUFFICES ASSUME NEW c \in CacheClient
               PROVE  /\ Cache!OnTheWay(cacheRequest[c]) => Cache!PromiseFits(cacheRequest[c])'
                      /\ cacheRequest[c].step \in {"recheck", "store", "done"} => Cache!AnswerFits(cacheRequest[c])'
    BY <1>1 DEF Cache!RequestsFit, Cache!OnTheWay
  <2>1. ASSUME Cache!OnTheWay(cacheRequest[c]) PROVE Cache!PromiseFits(cacheRequest[c])'
    <3> DEFINE r == cacheRequest[c]
    <3>1. Cache!PromiseFits(r) /\ r \in Cache!RequestType
      BY <2>1, CacheRequestFacts
    <3>2. r.query \in Cache!Query /\ Cache!Scoped(r.query, r.patch) /\ r.patch \in CachePatch \cup {None}
          /\ r.gen \in Nat /\ r.since \in Nat
      BY <3>1 DEF Cache!PromiseFits, Cache!RequestType
    <3>3. /\ r.gen <= Cache!GenerationOf(r.query, r.patch, cacheGeneration')
          /\ r.since <= Cache!GenerationOf(r.query, r.patch, cacheBumped')
          /\ r.gen = Cache!GenerationOf(r.query, r.patch, cacheGeneration')
               => r.since = Cache!GenerationOf(r.query, r.patch, cacheBumped')
          /\ r.gen = 0 => r.since = 0
      BY <1>7, <3>1, <3>2 DEF Cache!PromiseFits
    <3> HIDE DEF r
    <3>4. cacheRequest'[c] = r
      BY <1>1 DEF r
    <3>5. Cache!GenerationOf(cacheRequest[c].query, cacheRequest[c].patch, cacheGeneration)'
            = Cache!GenerationOf(r.query, r.patch, cacheGeneration')
          /\ Cache!GenerationOf(cacheRequest[c].query, cacheRequest[c].patch, cacheBumped)'
            = Cache!GenerationOf(r.query, r.patch, cacheBumped')
      BY <3>4 DEF Cache!GenerationOf, Cache!StatsGeneration, Cache!BuildGeneration, Cache!MatchupGeneration
    <3> QED BY <3>2, <3>3, <3>4, <3>5 DEF Cache!PromiseFits, Cache!Scoped
  <2>2. cacheRequest[c].step \in {"recheck", "store", "done"} => Cache!AnswerFits(cacheRequest[c])'
    BY <1>1, CacheRequestFacts DEF Cache!AnswerFits
  <2> QED BY <2>1, <2>2
<1>9. Cache!GenerationsPromise'
  BY <1>1 DEF Cache!IInv, Cache!GenerationsPromise, Cache!OnTheWay, Cache!SameScope
<1>10. Cache!PagesFit'
  <2> SUFFICES ASSUME NEW q \in Cache!Query, NEW s \in CachePatch \cup {None}, NEW g \in 0..CacheMaxWrites,
                      Cache!Scoped(q, s), Cache!PageKey(q, s, g) \in DOMAIN cachePages
               PROVE  Cache!PageFits(q, s, g, cachePages[Cache!PageKey(q, s, g)])'
    BY <1>1 DEF Cache!PagesFit, Cache!Scoped, Cache!PageKey, Cache!FiltersKey, Cache!TableKey, Cache!ChampionKey, Cache!BuildsKey,
                Cache!MatchupsKey
  <2> DEFINE page == cachePages[Cache!PageKey(q, s, g)]
  <2>1. Cache!PageFits(q, s, g, page)
    BY DEF Cache!IInv, Cache!PagesFit
  <2> HIDE DEF page
  <2>2. /\ g <= Cache!GenerationOf(q, s, cacheGeneration')
        /\ g = Cache!GenerationOf(q, s, cacheGeneration') => page.rows >= Cache!GenerationOf(q, s, cacheBumped')
    BY <1>7, <2>1, <1>1 DEF Cache!PageFits
  <2>3. Cache!GenerationOf(q, s, cacheGeneration)' = Cache!GenerationOf(q, s, cacheGeneration')
        /\ Cache!GenerationOf(q, s, cacheBumped)' = Cache!GenerationOf(q, s, cacheBumped')
        /\ cachePages'[Cache!PageKey(q, s, g)] = page
    BY <1>1 DEF Cache!GenerationOf, Cache!StatsGeneration, Cache!BuildGeneration, Cache!MatchupGeneration, page
  <2>4. \A c \in CacheClient : cacheRequest'[c] = cacheRequest[c]
    BY <1>1
  <2> QED BY <2>1, <2>2, <2>3, <2>4 DEF Cache!PageFits, Cache!OnTheWay, Cache!SameScope, page
<1> QED BY <1>4, <1>6, <1>8, <1>9, <1>10 DEF Cache!IInv

-----------------------------------------------------------------------------
(* The theorems.                                                           *)

(* Every step keeps the inductive invariant. *)
LEMMA CacheNextIInv ==
  ASSUME Cache!ConstantsAssumption, Cache!AskedAssumption
  PROVE  Cache!IInv /\ [Cache!Next]_(Cache!vars) => Cache!IInv'
<1> SUFFICES ASSUME Cache!IInv, [Cache!Next]_(Cache!vars) PROVE Cache!IInv'
  OBVIOUS
<1>1. ASSUME NEW c \in CacheClient, Cache!ClientStep(c) PROVE Cache!IInv'
  BY <1>1, CacheAskKeepsIInv, CacheReadGenerationKeepsIInv, CacheLookUpKeepsIInv, CacheReadRowsKeepsIInv,
     CacheRecheckKeepsIInv, CacheStoreKeepsIInv DEF Cache!ClientStep
<1>2. ASSUME NEW key \in DOMAIN cachePages, Cache!Expire(key) PROVE Cache!IInv'
  BY <1>2, CacheExpireKeepsIInv
<1>3. ASSUME NEW k \in Cache!Kind, NEW p \in CachePatch, Cache!Rewrite(k, p) \/ Cache!Bump(k, p) PROVE Cache!IInv'
  BY <1>3, CacheRewriteKeepsIInv, CacheBumpKeepsIInv
<1>4. CASE UNCHANGED Cache!vars
  <2>1. Cache!TypeOK' /\ Cache!CountersFollow'
    BY <1>4 DEF Cache!vars, Cache!IInv, Cache!TypeOK, Cache!CountersFollow
  <2>2. Cache!RequestsFit' /\ Cache!GenerationsPromise' /\ Cache!PagesFit'
    BY <1>4, CacheFitsStay DEF Cache!vars
  <2> QED BY <2>1, <2>2 DEF Cache!IInv
<1> QED BY <1>1, <1>2, <1>3, <1>4 DEF Cache!Next

(* The inductive invariant holds of every behaviour: counters follow the
   commits they announce, a generation is one promise to all who read it, and
   a page holds what its key stands for. *)
THEOREM CacheInductive ==
  ASSUME Cache!ConstantsAssumption, Cache!AskedAssumption
  PROVE  Cache!Spec => []Cache!IInv
<1>1. Cache!Init => Cache!IInv
  BY CacheInitIInv
<1>2. Cache!IInv /\ [Cache!Next]_(Cache!vars) => Cache!IInv'
  BY CacheNextIInv
<1> QED BY <1>1, <1>2, PTL DEF Cache!Spec

(* The variables have their types: no counter passes the number of rewrites,
   and no page but one read for its key is ever in the cache. *)
THEOREM CacheTypeCorrect ==
  ASSUME Cache!ConstantsAssumption, Cache!AskedAssumption
  PROVE  Cache!Spec => []Cache!TypeOK
<1>1. Cache!IInv => Cache!TypeOK
  BY DEF Cache!IInv
<1> QED BY <1>1, CacheInductive, PTL

(* A response is about the patch and the rank scope asked for, and shows rows
   at least as new as the last INCR before its generation was read: whatever
   the interleaving of fills, rewrites, INCRs and failing Redis calls. *)
THEOREM CacheCurrent ==
  ASSUME Cache!ConstantsAssumption, Cache!AskedAssumption
  PROVE  Cache!Spec => []Cache!ResponsesAreCurrent
<1>1. Cache!IInv => Cache!ResponsesAreCurrent
  BY DEF Cache!IInv, Cache!RequestsFit, Cache!AnswerFits, Cache!ResponsesAreCurrent
<1> QED BY <1>1, CacheInductive, PTL

HIDE DEF cacheData, cacheGeneration, cacheBumped, cacheOwed, cachePages,
         cacheRequest, cacheAsked, cacheRewrites, cacheRedisFaults

-----------------------------------------------------------------------------
(***************************************************************************)
(* The timelines of the matches.                                           *)
(***************************************************************************)
USE DEF timelineStatus, timelineLinked, timelineTimeline, timelineEvents,
        timelineFrames, timelineIngestion, timelineJob, timelineWork,
        timelineCall, timelineDisturbed

-----------------------------------------------------------------------------
(* What the invariant says of one run, one job and one call.               *)

LEMMA TimelineRunFacts ==
  ASSUME Timeline!TypeOK, NEW w \in TimelineWorkers
  PROVE  /\ timelineWork[w] = Timeline!Idle \/ timelineWork[w] \in Timeline!RunType
         /\ timelineWork[w].pc # "idle" => timelineWork[w] # Timeline!Idle
         /\ timelineWork[w] # Timeline!Idle => timelineWork[w].match \in TimelineMatches /\ timelineWork[w] \in Timeline!RunType /\ timelineWork[w].pc # "idle"
         /\ timelineWork[w].pc \in {"read", "fetch", "store", "giveUp"} => timelineWork[w] # Timeline!Idle
BY DEF Timeline!TypeOK, Timeline!RunType, Timeline!Idle

\* A run ends, and its job moves if it holds it: the other runs keep theirs.
LEMMA TimelineEndRunStep ==
  ASSUME Timeline!ConstantsAssumption, Timeline!IInv, NEW w \in TimelineWorkers, timelineWork[w] # Timeline!Idle,
         NEW state \in {"completed", "failed", "delayed"},
         Timeline!EndRun(w, state), UNCHANGED timelineDisturbed
  PROVE  /\ timelineWork' \in [TimelineWorkers -> {Timeline!Idle} \cup Timeline!RunType]
         /\ timelineWork' = [timelineWork EXCEPT ![w] = Timeline!Idle]
         /\ timelineJob' \in [TimelineMatches -> Timeline!JobType]
         /\ Timeline!RunsHoldTheirJobs' /\ Timeline!JobsAreOrderly'
<1> DEFINE m == timelineWork[w].match
<1>1. m \in TimelineMatches /\ timelineJob \in [TimelineMatches -> Timeline!JobType] /\ timelineWork \in [TimelineWorkers -> {Timeline!Idle} \cup Timeline!RunType]
  BY TimelineRunFacts DEF Timeline!IInv, Timeline!TypeOK
<1>2. timelineWork' = [timelineWork EXCEPT ![w] = Timeline!Idle] /\ timelineWork' \in [TimelineWorkers -> {Timeline!Idle} \cup Timeline!RunType]
  BY <1>1 DEF Timeline!EndRun
<1>3. CASE ~Timeline!Holds(w)
  <2>1. timelineJob' = timelineJob
    BY <1>3 DEF Timeline!EndRun
  <2>2. Timeline!RunsHoldTheirJobs'
    BY <1>1, <1>2, <2>1 DEF Timeline!IInv, Timeline!RunsHoldTheirJobs, Timeline!Holds
  <2>3. Timeline!JobsAreOrderly'
    BY <2>1 DEF Timeline!IInv, Timeline!JobsAreOrderly
  <2> QED BY <1>1, <1>2, <2>1, <2>2, <2>3
<1>4. CASE Timeline!Holds(w)
  <2>1. timelineJob' = [timelineJob EXCEPT ![m] = [@ EXCEPT !.state = state, !.holder = None]]
    BY <1>1, <1>4 DEF Timeline!EndRun, Timeline!JobType
  <2>2. /\ timelineJob' \in [TimelineMatches -> Timeline!JobType]
        /\ timelineJob'[m].state = state /\ timelineJob'[m].holder = None /\ timelineJob'[m].made = timelineJob[m].made
        /\ \A n \in TimelineMatches : n # m => timelineJob'[n] = timelineJob[n]
    BY <1>1, <2>1 DEF Timeline!JobType, Timeline!LiveStates
  <2>3. timelineJob[m].state # "failed"
    BY <1>1, <1>4 DEF Timeline!IInv, Timeline!JobsAreOrderly, Timeline!Holds, Timeline!ConstantsAssumption
  <2>4. Timeline!JobsAreOrderly'
    BY <1>1, <2>2, <2>3 DEF Timeline!IInv, Timeline!JobsAreOrderly
  <2>5. Timeline!RunsHoldTheirJobs'
    <3> SUFFICES ASSUME NEW v \in TimelineWorkers, timelineWork'[v] # Timeline!Idle, timelineWork'[v].match \notin timelineDisturbed'
                 PROVE  Timeline!Holds(v)'
      BY DEF Timeline!RunsHoldTheirJobs
    <3>1. v # w /\ timelineWork'[v] = timelineWork[v]
      BY <1>1, <1>2
    <3>2. Timeline!Holds(v) /\ timelineWork[v].match \in TimelineMatches
      BY <3>1, TimelineRunFacts DEF Timeline!IInv, Timeline!RunsHoldTheirJobs
    <3>3. timelineWork[v].match # m
      BY <3>1, <3>2, <1>4 DEF Timeline!Holds
    <3> QED BY <3>1, <3>2, <3>3, <2>2 DEF Timeline!Holds
  <2> QED BY <1>2, <2>2, <2>4, <2>5
<1> QED BY <1>3, <1>4

\* What a run is about to write, after a step that only ends runs and changes
\* no row.
LEMMA TimelineStoredIsNotFetchedKept ==
  ASSUME Timeline!IInv, UNCHANGED <<timelineTimeline, timelineDisturbed>>,
         \A v \in TimelineWorkers : timelineWork'[v] = timelineWork[v] \/ timelineWork'[v].pc \in {"idle", "read"}
  PROVE  Timeline!StoredIsNotFetched'
<1> SUFFICES ASSUME NEW v \in TimelineWorkers, timelineWork'[v].pc \in {"fetch", "store", "giveUp"},
                    timelineWork'[v].match \notin timelineDisturbed'
             PROVE  ~Timeline!Stored(timelineWork[v].match)'
  BY DEF Timeline!StoredIsNotFetched
<1>1. timelineWork'[v] = timelineWork[v]
  OBVIOUS
<1> QED BY <1>1 DEF Timeline!IInv, Timeline!StoredIsNotFetched, Timeline!Stored, Timeline!Coverage

\* Coverage, event and frame rows agree after a step that changes none of them.
LEMMA TimelinesKept ==
  ASSUME Timeline!IInv, UNCHANGED Timeline!rowVars
  PROVE  Timeline!TimelinesAreWhole'
BY DEF Timeline!IInv, Timeline!TimelinesAreWhole, Timeline!Stored, Timeline!Coverage, Timeline!rowVars

\* The lack of a job, a job of before the start, and one that was just added.
LEMMA TimelineFreshJob ==
  ASSUME Timeline!ConstantsAssumption
  PROVE  \A j \in {Timeline!NoJob, [Timeline!NoJob EXCEPT !.state = "waiting"]}
                  \cup {[Timeline!NoJob EXCEPT !.state = "waiting", !.ineligible = b] : b \in BOOLEAN} :
           j \in Timeline!JobType /\ j.holder = None /\ j.made = 0 /\ 0 < TimelineMaxAttempts
<1>1. 0 < TimelineMaxAttempts /\ 0 \in 0 .. TimelineMaxAttempts
  BY DEF Timeline!ConstantsAssumption
<1>2. /\ Timeline!NoJob \in Timeline!JobType /\ Timeline!NoJob.holder = None /\ Timeline!NoJob.made = 0
      /\ [Timeline!NoJob EXCEPT !.state = "waiting"] \in Timeline!JobType
      /\ [Timeline!NoJob EXCEPT !.state = "waiting"].holder = None
      /\ [Timeline!NoJob EXCEPT !.state = "waiting"].made = 0
  BY <1>1 DEF Timeline!NoJob, Timeline!JobType, Timeline!LiveStates
<1>3. ASSUME NEW b \in BOOLEAN
      PROVE  LET added == [Timeline!NoJob EXCEPT !.state = "waiting", !.ineligible = b] IN
             added \in Timeline!JobType /\ added.holder = None /\ added.made = 0
  BY <1>1 DEF Timeline!NoJob, Timeline!JobType, Timeline!LiveStates
<1> QED BY <1>1, <1>2, <1>3

LEMMA TimelineInitIInv == ASSUME Timeline!ConstantsAssumption, Timeline!Init PROVE Timeline!IInv
<1> PICK enqueued \in BOOLEAN :
      /\ timelineStatus = [m \in TimelineMatches |-> IF enqueued THEN "COMPLETED" ELSE "absent"]
      /\ timelineLinked = [m \in TimelineMatches |-> enqueued]
      /\ timelineTimeline = [m \in TimelineMatches |->
                       IF enqueued THEN [fetch |-> "SKIPPED", coverage |-> "NONE"] ELSE None]
      /\ timelineJob = [m \in TimelineMatches |-> IF enqueued THEN [Timeline!NoJob EXCEPT !.state = "waiting"] ELSE Timeline!NoJob]
  BY DEF Timeline!Init
<1>1. \A m \in TimelineMatches : /\ timelineJob[m] \in Timeline!JobType /\ timelineJob[m].holder = None
                                 /\ timelineJob[m].made < TimelineMaxAttempts
  BY TimelineFreshJob
<1>2. \A m \in TimelineMatches : timelineTimeline[m] \in Timeline!RowType \cup {None} /\ Timeline!Coverage(m) \in {"none", "NONE"}
  <2> SUFFICES ASSUME NEW m \in TimelineMatches
               PROVE  timelineTimeline[m] \in Timeline!RowType \cup {None} /\ Timeline!Coverage(m) \in {"none", "NONE"}
    OBVIOUS
  <2>1. timelineTimeline[m] = None \/ timelineTimeline[m] = [fetch |-> "SKIPPED", coverage |-> "NONE"]
    OBVIOUS
  <2> QED BY <2>1 DEF Timeline!RowType, Timeline!Coverage
<1>3. timelineJob \in [TimelineMatches -> Timeline!JobType] /\ timelineTimeline \in [TimelineMatches -> Timeline!RowType \cup {None}]
  BY <1>1, <1>2
<1>4. Timeline!TypeOK
  BY <1>3 DEF Timeline!Init, Timeline!TypeOK, Timeline!Idle
<1>5. Timeline!RunsHoldTheirJobs /\ Timeline!StoredIsNotFetched
  BY DEF Timeline!Init, Timeline!RunsHoldTheirJobs, Timeline!StoredIsNotFetched, Timeline!Idle
<1>6. Timeline!JobsAreOrderly
  BY <1>1 DEF Timeline!JobsAreOrderly
<1>7. Timeline!TimelinesAreWhole
  BY <1>2 DEF Timeline!TimelinesAreWhole, Timeline!Stored
<1> QED BY <1>4, <1>5, <1>6, <1>7 DEF Timeline!IInv

-----------------------------------------------------------------------------
(* The ingestion of a match.                                               *)

LEMMA TimelinePersistMatchStep ==
  ASSUME Timeline!ConstantsAssumption, Timeline!IInv, NEW m \in TimelineMatches, Timeline!PersistMatch(m)
  PROVE  Timeline!IInv'
<1> PICK links \in BOOLEAN :
      /\ timelineIngestion' = [timelineIngestion EXCEPT ![m] = [pc |-> "timeline", links |-> links]]
      /\ timelineLinked' = [timelineLinked EXCEPT ![m] = @ \/ links]
  BY DEF Timeline!PersistMatch
<1> USE DEF Timeline!PersistMatch, Timeline!rowVars
<1>1. Timeline!TypeOK'
  BY DEF Timeline!IInv, Timeline!TypeOK
<1>2. Timeline!RunsHoldTheirJobs' /\ Timeline!JobsAreOrderly'
  BY DEF Timeline!IInv, Timeline!RunsHoldTheirJobs, Timeline!JobsAreOrderly, Timeline!Holds
<1>3. Timeline!StoredIsNotFetched'
  BY TimelineStoredIsNotFetchedKept
<1>4. Timeline!TimelinesAreWhole'
  BY TimelinesKept
<1> QED BY <1>1, <1>2, <1>3, <1>4 DEF Timeline!IInv

\* One transaction writes the row and what its coverage promises.
LEMMA TimelinePersistTimelineStep ==
  ASSUME Timeline!ConstantsAssumption, Timeline!TypeOK, Timeline!TimelinesAreWhole, NEW m \in TimelineMatches,
         NEW fetch \in {"FETCHED", "SKIPPED", "FAILED"},
         NEW coverage \in {"NONE", "INELIGIBLE", "STORED"},
         NEW newEvents \in {None, "build", "product"}, NEW newFrames \in {None, "empty", "some"},
         coverage = "STORED" => fetch # "SKIPPED" /\ newEvents = "product" /\ newFrames = "some",
         coverage = "INELIGIBLE" => newEvents = "build" /\ newFrames = "empty",
         Timeline!PersistTimeline(m, fetch, coverage, newEvents, newFrames)
  PROVE  /\ timelineTimeline' \in [TimelineMatches -> Timeline!RowType \cup {None}]
         /\ timelineEvents' \in [TimelineMatches -> {"none", "build", "product"}]
         /\ timelineFrames' \in [TimelineMatches -> BOOLEAN]
         /\ Timeline!TimelinesAreWhole'
         /\ \A n \in TimelineMatches : n # m => (Timeline!Stored(n) <=> Timeline!Stored(n)')
         /\ coverage # "STORED" => ~Timeline!Stored(m)'
<1>1. /\ timelineTimeline' = [timelineTimeline EXCEPT ![m] = [fetch |-> fetch, coverage |-> coverage]]
      /\ timelineEvents' = [timelineEvents EXCEPT ![m] = IF newEvents = None THEN @ ELSE newEvents]
      /\ timelineFrames' = [timelineFrames EXCEPT ![m] = IF newFrames = None THEN @ ELSE newFrames = "some"]
  BY DEF Timeline!PersistTimeline
<1>2. [fetch |-> fetch, coverage |-> coverage] \in Timeline!RowType
  BY DEF Timeline!RowType
<1>3. timelineTimeline' \in [TimelineMatches -> Timeline!RowType \cup {None}]
  BY <1>1, <1>2 DEF Timeline!TypeOK
<1>4. timelineEvents' \in [TimelineMatches -> {"none", "build", "product"}] /\ timelineFrames' \in [TimelineMatches -> BOOLEAN]
  BY <1>1 DEF Timeline!TypeOK
<1>5. \A n \in TimelineMatches : n # m => /\ timelineTimeline'[n] = timelineTimeline[n] /\ timelineEvents'[n] = timelineEvents[n]
                                 /\ timelineFrames'[n] = timelineFrames[n]
  BY <1>1 DEF Timeline!TypeOK
<1>6. \A n \in TimelineMatches : n # m => Timeline!Coverage(n)' = Timeline!Coverage(n)
  BY <1>5 DEF Timeline!Coverage
<1>7. /\ timelineTimeline'[m] = [fetch |-> fetch, coverage |-> coverage]
      /\ Timeline!Coverage(m)' \in {"none", coverage}
  BY <1>1 DEF Timeline!TypeOK, Timeline!Coverage
<1>8. ASSUME coverage = "STORED"
      PROVE  timelineTimeline'[m].fetch # "SKIPPED" /\ timelineEvents'[m] = "product" /\ timelineFrames'[m]
  <2>1. newEvents # None /\ newFrames # None
    BY <1>8 DEF Timeline!ConstantsAssumption
  <2> QED BY <1>1, <1>7, <1>8, <2>1 DEF Timeline!TypeOK
<1>9. ASSUME coverage = "INELIGIBLE" PROVE timelineEvents'[m] = "build" /\ ~timelineFrames'[m]
  <2>1. newEvents # None /\ newFrames # None
    BY <1>9 DEF Timeline!ConstantsAssumption
  <2> QED BY <1>1, <1>9, <2>1 DEF Timeline!TypeOK
<1>10. Timeline!TimelinesAreWhole'
  <2> SUFFICES ASSUME NEW n \in TimelineMatches
               PROVE  /\ Timeline!Stored(n)' => timelineTimeline'[n].fetch # "SKIPPED" /\ timelineEvents'[n] = "product" /\ timelineFrames'[n]
                      /\ Timeline!Coverage(n)' = "INELIGIBLE" => timelineEvents'[n] = "build" /\ ~timelineFrames'[n]
    BY DEF Timeline!TimelinesAreWhole
  <2>1. CASE n = m
    BY <2>1, <1>7, <1>8, <1>9 DEF Timeline!Stored
  <2>2. CASE n # m
    BY <2>2, <1>5, <1>6 DEF Timeline!Stored, Timeline!TimelinesAreWhole
  <2> QED BY <2>1, <2>2
<1> QED BY <1>3, <1>4, <1>6, <1>7, <1>10 DEF Timeline!Stored

LEMMA TimelinePersistFetchedStep ==
  ASSUME Timeline!ConstantsAssumption, Timeline!TypeOK, Timeline!TimelinesAreWhole, NEW m \in TimelineMatches,
         NEW fetch \in {"FETCHED", "FAILED"}, NEW product \in BOOLEAN,
         Timeline!PersistFetched(m, fetch, product)
  PROVE  /\ timelineTimeline' \in [TimelineMatches -> Timeline!RowType \cup {None}]
         /\ timelineEvents' \in [TimelineMatches -> {"none", "build", "product"}]
         /\ timelineFrames' \in [TimelineMatches -> BOOLEAN]
         /\ Timeline!TimelinesAreWhole'
         /\ \A n \in TimelineMatches : n # m => (Timeline!Stored(n) <=> Timeline!Stored(n)')
<1>1. CASE product
  <2>1. Timeline!PersistTimeline(m, fetch, "STORED", "product", "some")
    BY <1>1 DEF Timeline!PersistFetched
  <2> QED BY <2>1, TimelinePersistTimelineStep
<1>2. CASE ~product
  <2>1. Timeline!PersistTimeline(m, fetch, "INELIGIBLE", "build", "empty")
    BY <1>2 DEF Timeline!PersistFetched
  <2> QED BY <2>1, TimelinePersistTimelineStep
<1> QED BY <1>1, <1>2

\* The match's own run, if it has one, is behind the ingestion from now on.
LEMMA TimelinePersistIngestedTimelineStep ==
  ASSUME Timeline!ConstantsAssumption, Timeline!IInv, NEW m \in TimelineMatches, Timeline!PersistIngestedTimeline(m)
  PROVE  Timeline!IInv' /\ \A n \in TimelineMatches : n # m => (Timeline!Stored(n) <=> Timeline!Stored(n)')
<1> PICK outcome \in {"FETCHED", "SKIPPED", "FAILED"} :
      /\ \/ outcome # "SKIPPED" /\ Timeline!PersistFetched(m, outcome, timelineIngestion[m].links)
         \/ outcome # "FETCHED" /\ Timeline!PersistTimeline(m, outcome, "NONE", None, "empty")
      /\ timelineStatus' = IF TimelineTimelineRequired /\ outcome = "FAILED" THEN timelineStatus
                   ELSE [timelineStatus EXCEPT ![m] = "COMPLETED"]
  BY DEF Timeline!PersistIngestedTimeline
<1> USE DEF Timeline!IInv
<1>1. timelineIngestion[m].links \in BOOLEAN
  BY DEF Timeline!PersistIngestedTimeline, Timeline!TypeOK, Timeline!Idle
<1>2. /\ timelineTimeline' \in [TimelineMatches -> Timeline!RowType \cup {None}]
      /\ timelineEvents' \in [TimelineMatches -> {"none", "build", "product"}]
      /\ timelineFrames' \in [TimelineMatches -> BOOLEAN]
      /\ Timeline!TimelinesAreWhole'
      /\ \A n \in TimelineMatches : n # m => (Timeline!Stored(n) <=> Timeline!Stored(n)')
  <2>1. CASE outcome # "SKIPPED" /\ Timeline!PersistFetched(m, outcome, timelineIngestion[m].links)
    <3>1. PICK product \in BOOLEAN : product = timelineIngestion[m].links
      BY <1>1
    <3>2. outcome \in {"FETCHED", "FAILED"} /\ Timeline!PersistFetched(m, outcome, product)
      BY <2>1, <3>1
    <3> QED BY <3>2, TimelinePersistFetchedStep
  <2>2. CASE outcome # "FETCHED" /\ Timeline!PersistTimeline(m, outcome, "NONE", None, "empty")
    BY <2>2, TimelinePersistTimelineStep
  <2> QED BY <2>1, <2>2
<1>3. /\ timelineDisturbed' = IF \E w \in TimelineWorkers : timelineWork[w] # Timeline!Idle /\ timelineWork[w].match = m
                      THEN timelineDisturbed \cup {m} ELSE timelineDisturbed
      /\ timelineIngestion' = [timelineIngestion EXCEPT ![m] = Timeline!Idle]
      /\ UNCHANGED <<timelineLinked, timelineJob, timelineWork, timelineCall>>
  BY DEF Timeline!PersistIngestedTimeline
<1>4. Timeline!TypeOK'
  BY <1>2, <1>3 DEF Timeline!TypeOK
<1>5. \A w \in TimelineWorkers : timelineWork[w] # Timeline!Idle /\ timelineWork[w].match \notin timelineDisturbed'
                         => timelineWork[w].match # m /\ timelineWork[w].match \notin timelineDisturbed
  BY <1>3
<1>6. Timeline!RunsHoldTheirJobs' /\ Timeline!JobsAreOrderly'
  BY <1>3, <1>5 DEF Timeline!RunsHoldTheirJobs, Timeline!JobsAreOrderly, Timeline!Holds
<1>7. Timeline!StoredIsNotFetched'
  <2> SUFFICES ASSUME NEW w \in TimelineWorkers, timelineWork[w].pc \in {"fetch", "store", "giveUp"},
                      timelineWork[w].match \notin timelineDisturbed'
               PROVE  ~Timeline!Stored(timelineWork[w].match)'
    BY <1>3 DEF Timeline!StoredIsNotFetched
  <2>1. timelineWork[w].match \in TimelineMatches \ {m} /\ timelineWork[w].match \notin timelineDisturbed
    BY <1>5, TimelineRunFacts
  <2>2. ~Timeline!Stored(timelineWork[w].match)
    BY <2>1 DEF Timeline!StoredIsNotFetched
  <2> QED BY <1>2, <1>3, <2>1, <2>2
<1> QED BY <1>2, <1>4, <1>6, <1>7

LEMMA TimelineAbandonIngestionStep ==
  ASSUME Timeline!ConstantsAssumption, Timeline!IInv, NEW m \in TimelineMatches, Timeline!AbandonIngestion(m)
  PROVE  Timeline!IInv'
<1> USE DEF Timeline!AbandonIngestion, Timeline!matchVars, Timeline!rowVars
<1>1. Timeline!TypeOK'
  BY DEF Timeline!IInv, Timeline!TypeOK
<1>2. Timeline!RunsHoldTheirJobs' /\ Timeline!JobsAreOrderly'
  BY DEF Timeline!IInv, Timeline!RunsHoldTheirJobs, Timeline!JobsAreOrderly, Timeline!Holds
<1> QED BY <1>1, <1>2, TimelineStoredIsNotFetchedKept, TimelinesKept DEF Timeline!IInv

LEMMA TimelineLinkParticipantsStep ==
  ASSUME Timeline!ConstantsAssumption, Timeline!IInv, NEW m \in TimelineMatches, Timeline!LinkParticipants(m)
  PROVE  Timeline!IInv'
<1> USE DEF Timeline!LinkParticipants, Timeline!rowVars
<1>1. Timeline!TypeOK'
  BY DEF Timeline!IInv, Timeline!TypeOK
<1>2. Timeline!RunsHoldTheirJobs' /\ Timeline!JobsAreOrderly'
  BY DEF Timeline!IInv, Timeline!RunsHoldTheirJobs, Timeline!JobsAreOrderly, Timeline!Holds
<1> QED BY <1>1, <1>2, TimelineStoredIsNotFetchedKept, TimelinesKept DEF Timeline!IInv

-----------------------------------------------------------------------------
(* Enqueue.                                                                *)

LEMMA TimelineCallFacts ==
  ASSUME Timeline!TypeOK, NEW c \in TimelineCallers, timelineCall[c].pc # "idle"
  PROVE  timelineCall[c] \in Timeline!CallType /\ timelineCall[c].match \in TimelineMatches
BY DEF Timeline!TypeOK, Timeline!CallType, Timeline!Idle

LEMMA TimelineSelectStep ==
  ASSUME Timeline!ConstantsAssumption, Timeline!IInv, NEW m \in TimelineMatches, NEW c \in TimelineCallers, Timeline!Select(c, m)
  PROVE  Timeline!IInv'
<1> USE DEF Timeline!Select, Timeline!matchVars, Timeline!rowVars
<1>1. [pc |-> "look", match |-> m] \in Timeline!CallType
  BY DEF Timeline!CallType
<1>2. Timeline!TypeOK'
  BY <1>1 DEF Timeline!IInv, Timeline!TypeOK
<1>3. Timeline!RunsHoldTheirJobs' /\ Timeline!JobsAreOrderly'
  BY DEF Timeline!IInv, Timeline!RunsHoldTheirJobs, Timeline!JobsAreOrderly, Timeline!Holds
<1> QED BY <1>2, <1>3, TimelineStoredIsNotFetchedKept, TimelinesKept DEF Timeline!IInv

LEMMA TimelineLookStep ==
  ASSUME Timeline!ConstantsAssumption, Timeline!IInv, NEW c \in TimelineCallers, Timeline!Look(c)
  PROVE  Timeline!IInv'
<1> USE DEF Timeline!Look, Timeline!matchVars, Timeline!rowVars
<1>1. timelineCall[c] \in Timeline!CallType
  BY TimelineCallFacts DEF Timeline!IInv
<1>2. \A pc \in {"add", "remove"} : [timelineCall[c] EXCEPT !.pc = pc] \in Timeline!CallType
  BY <1>1 DEF Timeline!CallType
<1>3. timelineCall' \in [TimelineCallers -> {Timeline!Idle} \cup Timeline!CallType]
  BY <1>2 DEF Timeline!IInv, Timeline!TypeOK
<1>4. Timeline!TypeOK'
  BY <1>3 DEF Timeline!IInv, Timeline!TypeOK
<1>5. Timeline!RunsHoldTheirJobs' /\ Timeline!JobsAreOrderly'
  BY DEF Timeline!IInv, Timeline!RunsHoldTheirJobs, Timeline!JobsAreOrderly, Timeline!Holds
<1> QED BY <1>4, <1>5, TimelineStoredIsNotFetchedKept, TimelinesKept DEF Timeline!IInv

\* A job nobody holds is replaced: runs that hold theirs are not touched.
LEMMA TimelineJobReplaced ==
  ASSUME Timeline!ConstantsAssumption, Timeline!IInv, NEW m \in TimelineMatches, timelineJob[m].holder = None,
         NEW j \in Timeline!JobType, j.holder = None, j.made < TimelineMaxAttempts,
         timelineJob' = [timelineJob EXCEPT ![m] = j], UNCHANGED <<timelineWork, timelineDisturbed>>
  PROVE  timelineJob' \in [TimelineMatches -> Timeline!JobType] /\ Timeline!RunsHoldTheirJobs' /\ Timeline!JobsAreOrderly'
<1>1. timelineJob' \in [TimelineMatches -> Timeline!JobType]
  BY DEF Timeline!IInv, Timeline!TypeOK
<1>2. Timeline!RunsHoldTheirJobs'
  <2> SUFFICES ASSUME NEW w \in TimelineWorkers, timelineWork[w] # Timeline!Idle, timelineWork[w].match \notin timelineDisturbed
               PROVE  timelineJob'[timelineWork[w].match].holder = w
    BY DEF Timeline!RunsHoldTheirJobs, Timeline!Holds
  <2>1. timelineWork[w].match \in TimelineMatches /\ timelineJob[timelineWork[w].match].holder = w
    BY TimelineRunFacts DEF Timeline!IInv, Timeline!RunsHoldTheirJobs, Timeline!Holds
  <2>2. timelineWork[w].match # m
    BY <2>1 DEF Timeline!ConstantsAssumption
  <2> QED BY <2>1, <2>2 DEF Timeline!IInv, Timeline!TypeOK
<1>3. Timeline!JobsAreOrderly'
  BY DEF Timeline!IInv, Timeline!TypeOK, Timeline!JobsAreOrderly
<1> QED BY <1>1, <1>2, <1>3

\* An active job is not removed, so what is removed has no holder.
LEMMA TimelineRemoveOldStep ==
  ASSUME Timeline!ConstantsAssumption, Timeline!IInv, NEW c \in TimelineCallers, Timeline!RemoveOld(c)
  PROVE  Timeline!IInv'
<1> DEFINE m == timelineCall[c].match
<1> USE DEF Timeline!RemoveOld, Timeline!matchVars, Timeline!rowVars
<1>1. timelineCall[c] \in Timeline!CallType /\ m \in TimelineMatches
  BY TimelineCallFacts DEF Timeline!IInv
<1>2. timelineJob' \in [TimelineMatches -> Timeline!JobType] /\ Timeline!RunsHoldTheirJobs' /\ Timeline!JobsAreOrderly'
  <2>1. CASE timelineJob[m].state = "active"
    BY <2>1 DEF Timeline!IInv, Timeline!TypeOK, Timeline!RunsHoldTheirJobs, Timeline!JobsAreOrderly, Timeline!Holds
  <2>2. CASE timelineJob[m].state # "active"
    <3>1. timelineJob[m].holder = None
      BY <1>1, <2>2 DEF Timeline!IInv, Timeline!JobsAreOrderly
    <3>2. Timeline!NoJob \in Timeline!JobType /\ Timeline!NoJob.holder = None /\ Timeline!NoJob.made < TimelineMaxAttempts
      BY TimelineFreshJob
    <3>3. timelineJob' = [timelineJob EXCEPT ![m] = Timeline!NoJob]
      BY <2>2
    <3> QED BY <1>1, <3>1, <3>2, <3>3, TimelineJobReplaced
  <2> QED BY <2>1, <2>2
<1>3. [timelineCall[c] EXCEPT !.pc = "add"] \in Timeline!CallType
  BY <1>1 DEF Timeline!CallType
<1>4. timelineCall' \in [TimelineCallers -> {Timeline!Idle} \cup Timeline!CallType]
  BY <1>3 DEF Timeline!IInv, Timeline!TypeOK
<1>5. Timeline!TypeOK'
  BY <1>2, <1>4 DEF Timeline!IInv, Timeline!TypeOK
<1> QED BY <1>2, <1>5, TimelineStoredIsNotFetchedKept, TimelinesKept DEF Timeline!IInv

\* Nor is one added where one is.
LEMMA TimelineAddStep ==
  ASSUME Timeline!ConstantsAssumption, Timeline!IInv, NEW c \in TimelineCallers, Timeline!Add(c)
  PROVE  Timeline!IInv'
<1> DEFINE m == timelineCall[c].match
           added == [Timeline!NoJob EXCEPT !.state = "waiting", !.ineligible = c = "backfillIneligible"]
<1> USE DEF Timeline!Add, Timeline!matchVars, Timeline!rowVars
<1>1. timelineCall[c] \in Timeline!CallType /\ m \in TimelineMatches
  BY TimelineCallFacts DEF Timeline!IInv
<1>2. timelineJob' \in [TimelineMatches -> Timeline!JobType] /\ Timeline!RunsHoldTheirJobs' /\ Timeline!JobsAreOrderly'
  <2>1. CASE timelineJob[m] # Timeline!NoJob
    <3>1. timelineJob' = timelineJob
      BY <1>1, <2>1 DEF Timeline!IInv, Timeline!TypeOK
    <3> QED BY <3>1 DEF Timeline!IInv, Timeline!TypeOK, Timeline!RunsHoldTheirJobs, Timeline!JobsAreOrderly, Timeline!Holds
  <2>2. CASE timelineJob[m] = Timeline!NoJob
    <3>1. timelineJob[m].holder = None
      BY <2>2, TimelineFreshJob
    <3>2. added \in Timeline!JobType /\ added.holder = None /\ added.made < TimelineMaxAttempts
      <4>1. (c = "backfillIneligible") \in BOOLEAN
        OBVIOUS
      <4> QED BY <4>1, TimelineFreshJob
    <3>3. timelineJob' = [timelineJob EXCEPT ![m] = added]
      BY <2>2
    <3> QED BY <1>1, <3>1, <3>2, <3>3, TimelineJobReplaced
  <2> QED BY <2>1, <2>2
<1>3. Timeline!TypeOK'
  BY <1>2 DEF Timeline!IInv, Timeline!TypeOK
<1> QED BY <1>2, <1>3, TimelineStoredIsNotFetchedKept, TimelinesKept DEF Timeline!IInv

-----------------------------------------------------------------------------
(* The runs of jobs.                                                       *)

LEMMA TimelineStartStep ==
  ASSUME Timeline!ConstantsAssumption, Timeline!IInv, NEW m \in TimelineMatches, NEW w \in TimelineWorkers, Timeline!Start(w, m)
  PROVE  Timeline!IInv'
<1> DEFINE run == [pc |-> "read", match |-> m, ineligible |-> timelineJob[m].ineligible]
<1> USE DEF Timeline!Start, Timeline!matchVars, Timeline!rowVars
<1>1. timelineJob[m] \in Timeline!JobType /\ timelineJob[m].holder = None
  BY DEF Timeline!IInv, Timeline!TypeOK, Timeline!JobsAreOrderly
<1>2. run \in Timeline!RunType /\ timelineWork' = [timelineWork EXCEPT ![w] = run]
  BY <1>1 DEF Timeline!JobType, Timeline!RunType
<1>3. timelineJob' = [timelineJob EXCEPT ![m] = [@ EXCEPT !.state = "active", !.holder = w]]
  BY DEF Timeline!IInv, Timeline!TypeOK, Timeline!JobType
<1>4. /\ timelineJob' \in [TimelineMatches -> Timeline!JobType]
      /\ timelineJob'[m].state = "active" /\ timelineJob'[m].holder = w /\ timelineJob'[m].made = timelineJob[m].made
      /\ \A n \in TimelineMatches : n # m => timelineJob'[n] = timelineJob[n]
  BY <1>1, <1>3 DEF Timeline!IInv, Timeline!TypeOK, Timeline!JobType, Timeline!LiveStates
<1>5. Timeline!TypeOK'
  BY <1>2, <1>4 DEF Timeline!IInv, Timeline!TypeOK
<1>6. Timeline!JobsAreOrderly'
  BY <1>4 DEF Timeline!IInv, Timeline!JobsAreOrderly
<1>7. Timeline!RunsHoldTheirJobs'
  <2> SUFFICES ASSUME NEW v \in TimelineWorkers, timelineWork'[v] # Timeline!Idle, timelineWork'[v].match \notin timelineDisturbed
               PROVE  Timeline!Holds(v)'
    BY DEF Timeline!RunsHoldTheirJobs
  <2>1. CASE v = w
    BY <2>1, <1>2, <1>4 DEF Timeline!IInv, Timeline!TypeOK, Timeline!Holds
  <2>2. CASE v # w
    <3>1. timelineWork'[v] = timelineWork[v] /\ Timeline!Holds(v) /\ timelineWork[v].match \in TimelineMatches
      BY <2>2, <1>2, TimelineRunFacts DEF Timeline!IInv, Timeline!TypeOK, Timeline!RunsHoldTheirJobs
    <3>2. timelineWork[v].match # m
      BY <3>1, <1>1 DEF Timeline!Holds, Timeline!ConstantsAssumption
    <3> QED BY <3>1, <3>2, <1>4 DEF Timeline!Holds
  <2> QED BY <2>1, <2>2
<1>8. \A v \in TimelineWorkers : timelineWork'[v] = timelineWork[v] \/ timelineWork'[v].pc \in {"idle", "read"}
  BY <1>2 DEF Timeline!IInv, Timeline!TypeOK
<1> QED BY <1>5, <1>6, <1>7, <1>8, TimelineStoredIsNotFetchedKept, TimelinesKept DEF Timeline!IInv

\* A run moves on without touching its job.
LEMMA TimelineRunMoves ==
  ASSUME Timeline!ConstantsAssumption, Timeline!IInv, NEW w \in TimelineWorkers, timelineWork[w] # Timeline!Idle,
         NEW pc \in {"fetch", "store", "giveUp"}, timelineWork' = [timelineWork EXCEPT ![w].pc = pc],
         timelineWork[w].match \notin timelineDisturbed => ~Timeline!Stored(timelineWork[w].match),
         UNCHANGED <<timelineTimeline, timelineJob, timelineDisturbed>>
  PROVE  /\ timelineWork' \in [TimelineWorkers -> {Timeline!Idle} \cup Timeline!RunType]
         /\ Timeline!RunsHoldTheirJobs' /\ Timeline!JobsAreOrderly' /\ Timeline!StoredIsNotFetched'
<1>1. timelineWork[w] \in Timeline!RunType
  BY TimelineRunFacts DEF Timeline!IInv
<1>2. [timelineWork[w] EXCEPT !.pc = pc] \in Timeline!RunType /\ [timelineWork[w] EXCEPT !.pc = pc].match = timelineWork[w].match
  BY <1>1 DEF Timeline!RunType
<1>3. timelineWork' = [timelineWork EXCEPT ![w] = [timelineWork[w] EXCEPT !.pc = pc]]
  OBVIOUS
<1>4. timelineWork' \in [TimelineWorkers -> {Timeline!Idle} \cup Timeline!RunType]
  BY <1>2, <1>3 DEF Timeline!IInv, Timeline!TypeOK
<1>5. /\ timelineWork'[w].match = timelineWork[w].match
      /\ \A v \in TimelineWorkers : v # w => timelineWork'[v] = timelineWork[v]
  BY <1>2, <1>3 DEF Timeline!IInv, Timeline!TypeOK
<1>6. Timeline!RunsHoldTheirJobs' /\ Timeline!JobsAreOrderly'
  BY <1>5 DEF Timeline!IInv, Timeline!RunsHoldTheirJobs, Timeline!JobsAreOrderly, Timeline!Holds
<1>7. Timeline!StoredIsNotFetched'
  <2> SUFFICES ASSUME NEW v \in TimelineWorkers, timelineWork'[v].pc \in {"fetch", "store", "giveUp"},
                      timelineWork'[v].match \notin timelineDisturbed
               PROVE  ~Timeline!Stored(timelineWork'[v].match)
    BY DEF Timeline!StoredIsNotFetched, Timeline!Stored, Timeline!Coverage
  <2>1. CASE v = w
    BY <2>1, <1>5
  <2>2. CASE v # w
    BY <2>2, <1>5 DEF Timeline!IInv, Timeline!StoredIsNotFetched
  <2> QED BY <2>1, <2>2
<1> QED BY <1>4, <1>6, <1>7

\* The read finds what is stored, and a run goes on only without it.
LEMMA TimelineReadMatchStep ==
  ASSUME Timeline!ConstantsAssumption, Timeline!IInv, NEW w \in TimelineWorkers, Timeline!ReadMatch(w)
  PROVE  Timeline!IInv'
<1> USE DEF Timeline!ReadMatch, Timeline!matchVars, Timeline!rowVars
<1>1. timelineWork[w] # Timeline!Idle
  BY TimelineRunFacts DEF Timeline!IInv
<1>2. CASE Timeline!NeedsEnrichment(timelineWork[w].match, timelineWork[w].ineligible)
  <2>1. timelineWork' = [timelineWork EXCEPT ![w].pc = "fetch"] /\ ~Timeline!Stored(timelineWork[w].match)
    BY <1>2 DEF Timeline!NeedsEnrichment
  <2>2. /\ timelineWork' \in [TimelineWorkers -> {Timeline!Idle} \cup Timeline!RunType]
        /\ Timeline!RunsHoldTheirJobs' /\ Timeline!JobsAreOrderly' /\ Timeline!StoredIsNotFetched'
    BY <1>1, <1>2, <2>1, TimelineRunMoves
  <2>3. Timeline!TypeOK'
    BY <1>2, <2>2 DEF Timeline!IInv, Timeline!TypeOK
  <2> QED BY <2>2, <2>3, TimelinesKept DEF Timeline!IInv
<1>3. CASE ~Timeline!NeedsEnrichment(timelineWork[w].match, timelineWork[w].ineligible)
  <2>1. Timeline!EndRun(w, "completed")
    BY <1>3
  <2>2. /\ timelineWork' \in [TimelineWorkers -> {Timeline!Idle} \cup Timeline!RunType]
        /\ timelineWork' = [timelineWork EXCEPT ![w] = Timeline!Idle]
        /\ timelineJob' \in [TimelineMatches -> Timeline!JobType]
        /\ Timeline!RunsHoldTheirJobs' /\ Timeline!JobsAreOrderly'
    BY <1>1, <2>1, TimelineEndRunStep
  <2>3. Timeline!TypeOK'
    BY <2>2 DEF Timeline!IInv, Timeline!TypeOK
  <2>4. \A v \in TimelineWorkers : timelineWork'[v] = timelineWork[v] \/ timelineWork'[v].pc \in {"idle", "read"}
    BY <2>2 DEF Timeline!IInv, Timeline!TypeOK, Timeline!Idle
  <2> QED BY <2>2, <2>3, <2>4, TimelineStoredIsNotFetchedKept, TimelinesKept DEF Timeline!IInv
<1> QED BY <1>2, <1>3

LEMMA TimelineDelayStep ==
  ASSUME Timeline!ConstantsAssumption, Timeline!IInv, NEW w \in TimelineWorkers, Timeline!Delay(w)
  PROVE  Timeline!IInv'
<1> USE DEF Timeline!Delay, Timeline!matchVars, Timeline!rowVars
<1>1. timelineWork[w] # Timeline!Idle
  BY TimelineRunFacts DEF Timeline!IInv
<1>2. /\ timelineWork' \in [TimelineWorkers -> {Timeline!Idle} \cup Timeline!RunType]
      /\ timelineWork' = [timelineWork EXCEPT ![w] = Timeline!Idle]
      /\ timelineJob' \in [TimelineMatches -> Timeline!JobType]
      /\ Timeline!RunsHoldTheirJobs' /\ Timeline!JobsAreOrderly'
  BY <1>1, TimelineEndRunStep
<1>3. Timeline!TypeOK'
  BY <1>2 DEF Timeline!IInv, Timeline!TypeOK
<1>4. \A v \in TimelineWorkers : timelineWork'[v] = timelineWork[v] \/ timelineWork'[v].pc \in {"idle", "read"}
  BY <1>2 DEF Timeline!IInv, Timeline!TypeOK, Timeline!Idle
<1> QED BY <1>2, <1>3, <1>4, TimelineStoredIsNotFetchedKept, TimelinesKept DEF Timeline!IInv

\* An attempt is counted, and the last one leaves the job failed.
LEMMA TimelineRetryStep ==
  ASSUME Timeline!ConstantsAssumption, Timeline!IInv, NEW w \in TimelineWorkers, Timeline!Retry(w)
  PROVE  Timeline!IInv'
<1> DEFINE m == timelineWork[w].match
           made == timelineJob[m].made + 1
           state == IF made < TimelineMaxAttempts THEN "delayed" ELSE "failed"
<1> USE DEF Timeline!matchVars, Timeline!rowVars
<1>1. /\ timelineWork[w] # Timeline!Idle /\ m \in TimelineMatches /\ timelineJob[m] \in Timeline!JobType
      /\ UNCHANGED <<Timeline!matchVars, Timeline!rowVars, timelineIngestion, timelineCall, timelineDisturbed>>
      /\ timelineWork' = [timelineWork EXCEPT ![w] = Timeline!Idle]
  BY TimelineRunFacts DEF Timeline!Retry, Timeline!IInv, Timeline!TypeOK
<1>2. timelineWork' \in [TimelineWorkers -> {Timeline!Idle} \cup Timeline!RunType]
  BY <1>1 DEF Timeline!IInv, Timeline!TypeOK
<1>3. /\ timelineJob' \in [TimelineMatches -> Timeline!JobType] /\ Timeline!JobsAreOrderly'
      /\ \A n \in TimelineMatches : n # m \/ ~Timeline!Holds(w) => timelineJob'[n] = timelineJob[n]
  <2>1. CASE ~Timeline!Holds(w)
    BY <2>1 DEF Timeline!Retry, Timeline!IInv, Timeline!TypeOK, Timeline!JobsAreOrderly
  <2>2. CASE Timeline!Holds(w)
    <3>1. timelineJob' = [timelineJob EXCEPT ![m] = [@ EXCEPT !.made = made, !.holder = None, !.state = state]]
      BY <1>1, <2>2 DEF Timeline!Retry, Timeline!IInv, Timeline!TypeOK, Timeline!JobType
    <3>2. timelineJob[m].state = "active" /\ timelineJob[m].made < TimelineMaxAttempts
      BY <1>1, <2>2 DEF Timeline!IInv, Timeline!JobsAreOrderly, Timeline!Holds, Timeline!ConstantsAssumption
    <3>3. made \in 0 .. TimelineMaxAttempts
      BY <1>1, <3>2 DEF Timeline!JobType, Timeline!ConstantsAssumption
    <3>4. /\ timelineJob' \in [TimelineMatches -> Timeline!JobType]
          /\ timelineJob'[m].made = made /\ timelineJob'[m].holder = None /\ timelineJob'[m].state = state
          /\ \A n \in TimelineMatches : n # m => timelineJob'[n] = timelineJob[n]
      BY <1>1, <3>1, <3>3 DEF Timeline!IInv, Timeline!TypeOK, Timeline!JobType, Timeline!LiveStates
    <3>5. Timeline!JobsAreOrderly'
      BY <3>4 DEF Timeline!IInv, Timeline!JobsAreOrderly
    <3> QED BY <2>2, <3>4, <3>5
  <2> QED BY <2>1, <2>2
<1>4. Timeline!RunsHoldTheirJobs'
  <2> SUFFICES ASSUME NEW v \in TimelineWorkers, timelineWork'[v] # Timeline!Idle, timelineWork'[v].match \notin timelineDisturbed'
               PROVE  Timeline!Holds(v)'
    BY DEF Timeline!RunsHoldTheirJobs
  <2>1. v # w /\ timelineWork'[v] = timelineWork[v]
    BY <1>1 DEF Timeline!IInv, Timeline!TypeOK
  <2>2. Timeline!Holds(v) /\ timelineWork[v].match \in TimelineMatches
    BY <2>1, <1>1, TimelineRunFacts DEF Timeline!IInv, Timeline!RunsHoldTheirJobs
  <2>3. timelineWork[v].match # m \/ ~Timeline!Holds(w)
    BY <2>1, <2>2 DEF Timeline!Holds
  <2> QED BY <2>1, <2>2, <2>3, <1>3 DEF Timeline!Holds
<1>5. Timeline!TypeOK'
  BY <1>1, <1>2, <1>3 DEF Timeline!IInv, Timeline!TypeOK
<1>6. \A v \in TimelineWorkers : timelineWork'[v] = timelineWork[v] \/ timelineWork'[v].pc \in {"idle", "read"}
  BY <1>1 DEF Timeline!IInv, Timeline!TypeOK, Timeline!Idle
<1> QED BY <1>1, <1>3, <1>4, <1>5, <1>6, TimelineStoredIsNotFetchedKept, TimelinesKept DEF Timeline!IInv

LEMMA TimelineAnswerStep ==
  ASSUME Timeline!ConstantsAssumption, Timeline!IInv, NEW w \in TimelineWorkers, Timeline!Fetched(w) \/ Timeline!Refused(w)
  PROVE  Timeline!IInv'
<1> PICK pc \in {"store", "giveUp"} : timelineWork' = [timelineWork EXCEPT ![w].pc = pc]
  BY DEF Timeline!Fetched, Timeline!Refused
<1> USE DEF Timeline!Fetched, Timeline!Refused, Timeline!matchVars, Timeline!rowVars
<1>1. timelineWork[w] # Timeline!Idle /\ (timelineWork[w].match \notin timelineDisturbed => ~Timeline!Stored(timelineWork[w].match))
  BY TimelineRunFacts DEF Timeline!IInv, Timeline!StoredIsNotFetched
<1>2. /\ timelineWork' \in [TimelineWorkers -> {Timeline!Idle} \cup Timeline!RunType]
      /\ Timeline!RunsHoldTheirJobs' /\ Timeline!JobsAreOrderly' /\ Timeline!StoredIsNotFetched'
  BY <1>1, TimelineRunMoves
<1>3. Timeline!TypeOK'
  BY <1>2 DEF Timeline!IInv, Timeline!TypeOK
<1> QED BY <1>2, <1>3, TimelinesKept DEF Timeline!IInv

\* A run writes its match's timeline and ends; no other run of the match is
\* about to, unless something came between.
LEMMA TimelineStoreStep ==
  ASSUME Timeline!ConstantsAssumption, Timeline!IInv, NEW w \in TimelineWorkers, timelineWork[w] # Timeline!Idle,
         NEW state \in {"completed", "failed"}, Timeline!EndRun(w, state),
         UNCHANGED <<Timeline!matchVars, timelineIngestion, timelineCall, timelineDisturbed>>,
         timelineTimeline' \in [TimelineMatches -> Timeline!RowType \cup {None}],
         timelineEvents' \in [TimelineMatches -> {"none", "build", "product"}],
         timelineFrames' \in [TimelineMatches -> BOOLEAN],
         Timeline!TimelinesAreWhole',
         \A n \in TimelineMatches : n # timelineWork[w].match => (Timeline!Stored(n) <=> Timeline!Stored(n)')
  PROVE  Timeline!IInv'
<1>1. /\ timelineWork' \in [TimelineWorkers -> {Timeline!Idle} \cup Timeline!RunType]
      /\ timelineWork' = [timelineWork EXCEPT ![w] = Timeline!Idle]
      /\ timelineJob' \in [TimelineMatches -> Timeline!JobType]
      /\ Timeline!RunsHoldTheirJobs' /\ Timeline!JobsAreOrderly'
  BY TimelineEndRunStep
<1>2. Timeline!TypeOK'
  BY <1>1 DEF Timeline!IInv, Timeline!TypeOK, Timeline!matchVars
<1>3. Timeline!StoredIsNotFetched'
  <2> SUFFICES ASSUME NEW v \in TimelineWorkers, timelineWork'[v].pc \in {"fetch", "store", "giveUp"},
                      timelineWork'[v].match \notin timelineDisturbed
               PROVE  ~Timeline!Stored(timelineWork[v].match)' /\ timelineWork'[v].match = timelineWork[v].match
    BY DEF Timeline!StoredIsNotFetched
  <2>1. v # w /\ timelineWork'[v] = timelineWork[v]
    BY <1>1 DEF Timeline!IInv, Timeline!TypeOK, Timeline!Idle
  <2>2. timelineWork[v].match \in TimelineMatches /\ Timeline!Holds(v)
    BY <2>1, TimelineRunFacts DEF Timeline!IInv, Timeline!RunsHoldTheirJobs
  <2>3. timelineWork[v].match # timelineWork[w].match
    <3>1. SUFFICES ASSUME timelineWork[v].match = timelineWork[w].match PROVE FALSE
      OBVIOUS
    <3>2. Timeline!Holds(w)
      BY <2>1, <3>1 DEF Timeline!IInv, Timeline!RunsHoldTheirJobs
    <3> QED BY <2>1, <2>2, <3>1, <3>2 DEF Timeline!Holds
  <2>4. ~Timeline!Stored(timelineWork[v].match)
    BY <2>1 DEF Timeline!IInv, Timeline!StoredIsNotFetched
  <2>5. \A n \in TimelineMatches : n # timelineWork[w].match /\ ~Timeline!Stored(n) => ~Timeline!Stored(n)'
    OBVIOUS
  <2> QED BY <2>1, <2>2, <2>3, <2>4, <2>5 DEF Timeline!Stored, Timeline!Coverage
<1> QED BY <1>1, <1>2, <1>3 DEF Timeline!IInv

LEMMA TimelineStoreTimelineStep ==
  ASSUME Timeline!ConstantsAssumption, Timeline!IInv, NEW w \in TimelineWorkers, Timeline!StoreTimeline(w)
  PROVE  Timeline!IInv' /\ \A n \in TimelineMatches : n # timelineWork[w].match => (Timeline!Stored(n) <=> Timeline!Stored(n)')
<1>1. timelineWork[w] # Timeline!Idle /\ timelineWork[w].match \in TimelineMatches
  BY TimelineRunFacts DEF Timeline!StoreTimeline, Timeline!IInv
<1>2. /\ timelineTimeline' \in [TimelineMatches -> Timeline!RowType \cup {None}]
      /\ timelineEvents' \in [TimelineMatches -> {"none", "build", "product"}]
      /\ timelineFrames' \in [TimelineMatches -> BOOLEAN]
      /\ Timeline!TimelinesAreWhole'
      /\ \A n \in TimelineMatches : n # timelineWork[w].match => (Timeline!Stored(n) <=> Timeline!Stored(n)')
  BY <1>1, TimelinePersistFetchedStep DEF Timeline!StoreTimeline, Timeline!IInv
<1> QED BY <1>1, <1>2, TimelineStoreStep DEF Timeline!StoreTimeline

LEMMA TimelineStoreFailureStep ==
  ASSUME Timeline!ConstantsAssumption, Timeline!IInv, NEW w \in TimelineWorkers, Timeline!StoreFailure(w)
  PROVE  Timeline!IInv' /\ \A n \in TimelineMatches : n # timelineWork[w].match => (Timeline!Stored(n) <=> Timeline!Stored(n)')
<1>1. timelineWork[w] # Timeline!Idle /\ timelineWork[w].match \in TimelineMatches
  BY TimelineRunFacts DEF Timeline!StoreFailure, Timeline!IInv
<1>2. /\ timelineTimeline' \in [TimelineMatches -> Timeline!RowType \cup {None}]
      /\ timelineEvents' \in [TimelineMatches -> {"none", "build", "product"}]
      /\ timelineFrames' \in [TimelineMatches -> BOOLEAN]
      /\ Timeline!TimelinesAreWhole'
      /\ \A n \in TimelineMatches : n # timelineWork[w].match => (Timeline!Stored(n) <=> Timeline!Stored(n)')
  BY <1>1, TimelinePersistTimelineStep DEF Timeline!StoreFailure, Timeline!IInv
<1> QED BY <1>1, <1>2, TimelineStoreStep DEF Timeline!StoreFailure

LEMMA TimelineWakeStep ==
  ASSUME Timeline!ConstantsAssumption, Timeline!IInv, NEW m \in TimelineMatches, Timeline!Wake(m)
  PROVE  Timeline!IInv'
<1> USE DEF Timeline!Wake, Timeline!matchVars, Timeline!rowVars
<1>1. timelineJob[m] \in Timeline!JobType /\ timelineJob[m].holder = None
  BY DEF Timeline!IInv, Timeline!TypeOK, Timeline!JobsAreOrderly
<1>2. timelineJob' = [timelineJob EXCEPT ![m] = [timelineJob[m] EXCEPT !.state = "waiting"]]
  BY DEF Timeline!IInv, Timeline!TypeOK
<1>3. LET j == [timelineJob[m] EXCEPT !.state = "waiting"] IN
      j \in Timeline!JobType /\ j.holder = None /\ j.made < TimelineMaxAttempts
  BY <1>1 DEF Timeline!IInv, Timeline!JobsAreOrderly, Timeline!JobType, Timeline!LiveStates
<1>4. timelineJob' \in [TimelineMatches -> Timeline!JobType] /\ Timeline!RunsHoldTheirJobs' /\ Timeline!JobsAreOrderly'
  BY <1>1, <1>2, <1>3, TimelineJobReplaced
<1>5. Timeline!TypeOK'
  BY <1>4 DEF Timeline!IInv, Timeline!TypeOK
<1> QED BY <1>4, <1>5, TimelineStoredIsNotFetchedKept, TimelinesKept DEF Timeline!IInv

\* A stall takes the job from its run, and from then on the match is disturbed.
LEMMA TimelineStallStep ==
  ASSUME Timeline!ConstantsAssumption, Timeline!IInv, NEW w \in TimelineWorkers, Timeline!Stall(w)
  PROVE  Timeline!IInv'
<1> DEFINE m == timelineWork[w].match
<1> USE DEF Timeline!Stall, Timeline!matchVars, Timeline!rowVars
<1>1. m \in TimelineMatches /\ timelineJob[m] \in Timeline!JobType /\ timelineJob[m].holder = w
  BY TimelineRunFacts DEF Timeline!IInv, Timeline!TypeOK, Timeline!Holds
<1>2. timelineJob[m].state = "active" /\ timelineJob[m].made < TimelineMaxAttempts
  BY <1>1 DEF Timeline!IInv, Timeline!JobsAreOrderly, Timeline!ConstantsAssumption
<1>3. timelineJob' = [timelineJob EXCEPT ![m] = [@ EXCEPT !.state = "waiting", !.holder = None]]
  BY <1>1 DEF Timeline!IInv, Timeline!TypeOK, Timeline!JobType
<1>4. /\ timelineJob' \in [TimelineMatches -> Timeline!JobType]
      /\ timelineJob'[m].state = "waiting" /\ timelineJob'[m].holder = None /\ timelineJob'[m].made = timelineJob[m].made
      /\ \A n \in TimelineMatches : n # m => timelineJob'[n] = timelineJob[n]
  <2> HIDE DEF Timeline!Stall
  <2> DEFINE j == [timelineJob[m] EXCEPT !.state = "waiting", !.holder = None]
  <2>1. /\ j \in Timeline!JobType
        /\ j.state = "waiting" /\ j.holder = None /\ j.made = timelineJob[m].made
    BY <1>1 DEF Timeline!JobType, Timeline!LiveStates
  <2>2. timelineJob' = [timelineJob EXCEPT ![m] = j]
    BY <1>3
  <2> HIDE DEF j
  <2> QED BY <1>1, <2>1, <2>2 DEF Timeline!IInv, Timeline!TypeOK
<1>5. Timeline!TypeOK'
  BY <1>1, <1>4 DEF Timeline!IInv, Timeline!TypeOK
<1>6. Timeline!JobsAreOrderly'
  BY <1>2, <1>4 DEF Timeline!IInv, Timeline!JobsAreOrderly
<1>7. Timeline!RunsHoldTheirJobs'
  <2> SUFFICES ASSUME NEW v \in TimelineWorkers, timelineWork[v] # Timeline!Idle, timelineWork[v].match \notin timelineDisturbed'
               PROVE  timelineJob'[timelineWork[v].match].holder = v
    BY DEF Timeline!RunsHoldTheirJobs, Timeline!Holds
  <2>1. timelineWork[v].match # m /\ timelineWork[v].match \notin timelineDisturbed
    OBVIOUS
  <2>2. Timeline!Holds(v) /\ timelineWork[v].match \in TimelineMatches
    BY <2>1, TimelineRunFacts DEF Timeline!IInv, Timeline!RunsHoldTheirJobs
  <2> QED BY <2>1, <2>2, <1>4 DEF Timeline!Holds
<1>8. Timeline!StoredIsNotFetched'
  BY DEF Timeline!IInv, Timeline!StoredIsNotFetched, Timeline!Stored, Timeline!Coverage
<1> QED BY <1>5, <1>6, <1>7, <1>8, TimelinesKept DEF Timeline!IInv

-----------------------------------------------------------------------------
(* The theorems.                                                           *)

LEMMA TimelineNextIInv == ASSUME Timeline!ConstantsAssumption, Timeline!IInv, [Timeline!Next]_(Timeline!vars) PROVE Timeline!IInv'
<1>1. CASE UNCHANGED Timeline!vars
  <2>1. Timeline!TypeOK' /\ Timeline!RunsHoldTheirJobs' /\ Timeline!JobsAreOrderly'
    BY <1>1 DEF Timeline!IInv, Timeline!TypeOK, Timeline!RunsHoldTheirJobs, Timeline!JobsAreOrderly, Timeline!Holds, Timeline!vars, Timeline!matchVars, Timeline!rowVars
  <2>2. UNCHANGED Timeline!rowVars /\ UNCHANGED <<timelineTimeline, timelineWork, timelineDisturbed>>
    BY <1>1 DEF Timeline!vars, Timeline!rowVars
  <2> QED BY <2>1, <2>2, TimelineStoredIsNotFetchedKept, TimelinesKept DEF Timeline!IInv
<1>2. ASSUME NEW m \in TimelineMatches,
             \/ Timeline!PersistMatch(m) \/ Timeline!PersistIngestedTimeline(m) \/ Timeline!AbandonIngestion(m)
             \/ Timeline!LinkParticipants(m) \/ Timeline!Wake(m)
             \/ \E c \in TimelineCallers : Timeline!Select(c, m)
             \/ \E w \in TimelineWorkers : Timeline!Start(w, m)
      PROVE  Timeline!IInv'
  BY <1>2, TimelinePersistMatchStep, TimelinePersistIngestedTimelineStep, TimelineAbandonIngestionStep,
     TimelineLinkParticipantsStep, TimelineWakeStep, TimelineSelectStep, TimelineStartStep
<1>3. ASSUME NEW c \in TimelineCallers, Timeline!Look(c) \/ Timeline!RemoveOld(c) \/ Timeline!Add(c) PROVE Timeline!IInv'
  BY <1>3, TimelineLookStep, TimelineRemoveOldStep, TimelineAddStep
<1>4. ASSUME NEW w \in TimelineWorkers,
             \/ Timeline!ReadMatch(w) \/ Timeline!Delay(w) \/ Timeline!Retry(w) \/ Timeline!Fetched(w) \/ Timeline!Refused(w)
             \/ Timeline!StoreTimeline(w) \/ Timeline!StoreFailure(w) \/ Timeline!Stall(w)
      PROVE  Timeline!IInv'
  BY <1>4, TimelineReadMatchStep, TimelineDelayStep, TimelineRetryStep, TimelineAnswerStep, TimelineStoreTimelineStep,
     TimelineStoreFailureStep, TimelineStallStep
<1> QED BY <1>1, <1>2, <1>3, <1>4 DEF Timeline!Next

\* The invariant that says who may be about to write.
THEOREM TimelineInductive == ASSUME Timeline!ConstantsAssumption PROVE Timeline!Spec => []Timeline!IInv
<1>1. Timeline!Init => Timeline!IInv
  BY TimelineInitIInv
<1>2. Timeline!IInv /\ [Timeline!Next]_(Timeline!vars) => Timeline!IInv'
  BY TimelineNextIInv
<1> QED BY <1>1, <1>2, PTL DEF Timeline!Spec

\* Every variable keeps its type; no job is tried more often than it may be.
THEOREM TimelineTypeCorrect == ASSUME Timeline!ConstantsAssumption PROVE Timeline!Spec => []Timeline!TypeOK
<1>1. Timeline!IInv => Timeline!TypeOK
  BY DEF Timeline!IInv
<1> QED BY <1>1, TimelineInductive, PTL

\* The coverage column says what the event and frame rows hold, whatever order
\* persistTimelineAndMetrics is called in and by whom.
THEOREM TimelineWhole == ASSUME Timeline!ConstantsAssumption PROVE Timeline!Spec => []Timeline!TimelinesAreWhole
<1>1. Timeline!IInv => Timeline!TimelinesAreWhole
  BY DEF Timeline!IInv
<1> QED BY <1>1, TimelineInductive, PTL

\* Only a new ingestion, or a run that something came between, gives up a
\* timeline that is stored: every other step leaves the row as it is.
LEMMA TimelineStaysStep == ASSUME Timeline!ConstantsAssumption, Timeline!IInv, [Timeline!Next]_(Timeline!vars) PROVE Timeline!TimelineStays
<1> SUFFICES ASSUME NEW m \in TimelineMatches, Timeline!Stored(m), ~Timeline!Stored(m)',
                    timelineIngestion[m] = Timeline!Idle, m \notin timelineDisturbed
             PROVE  FALSE
  BY DEF Timeline!TimelineStays
<1>1. timelineTimeline' # timelineTimeline
  BY DEF Timeline!Stored, Timeline!Coverage
<1>2. \/ \E n \in TimelineMatches : Timeline!PersistIngestedTimeline(n)
      \/ \E w \in TimelineWorkers : Timeline!StoreTimeline(w) \/ Timeline!StoreFailure(w)
  BY <1>1 DEF Timeline!Next, Timeline!vars, Timeline!rowVars, Timeline!PersistMatch, Timeline!AbandonIngestion, Timeline!LinkParticipants, Timeline!Wake,
     Timeline!Select, Timeline!Start, Timeline!Look, Timeline!RemoveOld, Timeline!Add, Timeline!ReadMatch, Timeline!Delay, Timeline!Retry, Timeline!Fetched, Timeline!Refused, Timeline!Stall
<1>3. ASSUME NEW n \in TimelineMatches, Timeline!PersistIngestedTimeline(n) PROVE FALSE
  <2>1. n # m
    BY <1>3 DEF Timeline!PersistIngestedTimeline, Timeline!Idle
  <2> QED BY <1>3, <2>1, TimelinePersistIngestedTimelineStep
<1>4. ASSUME NEW w \in TimelineWorkers, Timeline!StoreTimeline(w) \/ Timeline!StoreFailure(w) PROVE FALSE
  <2>1. timelineWork[w].pc \in {"store", "giveUp"}
    BY <1>4 DEF Timeline!StoreTimeline, Timeline!StoreFailure
  <2>2. timelineWork[w].match = m
    BY <1>4, TimelineStoreTimelineStep, TimelineStoreFailureStep
  <2> QED BY <2>1, <2>2 DEF Timeline!IInv, Timeline!StoredIsNotFetched
<1> QED BY <1>2, <1>3, <1>4

\* A stored timeline is given up only to a new ingestion of its match, or after
\* a run that lost its job or was overtaken by an ingestion.
THEOREM TimelineStays == ASSUME Timeline!ConstantsAssumption PROVE Timeline!Spec => Timeline!StoredTimelinesStay
<1>1. Timeline!IInv /\ [Timeline!Next]_(Timeline!vars) => [Timeline!TimelineStays]_(Timeline!vars)
  BY TimelineStaysStep
<1> QED BY <1>1, TimelineInductive, PTL DEF Timeline!Spec, Timeline!StoredTimelinesStay

HIDE DEF timelineStatus, timelineLinked, timelineTimeline, timelineEvents,
         timelineFrames, timelineIngestion, timelineJob, timelineWork,
         timelineCall, timelineDisturbed

-----------------------------------------------------------------------------
(***************************************************************************)
(* The histories of a player.                                              *)
(***************************************************************************)
USE DEF historyRows, historyTime, historyWriting, historyWalk

(* The cardinalities of the instance are those of the library.            *)
LEMMA HistorySameCardinality ==
  ASSUME NEW S
  PROVE  History!Cardinality(S) = Cardinality(S)
BY Zenon DEF History!Cardinality, Cardinality

-----------------------------------------------------------------------------
(* Listing rows in order.                                                  *)

LEMMA HistoryBeforeOrders ==
  ASSUME NEW S, HistoryListable(S), NEW r \in S, NEW s \in S, NEW t \in S
  PROVE  /\ ~History!Before(r, r) /\ (r # s => History!Before(r, s) \/ History!Before(s, r))
         /\ (History!Before(r, s) /\ History!Before(s, t) => History!Before(r, t)) /\ (History!Before(r, s) => ~History!Before(s, r))
<1>1. /\ r.at \in Nat /\ s.at \in Nat /\ t.at \in Nat /\ r.id \in Nat /\ s.id \in Nat /\ t.id \in Nat
      /\ (r.id = s.id => r = s)
  BY DEF HistoryListable, HistoryRow
<1> QED BY <1>1 DEF History!Before

\* The row at place i has i - 1 rows before it: there is one for each place.
LEMMA HistoryOrderedFacts ==
  ASSUME NEW S, HistoryListable(S)
  PROVE  LET n == Cardinality(S) IN
         /\ n \in Nat /\ History!Ordered(S) \in [1..n -> S]
         /\ \A i, j \in 1..n : i < j => History!Before(History!Ordered(S)[i], History!Ordered(S)[j])
         /\ \A r \in S : \E i \in 1..n : History!Ordered(S)[i] = r
<1> DEFINE n == Cardinality(S)
           up(r) == {s \in S : History!Before(s, r)}
           rank == [r \in S |-> Cardinality(up(r)) + 1]
<1>1. IsFiniteSet(S) /\ n \in Nat
  BY FS_CardinalityType DEF HistoryListable
<1>2. \A r \in S : IsFiniteSet(up(r)) /\ Cardinality(up(r)) \in Nat /\ Cardinality(up(r)) < n
  <2> TAKE r \in S
  <2>1. up(r) \in SUBSET S /\ up(r) # S
    BY HistoryBeforeOrders
  <2> HIDE DEF up
  <2>2. IsFiniteSet(up(r)) /\ Cardinality(up(r)) <= n /\ Cardinality(up(r)) # n
    BY <1>1, <2>1, FS_Subset
  <2> QED BY <1>1, <2>2, FS_CardinalityType
<1>3. \A r, s \in S : History!Before(r, s) => Cardinality(up(r)) < Cardinality(up(s))
  <2> SUFFICES ASSUME NEW r \in S, NEW s \in S, History!Before(r, s)
               PROVE  Cardinality(up(r)) < Cardinality(up(s))
    OBVIOUS
  <2>1. up(r) \in SUBSET up(s) /\ r \in up(s) /\ r \notin up(r)
    BY HistoryBeforeOrders
  <2> HIDE DEF up
  <2>2. Cardinality(up(r)) <= Cardinality(up(s)) /\ Cardinality(up(r)) # Cardinality(up(s))
    BY <1>2, <2>1, FS_Subset
  <2> QED BY <1>2, <2>2
<1> HIDE DEF up
<1>4. rank \in Injection(S, 1..n)
  <2>1. rank \in [S -> 1..n]
    BY <1>1, <1>2
  <2>2. ASSUME NEW r \in S, NEW s \in S, rank[r] = rank[s] PROVE r = s
    <3>1. Cardinality(up(r)) = Cardinality(up(s))
      BY <1>2, <2>2
    <3> QED BY <1>2, <1>3, <3>1, HistoryBeforeOrders
  <2> QED BY <2>1, <2>2 DEF Injection, IsInjective
<1>5. rank \in Surjection(S, 1..n)
  <2>1. IsFiniteSet(1..n) /\ Cardinality(1..n) = n
    BY <1>1, FS_Interval
  <2> HIDE DEF rank
  <2> QED BY <1>4, <2>1, FS_Injection
<1>6. \A i \in 1..n : \E r \in S : Cardinality(up(r)) = i - 1
  <2> TAKE i \in 1..n
  <2>1. PICK r \in S : rank[r] = i
    BY <1>5 DEF Surjection
  <2> QED BY <1>2, <2>1
<1>7. \A i \in 1..n : History!Ordered(S)[i] \in S /\ Cardinality(up(History!Ordered(S)[i])) = i - 1
  <2> TAKE i \in 1..n
  <2>1. History!Ordered(S)[i] = CHOOSE r \in S : Cardinality(up(r)) = i - 1
    BY HistorySameCardinality DEF History!Ordered, up
  <2> QED BY <1>6, <2>1
<1>8. History!Ordered(S) \in [1..n -> S]
  BY <1>7, HistorySameCardinality DEF History!Ordered
<1>9. \A i, j \in 1..n : i < j => History!Before(History!Ordered(S)[i], History!Ordered(S)[j])
  <2> TAKE i, j \in 1..n
  <2> HAVE i < j
  <2> DEFINE r == History!Ordered(S)[i]
             s == History!Ordered(S)[j]
  <2>1. r \in S /\ s \in S /\ Cardinality(up(r)) = i - 1 /\ Cardinality(up(s)) = j - 1
    BY <1>7
  <2> HIDE DEF r, s
  <2>2. r # s /\ ~History!Before(s, r)
    BY <1>1, <1>2, <1>3, <2>1
  <2>3. History!Before(r, s)
    BY <2>1, <2>2, HistoryBeforeOrders
  <2> QED BY <2>3 DEF r, s
<1>10. \A r \in S : \E i \in 1..n : History!Ordered(S)[i] = r
  <2> TAKE r \in S
  <2> DEFINE i == Cardinality(up(r)) + 1
  <2>1. i \in 1..n /\ Cardinality(up(r)) = i - 1
    BY <1>1, <1>2
  <2> HIDE DEF i
  <2> DEFINE s == History!Ordered(S)[i]
  <2>2. s \in S /\ Cardinality(up(s)) = Cardinality(up(r))
    BY <1>7, <2>1
  <2> HIDE DEF s
  <2>3. s = r
    BY <1>2, <1>3, <2>2, HistoryBeforeOrders
  <2> QED BY <2>1, <2>3 DEF s
<1> QED BY <1>1, <1>8, <1>9, <1>10

-----------------------------------------------------------------------------
(* The steps.                                                              *)

\* The page that follows the cursor: the rows below it, in order, and no more
\* than fit on it.
LEMMA HistoryPageFacts ==
  ASSUME History!ConstantsAssumption, NEW table \in History!Table, HistoryListable(historyRows[table]), NEW filter, NEW cursor
  PROVE  LET those == HistoryBelow(table, filter, cursor)
             q == History!Ordered(those)
             n == Cardinality(those)
             more == HistoryMore(table, filter, cursor)
             items == HistoryItems(table, filter, cursor)
             k == HistoryLength(table, filter, cursor)
         IN /\ n \in Nat /\ q \in [1..n -> those] /\ k \in Nat /\ k <= n /\ (more => k >= 1) /\ (~more => k = n)
            /\ items \in Seq(HistoryRow) /\ Len(items) = k /\ \A i \in 1..k : items[i] = q[i]
            /\ \A i, j \in 1..n : i < j => History!Before(q[i], q[j])
            /\ \A row \in those : \E i \in 1..n : q[i] = row
<1> DEFINE those == {row \in historyRows[table] : row.group \in filter /\ History!BelowCursor(row, cursor)}
           q == History!Ordered(those)
           n == Cardinality(those)
           list == History!ListHistory(table, filter, cursor, HistoryPageLimit + 1)
           more == Len(list) > HistoryPageLimit
           items == IF more THEN SubSeq(list, 1, HistoryPageLimit) ELSE list
           k == IF more THEN HistoryPageLimit ELSE n
<1>1. HistoryListable(those)
  <2>1. IsFiniteSet(those)
    BY FS_Subset DEF HistoryListable
  <2> QED BY <2>1 DEF HistoryListable
<1>2. HistoryPageLimit \in Nat /\ HistoryPageLimit >= 1
  BY DEF History!ConstantsAssumption
<1>3. list = SubSeq(q, 1, IF Len(q) < HistoryPageLimit + 1 THEN Len(q) ELSE HistoryPageLimit + 1)
  BY DEF History!ListHistory
<1>4. those \subseteq HistoryRow
  BY <1>1 DEF HistoryListable
<1> HIDE DEF those, list
<1>5. /\ n \in Nat /\ q \in [1..n -> those]
      /\ \A i, j \in 1..n : i < j => History!Before(q[i], q[j])
      /\ \A row \in those : \E i \in 1..n : q[i] = row
  BY <1>1, HistoryOrderedFacts
<1> HIDE DEF q, n
<1>6. q \in Seq(HistoryRow) /\ Len(q) = n
  BY <1>4, <1>5
<1>7. /\ k \in Nat /\ k <= n /\ (more => k >= 1) /\ (~more => k = n)
      /\ items \in Seq(HistoryRow) /\ Len(items) = k /\ \A i \in 1..k : items[i] = q[i]
  <2>1. CASE n <= HistoryPageLimit
    <3>1. list = SubSeq(q, 1, n)
      BY <1>2, <1>3, <1>5, <1>6, <2>1
    <3>2. list = q
      BY <1>5, <1>6, <3>1
    <3> QED BY <1>2, <1>5, <1>6, <2>1, <3>2
  <2>2. CASE n > HistoryPageLimit
    <3>1. list = SubSeq(q, 1, HistoryPageLimit + 1) /\ HistoryPageLimit + 1 <= n
      BY <1>2, <1>3, <1>5, <1>6, <2>2
    <3>2. list \in Seq(HistoryRow) /\ Len(list) = HistoryPageLimit + 1 /\ \A i \in 1..HistoryPageLimit + 1 : list[i] = q[i]
      BY <1>2, <1>5, <1>6, <3>1
    <3>3. items = SubSeq(list, 1, HistoryPageLimit) /\ more /\ k = HistoryPageLimit
      BY <1>2, <3>2
    <3> HIDE DEF items
    <3>4. items \in Seq(HistoryRow) /\ Len(items) = HistoryPageLimit /\ \A i \in 1..HistoryPageLimit : items[i] = list[i]
      BY <1>2, <3>2, <3>3
    <3> QED BY <1>2, <1>5, <2>2, <3>2, <3>3, <3>4
  <2> QED BY <1>2, <1>5, <2>1, <2>2
<1> HIDE DEF more, items, k
<1>8. /\ those = HistoryBelow(table, filter, cursor) /\ more = HistoryMore(table, filter, cursor)
      /\ items = HistoryItems(table, filter, cursor) /\ k = HistoryLength(table, filter, cursor)
  BY DEF more, items, k, those, n, list, HistoryBelow, HistoryMore, HistoryItems, HistoryLength
<1> QED BY <1>5, <1>7, <1>8 DEF q, n

LEMMA HistoryPageStep ==
  ASSUME HistoryIInv, History!ConstantsAssumption, NEW r \in HistoryReader, NEW table \in History!Table,
         historyWalk[r].step = "walking", historyWalk[r].table = table,
         History!PageOf(r, History!ListHistory(table, historyWalk[r].filter, historyWalk[r].cursor, HistoryPageLimit + 1)),
         UNCHANGED <<historyRows, historyTime, historyWriting>>
  PROVE  HistoryIInv'
<1> DEFINE w == historyWalk[r]
           x == historyWalk'[r]
           those == HistoryBelow(table, w.filter, w.cursor)
           q == History!Ordered(those)
           n == Cardinality(those)
           more == HistoryMore(table, w.filter, w.cursor)
           items == HistoryItems(table, w.filter, w.cursor)
           k == HistoryLength(table, w.filter, w.cursor)
           m == Len(w.seen)
<1>1. HistoryListable(historyRows[table]) /\ historyRows[table] \subseteq HistoryRow
  BY DEF HistoryIInv, HistoryTypes, HistoryListable
<1>2. /\ n \in Nat /\ q \in [1..n -> those] /\ k \in Nat /\ k <= n /\ (more => k >= 1) /\ (~more => k = n)
      /\ items \in Seq(HistoryRow) /\ Len(items) = k /\ \A i \in 1..k : items[i] = q[i]
      /\ \A i, j \in 1..n : i < j => History!Before(q[i], q[j])
      /\ \A row \in those : \E i \in 1..n : q[i] = row
  BY <1>1, HistoryPageFacts
<1>3. /\ historyWalk' = [historyWalk EXCEPT ![r].seen = w.seen \o items,
                              ![r].cursor = IF more THEN items[Len(items)] ELSE None,
                              ![r].step = IF more THEN "walking" ELSE "done"]
  BY DEF History!PageOf, HistoryMore, HistoryItems
<1>4. /\ w \in HistoryWalkType /\ HistoryFollowsRows(w, historyRows) /\ w.step = "walking" /\ w.table = table /\ historyWalk \in [HistoryReader -> HistoryWalkType]
      /\ None \notin HistoryRow
  BY DEF HistoryIInv, HistoryTypes, History!ConstantsAssumption, HistoryRow
<1>5. those \subseteq HistoryRow /\ \A row \in those : History!BelowCursor(row, w.cursor)
  BY <1>1 DEF HistoryBelow
<1> HIDE DEF more, items, k, q, n
<1>6. /\ x.seen = w.seen \o items /\ x.cursor = (IF more THEN items[k] ELSE None)
      /\ x.step = (IF more THEN "walking" ELSE "done") /\ x.table = table /\ x.filter = w.filter /\ x.due = w.due
      /\ x \in HistoryWalkType /\ \A o \in HistoryReader : o # r => historyWalk'[o] = historyWalk[o]
      /\ historyWalk' \in [HistoryReader -> HistoryWalkType]
  <2> DEFINE y == [w EXCEPT !.seen = w.seen \o items, !.cursor = IF more THEN items[Len(items)] ELSE None,
                            !.step = IF more THEN "walking" ELSE "done"]
  <2>1. historyWalk' = [historyWalk EXCEPT ![r] = y]
    BY <1>3
  <2>2. /\ w.seen \o items \in Seq(HistoryRow) /\ (IF more THEN items[Len(items)] ELSE None) \in HistoryRow \cup {None}
    BY <1>2, <1>4 DEF HistoryWalkType
  <2>3. y \in HistoryWalkType
    BY <1>4, <2>2 DEF HistoryWalkType
  <2>4. /\ y.seen = w.seen \o items /\ y.cursor = (IF more THEN items[k] ELSE None)
        /\ y.step = (IF more THEN "walking" ELSE "done") /\ y.table = table /\ y.filter = w.filter /\ y.due = w.due
    BY <1>2, <1>4 DEF HistoryWalkType
  <2> HIDE DEF y
  <2>5. x = y
    BY <1>4, <2>1
  <2> QED BY <1>4, <2>1, <2>3, <2>4, <2>5
<1>7. /\ m \in Nat /\ Len(x.seen) = m + k
      /\ \A i \in 1..m : x.seen[i] = w.seen[i]
      /\ \A i \in 1..k : x.seen[m + i] = q[i]
      /\ w.seen \in Seq(HistoryRow)
  <2>1. w.seen \in Seq(HistoryRow) /\ items \in Seq(HistoryRow) /\ Len(items) = k /\ k \in Nat /\ x.seen = w.seen \o items
    BY <1>2, <1>4, <1>6 DEF HistoryWalkType
  <2> HIDE DEF w, x
  <2>2. /\ m \in Nat /\ Len(x.seen) = m + k
        /\ \A i \in 1..m + k : x.seen[i] = IF i <= m THEN w.seen[i] ELSE items[i - m]
    <3>1. w.seen \o items \in Seq(HistoryRow) /\ Len(w.seen \o items) = Len(w.seen) + Len(items)
      BY <2>1, ConcatProperties
    <3>2. \A i \in 1..Len(w.seen) + Len(items) :
            (w.seen \o items)[i] = IF i <= Len(w.seen) THEN w.seen[i] ELSE items[i - Len(w.seen)]
      BY <2>1, ConcatProperties
    <3> QED BY <2>1, <3>1, <3>2
  <2>3. \A i \in 1..m : x.seen[i] = w.seen[i]
    BY <2>1, <2>2
  <2>4. ASSUME NEW i \in 1..k PROVE x.seen[m + i] = q[i]
    <3>1. m + i \in 1..m + k /\ ~(m + i <= m) /\ m + i - m = i
      BY <2>1, <2>2
    <3>2. x.seen[m + i] = items[i]
      BY <2>2, <3>1
    <3>3. items[i] = q[i]
      BY <1>2
    <3> QED BY <3>2, <3>3
  <2> QED BY <2>1, <2>2, <2>3, <2>4
<1> HIDE DEF w, x, m, those
<1>8. \A i \in 1..Len(x.seen) - 1 : History!Before(x.seen[i], x.seen[i + 1])
  <2> TAKE i \in 1..Len(x.seen) - 1
  <2>1. CASE i < m
    <3>1. i \in 1..m - 1 /\ i + 1 \in 1..m
      BY <1>7, <2>1
    <3>2. History!Before(w.seen[i], w.seen[i + 1])
      BY <1>4, <3>1 DEF HistoryFollowsRows, m
    <3>3. x.seen[i] = w.seen[i] /\ x.seen[i + 1] = w.seen[i + 1]
      BY <1>7, <3>1
    <3> QED BY <3>2, <3>3
  <2>2. CASE i = m
    <3>1. 1 \in 1..k /\ 1 \in 1..n /\ m \in 1..m /\ w.seen # <<>>
      BY <1>2, <1>7, <2>2 DEF m
    <3>2. x.seen[i] = w.seen[m] /\ x.seen[i + 1] = q[1] /\ q[1] \in those
      BY <1>2, <1>7, <2>2, <3>1
    <3>3. w.cursor = w.seen[m] /\ w.seen[m] \in HistoryRow
      BY <1>4, <1>7, <3>1 DEF HistoryFollowsRows, m
    <3> QED BY <1>4, <1>5, <3>2, <3>3 DEF History!BelowCursor
  <2>3. CASE i > m
    <3>1. i - m \in 1..k /\ i - m + 1 \in 1..k /\ i = m + (i - m) /\ i + 1 = m + (i - m + 1)
      BY <1>2, <1>7, <2>3
    <3>2. x.seen[i] = q[i - m] /\ x.seen[i + 1] = q[i - m + 1]
      BY <1>7, <3>1
    <3>3. i - m \in 1..n /\ i - m + 1 \in 1..n /\ i - m < i - m + 1
      BY <1>2, <3>1
    <3> QED BY <1>2, <3>2, <3>3
  <2> QED BY <1>7, <2>1, <2>2, <2>3
<1>9. ASSUME NEW row \in HistoryOwed(x)
      PROVE  more /\ History!Before(q[k], row)
  <2>1. row \in w.due /\ \A i \in 1..Len(x.seen) : x.seen[i] # row
    BY <1>6 DEF HistoryOwed
  <2>2. row \in HistoryOwed(w)
    <3>1. \A i \in 1..m : i \in 1..Len(x.seen) /\ x.seen[i] = w.seen[i]
      BY <1>2, <1>7
    <3> QED BY <2>1, <3>1 DEF HistoryOwed, m
  <2>3. row \in those
    BY <1>4, <2>1, <2>2 DEF HistoryFollowsRows, those, HistoryBelow
  <2>4. PICK j \in 1..n : q[j] = row
    BY <1>2, <2>3
  <2>5. j > k
    <3> SUFFICES ASSUME j <= k PROVE FALSE
      BY <1>2
    <3>1. j \in 1..k /\ m + j \in 1..Len(x.seen)
      BY <1>2, <1>7
    <3> QED BY <1>7, <2>1, <2>4, <3>1
  <2>6. more /\ k \in 1..n
    BY <1>2, <2>5
  <2> QED BY <1>2, <2>4, <2>5, <2>6
<1>10. HistoryFollowsRows(x, historyRows')
  <2>1. CASE more
    <3>1. x.seen # <<>> /\ x.seen[Len(x.seen)] = q[k] /\ x.cursor = q[k] /\ x.step = "walking"
      <4>1. k \in 1..k /\ m + k >= 1 /\ Len(<<>>) = 0
        BY <1>2, <1>7, <2>1
      <4>2. x.seen[m + k] = q[k] /\ Len(x.seen) = m + k /\ items[k] = q[k]
        BY <1>2, <1>7, <4>1
      <4> QED BY <1>6, <2>1, <4>1, <4>2
    <3>2. \A row \in x.due : row \in historyRows[x.table] /\ row.group \in x.filter
      BY <1>4, <1>6 DEF HistoryFollowsRows
    <3>3. \A row \in HistoryOwed(x) : History!BelowCursor(row, x.cursor)
      BY <1>9, <3>1 DEF History!BelowCursor
    <3> QED BY <1>6, <1>8, <3>1, <3>2, <3>3 DEF HistoryFollowsRows, HistoryOwed
  <2>2. CASE ~more
    BY <1>6, <1>8, <1>9, <2>2 DEF HistoryFollowsRows, HistoryOwed
  <2> QED BY <2>1, <2>2
<1>11. HistoryTypes'
  BY <1>6 DEF HistoryIInv, HistoryTypes
<1>12. \A o \in HistoryReader : HistoryFollowsRows(historyWalk'[o], historyRows')
  BY <1>6, <1>10 DEF HistoryIInv, HistoryFollowsRows, x
<1> QED BY <1>11, <1>12 DEF HistoryIInv

LEMMA HistoryBegun ==
  ASSUME NEW table, NEW filter, NEW due
  PROVE  [History!NoWalk EXCEPT !.step = "walking", !.table = table, !.filter = filter, !.due = due] =
           [step |-> "walking", table |-> table, filter |-> filter, cursor |-> None, seen |-> <<>>, due |-> due]
<1> DEFINE d == [History!NoWalk EXCEPT !.step = "walking", !.table = table, !.filter = filter, !.due = due]
<1>1. /\ DOMAIN d = {"step", "table", "filter", "cursor", "seen", "due"}
      /\ d.step = "walking" /\ d.table = table /\ d.filter = filter /\ d.due = due
  BY DEF History!NoWalk
<1>2. d.cursor = None /\ d.seen = <<>> /\ d = [x \in DOMAIN d |-> d[x]]
  BY DEF History!NoWalk
<1> HIDE DEF d
<1>3. d = [step |-> "walking", table |-> table, filter |-> filter, cursor |-> None, seen |-> <<>>, due |-> due]
  BY <1>1, <1>2
<1> QED BY <1>3 DEF d

LEMMA HistoryStartStep ==
  ASSUME HistoryIInv, NEW r \in HistoryReader, NEW table \in History!Table, NEW filter \in SUBSET HistoryQueue, History!StartWalk(r, table, filter)
  PROVE  HistoryIInv'
<1> DEFINE w == [step |-> "walking", table |-> table, filter |-> filter, cursor |-> None, seen |-> <<>>,
                 due |-> {row \in historyRows[table] : row.group \in filter}]
<1>1. historyWalk' = [historyWalk EXCEPT ![r] = w] /\ UNCHANGED <<historyRows, historyTime, historyWriting>>
  <2>1. [History!NoWalk EXCEPT !.step = "walking", !.table = table, !.filter = filter,
                       !.due = {row \in historyRows[table] : row.group \in filter}] = w
    BY HistoryBegun
  <2> HIDE DEF w
  <2> QED BY <2>1 DEF History!StartWalk
<1>2. w \in HistoryWalkType
  <2>1. historyRows[table] \subseteq HistoryRow /\ <<>> \in Seq(HistoryRow)
    BY DEF HistoryIInv, HistoryTypes, HistoryListable
  <2> QED BY <2>1 DEF HistoryWalkType
<1>3. HistoryFollowsRows(w, historyRows)
  BY DEF HistoryFollowsRows, HistoryOwed, History!BelowCursor
<1> HIDE DEF w
<1>4. HistoryTypes'
  BY <1>1, <1>2 DEF HistoryIInv, HistoryTypes
<1>5. \A o \in HistoryReader : HistoryFollowsRows(historyWalk'[o], historyRows')
  <2>1. \A o \in HistoryReader : historyWalk'[o] = IF o = r THEN w ELSE historyWalk[o]
    BY <1>1 DEF HistoryIInv, HistoryTypes
  <2> QED BY <1>1, <1>3, <2>1 DEF HistoryIInv
<1> QED BY <1>4, <1>5 DEF HistoryIInv

\* A row that is added disturbs no walk: it was not due.
LEMMA HistoryRowAdded ==
  ASSUME HistoryIInv, NEW table \in History!Table, NEW row \in HistoryRow, row.id \in History!Unused,
         historyRows' = [historyRows EXCEPT ![table] = @ \cup {row}], UNCHANGED <<historyTime, historyWalk>>,
         \A w \in HistoryWriter : historyWriting'[w].step = "insert" => historyWriting'[w] = historyWriting[w]
  PROVE  HistoryIInv'
<1>1. \A t \in History!Table : historyRows'[t] = IF t = table THEN historyRows[t] \cup {row} ELSE historyRows[t]
  BY DEF HistoryIInv, HistoryTypes
<1>2. HistoryListable(historyRows[table] \cup {row})
  <2>1. HistoryListable(historyRows[table]) /\ historyRows[table] \subseteq History!AllRows
    BY DEF HistoryIInv, HistoryTypes, History!AllRows
  <2>2. \A s \in historyRows[table] : s.id # row.id
    BY <2>1 DEF History!Unused
  <2>3. IsFiniteSet(historyRows[table] \cup {row})
    BY <2>1, FS_AddElement DEF HistoryListable
  <2> QED BY <2>1, <2>2, <2>3 DEF HistoryListable
<1>3. HistoryTypes'
  <2>1. historyRows' \in [History!Table -> SUBSET HistoryRow] /\ \A t \in History!Table : HistoryListable(historyRows'[t])
    BY <1>1, <1>2 DEF HistoryIInv, HistoryTypes
  <2> QED BY <2>1 DEF HistoryIInv, HistoryTypes
<1>4. ASSUME NEW r \in HistoryReader PROVE HistoryFollowsRows(historyWalk'[r], historyRows')
  <2>1. HistoryFollowsRows(historyWalk[r], historyRows) /\ historyWalk' = historyWalk
    BY DEF HistoryIInv
  <2>2. historyWalk[r].table \in History!Table => historyRows[historyWalk[r].table] \subseteq historyRows'[historyWalk[r].table]
    BY <1>1
  <2> QED BY <2>1, <2>2 DEF HistoryFollowsRows
<1> QED BY <1>3, <1>4 DEF HistoryIInv

LEMMA HistoryOtherSteps ==
  ASSUME HistoryIInv, History!Tick \/ UNCHANGED History!vars \/
               \E w \in HistoryWriter, group \in History!Group, value \in HistoryValue, table \in {"ranks", "mastery"} :
                 History!ReadLatest(w, table, group, value)
  PROVE  HistoryIInv'
<1>1. UNCHANGED <<historyRows, historyWalk>> /\ historyTime' \in Nat
  BY DEF History!Tick, History!vars, History!ReadLatest, HistoryIInv, HistoryTypes
<1>2. ASSUME NEW w \in HistoryWriter, historyWriting'[w].step = "insert"
      PROVE  historyWriting'[w].table \in History!Table /\ historyWriting'[w].group \in HistoryQueue /\ historyWriting'[w].value \in HistoryValue
  <2>1. CASE historyWriting' = historyWriting
    BY <1>2, <2>1 DEF HistoryIInv, HistoryTypes
  <2>2. CASE \E o \in HistoryWriter, group \in History!Group, value \in HistoryValue, table \in {"ranks", "mastery"} :
               History!ReadLatest(o, table, group, value)
    <3>1. PICK o \in HistoryWriter, group \in History!Group, value \in HistoryValue, table \in {"ranks", "mastery"} :
            History!ReadLatest(o, table, group, value)
      BY <2>2
    <3> DEFINE new == [step |-> "insert", table |-> table, group |-> group, value |-> value,
                       latest |-> History!Latest(table, group)]
    <3>2. historyWriting' = [historyWriting EXCEPT ![o] = new]
      BY <3>1 DEF History!ReadLatest
    <3>3. new.table \in History!Table /\ new.group \in HistoryQueue /\ new.value \in HistoryValue
      BY DEF History!Table, History!Group
    <3> HIDE DEF new
    <3>4. CASE historyWriting'[w] = new
      BY <3>3, <3>4
    <3>5. CASE historyWriting'[w] = historyWriting[w]
      BY <1>2, <3>5 DEF HistoryIInv, HistoryTypes
    <3> QED BY <3>2, <3>4, <3>5
  <2> QED BY <2>1, <2>2 DEF History!Tick, History!vars
<1> QED BY <1>1, <1>2 DEF HistoryIInv, HistoryTypes, HistoryFollowsRows

LEMMA HistoryInitIInv == ASSUME History!Init PROVE HistoryIInv
<1>1. HistoryListable({})
  BY FS_EmptySet DEF HistoryListable
<1>2. History!NoWalk \in HistoryWalkType
  BY DEF History!NoWalk, HistoryWalkType
<1>3. HistoryFollowsRows(History!NoWalk, historyRows)
  BY DEF History!NoWalk, HistoryFollowsRows
<1> QED BY <1>1, <1>2, <1>3 DEF History!Init, HistoryIInv, HistoryTypes, History!NoWrite

LEMMA HistoryNextIInv == ASSUME HistoryIInv, History!ConstantsAssumption, [History!Next]_(History!vars) PROVE HistoryIInv'
<1>1. ASSUME NEW w \in HistoryWriter, History!InsertSnapshot(w) PROVE HistoryIInv'
  <2> DEFINE new == historyWriting[w]
  <2>1. PICK id \in History!Unused :
          historyRows' = [historyRows EXCEPT ![new.table] = @ \cup {[at |-> historyTime, id |-> id, group |-> new.group,
                                                       value |-> new.value]}]
    BY <1>1 DEF History!InsertSnapshot
  <2>2. /\ new.step = "insert" /\ UNCHANGED <<historyTime, historyWalk>>
        /\ \A o \in HistoryWriter : historyWriting'[o].step = "insert" => historyWriting'[o] = historyWriting[o]
    BY <1>1 DEF History!InsertSnapshot, History!NoWrite
  <2>3. new.table \in History!Table /\ new.group \in HistoryQueue /\ new.value \in HistoryValue /\ historyTime \in Nat /\ id \in Nat
    BY <2>2 DEF HistoryIInv, HistoryTypes, History!Unused, History!ConstantsAssumption
  <2> HIDE DEF new
  <2> DEFINE row == [at |-> historyTime, id |-> id, group |-> new.group, value |-> new.value]
  <2>4. row \in HistoryRow /\ row.id \in History!Unused
    BY <2>3 DEF HistoryRow
  <2> HIDE DEF row
  <2>5. historyRows' = [historyRows EXCEPT ![new.table] = @ \cup {row}]
    BY <2>1 DEF row
  <2> QED BY <2>2, <2>3, <2>4, <2>5, HistoryRowAdded
<1>2. ASSUME NEW queue \in HistoryQueue, NEW at \in 1..HistoryMaxTime, History!LinkMatch(queue, at) PROVE HistoryIInv'
  <2>1. PICK id \in History!Unused, value \in HistoryValue :
          historyRows' = [historyRows EXCEPT !["matches"] = @ \cup {[at |-> at, id |-> id, group |-> queue, value |-> value]}]
    BY <1>2 DEF History!LinkMatch
  <2> DEFINE row == [at |-> at, id |-> id, group |-> queue, value |-> value]
  <2>2. row \in HistoryRow /\ row.id \in History!Unused /\ "matches" \in History!Table
    BY DEF HistoryRow, History!Unused, History!Table, History!ConstantsAssumption
  <2>3. UNCHANGED <<historyTime, historyWriting, historyWalk>>
    BY <1>2 DEF History!LinkMatch
  <2> HIDE DEF row
  <2>4. historyRows' = [historyRows EXCEPT !["matches"] = @ \cup {row}]
    BY <2>1 DEF row
  <2> QED BY <2>2, <2>3, <2>4, HistoryRowAdded
<1>3. ASSUME NEW r \in HistoryReader, NEW group \in History!Group, History!StartWalk(r, "ranks", {group}) \/ History!StartWalk(r, "mastery", {group})
      PROVE  HistoryIInv'
  <2>1. {group} \in SUBSET HistoryQueue /\ "ranks" \in History!Table /\ "mastery" \in History!Table
    BY DEF History!Group, History!Table
  <2> QED BY <1>3, <2>1, HistoryStartStep
<1>4. ASSUME NEW r \in HistoryReader, NEW category \in HistoryCategory, History!StartWalk(r, "matches", History!QueueFilter(category)) PROVE HistoryIInv'
  <2>1. History!QueueFilter(category) \in SUBSET HistoryQueue /\ "matches" \in History!Table
    BY DEF History!QueueFilter, History!Table
  <2> QED BY <1>4, <2>1, HistoryStartStep
<1>5. ASSUME NEW r \in HistoryReader, History!GetRanks(r) \/ History!GetMastery(r) \/ History!GetMatches(r) PROVE HistoryIInv'
  <2>1. PICK table \in History!Table :
          /\ historyWalk[r].step = "walking" /\ historyWalk[r].table = table
          /\ History!PageOf(r, History!ListHistory(table, historyWalk[r].filter, historyWalk[r].cursor, HistoryPageLimit + 1))
          /\ UNCHANGED <<historyRows, historyTime, historyWriting>>
    BY <1>5 DEF History!GetRanks, History!GetMastery, History!GetMatches, History!ListForPlayerAccount, History!Table
  <2> QED BY <2>1, HistoryPageStep
<1> QED BY <1>1, <1>2, <1>3, <1>4, <1>5, HistoryOtherSteps DEF History!Next

LEMMA HistoryIInvSuffices == ASSUME HistoryIInv PROVE History!WalksMissNothing
<1>1. ASSUME NEW r \in HistoryReader, historyWalk[r].step = "done", NEW row \in historyWalk[r].due PROVE row \in History!Range(historyWalk[r].seen)
  <2>1. PICK i \in 1..Len(historyWalk[r].seen) : historyWalk[r].seen[i] = row
    BY <1>1 DEF HistoryIInv, HistoryFollowsRows, HistoryOwed
  <2>2. historyWalk[r].seen \in Seq(HistoryRow)
    BY DEF HistoryIInv, HistoryTypes, HistoryWalkType
  <2> QED BY <2>1, <2>2 DEF History!Range
<1> QED BY <1>1 DEF History!WalksMissNothing, HistoryIInv, HistoryFollowsRows

(* The inductive invariant of the histories: the rows of a table have one
   order, and those that a walk still owes its reader are below its cursor. *)
THEOREM HistoryInductive == ASSUME History!ConstantsAssumption PROVE History!Spec => []HistoryIInv
<1>1. History!Init => HistoryIInv
  BY HistoryInitIInv
<1>2. HistoryIInv /\ [History!Next]_(History!vars) => HistoryIInv'
  BY HistoryNextIInv
<1> QED BY <1>1, <1>2, PTL DEF History!Spec

(* A walk shows no row twice, newest first, and misses none that was there
   when it began: for any number of readers, writers, rows, queues and times,
   and any size of a page. *)
THEOREM HistoryComplete == ASSUME History!ConstantsAssumption PROVE History!Spec => []History!WalksMissNothing
<1>1. HistoryIInv => History!WalksMissNothing
  BY HistoryIInvSuffices
<1> QED BY <1>1, HistoryInductive, PTL

HIDE DEF historyRows, historyTime, historyWriting, historyWalk

-----------------------------------------------------------------------------
(***************************************************************************)
(* The rebuilds of the aggregates.                                         *)
(***************************************************************************)
USE DEF rebuildContent, rebuildRows, rebuildMarker, rebuildScopes,
        rebuildWork, rebuildJob, rebuildQuiet, rebuildTorn, rebuildBefore,
        rebuildRebuilds, rebuildChanges, rebuildRebuildFaults

-----------------------------------------------------------------------------
(* The operators.                                                          *)

LEMMA RebuildShowFacts ==
  ASSUME NEW table, NEW new, NEW key
  PROVE  /\ RebuildShow(Rebuild!NonEmpty(table), key) = RebuildShow(table, key)
         /\ RebuildShow(Rebuild!Put(table, new), key) = (IF key \in DOMAIN new THEN new[key] ELSE RebuildShow(table, key))
<1>1. RebuildShow(Rebuild!NonEmpty(table), key) = RebuildShow(table, key)
  BY DEF RebuildShow, Rebuild!NonEmpty
<1>2. RebuildShow(Rebuild!Put(table, new), key) = (IF key \in DOMAIN new THEN new[key] ELSE RebuildShow(table, key))
  BY DEF RebuildShow, Rebuild!Put
<1> QED BY <1>1, <1>2

LEMMA RebuildDropFacts ==
  ASSUME NEW table, NEW keys, NEW key
  PROVE  RebuildShow(Rebuild!Drop(table, keys), key) = IF key \in keys THEN {} ELSE RebuildShow(table, key)
BY DEF RebuildShow, Rebuild!Drop

LEMMA RebuildShownIsShow ==
  ASSUME NEW kind, NEW key
  PROVE  /\ Rebuild!Shown(kind, key) = RebuildShow(rebuildRows[kind], key) /\ Rebuild!Shown(kind, key)' = RebuildShow(rebuildRows'[kind], key)
         /\ (UNCHANGED rebuildRows => Rebuild!Shown(kind, key)' = Rebuild!Shown(kind, key))
         /\ Rebuild!Torn(kind, key) => Rebuild!Shown(kind, key) = {}
BY DEF Rebuild!Shown, RebuildShow, Rebuild!Torn

\* What matches say changes with them, and what was there before with a command.
LEMMA RebuildStaysTrue ==
  ASSUME NEW kind, NEW key
  PROVE  /\ UNCHANGED rebuildContent => Rebuild!Truth(kind, key)' = Rebuild!Truth(kind, key) /\ Rebuild!Completed' = Rebuild!Completed
         /\ UNCHANGED rebuildBefore => Rebuild!Old(kind, key)' = Rebuild!Old(kind, key)
BY DEF Rebuild!Truth, Rebuild!Completed, Rebuild!Old

LEMMA RebuildFilterStays ==
  ASSUME NEW j, NEW i, NEW key, j.champion = i.champion, j.category = i.category, j.kind = i.kind
  PROVE  Rebuild!InFilter(j, key) <=> Rebuild!InFilter(i, key)
BY DEF Rebuild!InFilter

-----------------------------------------------------------------------------
(* The steps.                                                              *)

LEMMA RebuildSetsEqual == ASSUME NEW S, NEW T, \A m : m \in S <=> m \in T PROVE S = T
OBVIOUS

LEMMA RebuildUnmoved ==
  ASSUME UNCHANGED <<rebuildRows, rebuildTorn>>, NEW kind, NEW key
  PROVE  RebuildMoved(kind, key) /\ Rebuild!Shown(kind, key)' = Rebuild!Shown(kind, key) /\ Rebuild!Torn(kind, key)' = Rebuild!Torn(kind, key)
BY DEF RebuildMoved, Rebuild!Torn, Rebuild!Shown

\* A step that only changes rows, to what the matches say or a gap.
LEMMA RebuildRowsStep ==
  ASSUME RebuildIInv, UNCHANGED <<rebuildContent, rebuildJob, rebuildQuiet, rebuildBefore>>, RebuildTypes', RebuildWorkFollows',
         rebuildQuiet => \A kind \in Rebuild!Kind : \A key : RebuildMoved(kind, key)
  PROVE  RebuildIInv'
<1>2. SUFFICES ASSUME rebuildQuiet, rebuildJob.step # "idle" PROVE RebuildFollows'
  BY DEF RebuildIInv
<1>3. RebuildFollows
  BY <1>2 DEF RebuildIInv
<1>4. \A kind, key : Rebuild!Truth(kind, key)' = Rebuild!Truth(kind, key) /\ Rebuild!Old(kind, key)' = Rebuild!Old(kind, key)
  BY RebuildStaysTrue
<1>5. /\ Rebuild!Completed' = Rebuild!Completed /\ \A key : Rebuild!InFilter(rebuildJob, key)' = Rebuild!InFilter(rebuildJob, key)
      /\ \A key : Rebuild!Expected(key)' = Rebuild!Expected(key)
  BY <1>4, RebuildStaysTrue DEF Rebuild!Expected, Rebuild!InFilter
<1>6. \A kind \in Rebuild!Kind : \A key : RebuildSame(kind, key) => RebuildSame(kind, key)'
  BY <1>2, <1>4 DEF RebuildSame, RebuildMoved
<1>7. RebuildJobFits'
  BY <1>3 DEF RebuildFollows, RebuildJobFits
<1>8. RebuildOthersAreSame'
  BY <1>3, <1>5, <1>6 DEF RebuildFollows, RebuildOthersAreSame
<1>9. RebuildPagesFollow'
  <2> SUFFICES ASSUME rebuildJob.kind \in RebuildPaged PROVE RebuildPagesFollow'
    BY DEF RebuildPagesFollow
  <2>1. rebuildJob.kind \in Rebuild!Kind
    BY <1>3 DEF RebuildFollows, RebuildJobFits
  <2>2. /\ rebuildJob.page \subseteq Rebuild!Completed
        /\ rebuildJob.step \in {"delete", "create"} => \A key \in DOMAIN rebuildJob.made : Rebuild!InFilter(rebuildJob, key)
    BY <1>3 DEF RebuildFollows, RebuildPagesFollow
  <2>3. ASSUME NEW key, Rebuild!InFilter(rebuildJob, key)
        PROVE  /\ rebuildJob.step \in {"list", "delete", "refused"} => RebuildSame(rebuildJob.kind, key)'
               /\ rebuildJob.step \in {"delete", "create"} => RebuildShow(rebuildJob.made, key) = Rebuild!Expected(key)
               /\ rebuildJob.step = "create" => Rebuild!Shown(rebuildJob.kind, key)' \in {{}, Rebuild!Truth(rebuildJob.kind, key)}
               /\ rebuildJob.step = "failed" => Rebuild!Shown(rebuildJob.kind, key)' = {} \/ RebuildSame(rebuildJob.kind, key)'
               /\ rebuildJob.step = "done" => IF rebuildJob.dry THEN RebuildSame(rebuildJob.kind, key)'
                                       ELSE \/ Rebuild!Shown(rebuildJob.kind, key)' \in {Rebuild!Expected(key), Rebuild!Truth(rebuildJob.kind, key)}
                                            \/ Rebuild!Torn(rebuildJob.kind, key)'
    <3>1. /\ Rebuild!Shown(rebuildJob.kind, key)' \in {Rebuild!Shown(rebuildJob.kind, key), Rebuild!Truth(rebuildJob.kind, key), {}}
          /\ \/ Rebuild!Shown(rebuildJob.kind, key)' = Rebuild!Truth(rebuildJob.kind, key) \/ Rebuild!Torn(rebuildJob.kind, key)'
             \/ Rebuild!Shown(rebuildJob.kind, key)' = Rebuild!Shown(rebuildJob.kind, key) /\ ~Rebuild!Torn(rebuildJob.kind, key)
      <4>1. PICK k \in Rebuild!Kind : k = rebuildJob.kind
        BY <2>1
      <4>2. RebuildMoved(k, key) /\ (Rebuild!Torn(k, key) => Rebuild!Shown(k, key) = {}) /\ (Rebuild!Torn(k, key)' => Rebuild!Shown(k, key)' = {})
        BY <1>2 DEF Rebuild!Torn
      <4>3. /\ Rebuild!Shown(rebuildJob.kind, key)' = Rebuild!Shown(k, key)' /\ (Rebuild!Torn(rebuildJob.kind, key)' <=> Rebuild!Torn(k, key)')
            /\ Rebuild!Shown(rebuildJob.kind, key) = Rebuild!Shown(k, key) /\ (Rebuild!Torn(rebuildJob.kind, key) <=> Rebuild!Torn(k, key))
        BY <4>1 DEF Rebuild!Shown, Rebuild!Torn
      <4>4. Rebuild!Truth(rebuildJob.kind, key) = Rebuild!Truth(k, key)
        BY <4>1
      <4> QED BY <4>2, <4>3, <4>4 DEF RebuildMoved
    <3>2. /\ rebuildJob.step \in {"list", "delete", "refused"} => RebuildSame(rebuildJob.kind, key)
          /\ rebuildJob.step \in {"delete", "create"} => RebuildShow(rebuildJob.made, key) = Rebuild!Expected(key)
          /\ rebuildJob.step = "create" => Rebuild!Shown(rebuildJob.kind, key) \in {{}, Rebuild!Truth(rebuildJob.kind, key)}
          /\ rebuildJob.step = "failed" => Rebuild!Shown(rebuildJob.kind, key) = {} \/ RebuildSame(rebuildJob.kind, key)
          /\ rebuildJob.step = "done" => IF rebuildJob.dry THEN RebuildSame(rebuildJob.kind, key)
                                  ELSE \/ Rebuild!Shown(rebuildJob.kind, key) \in {Rebuild!Expected(key), Rebuild!Truth(rebuildJob.kind, key)}
                                       \/ Rebuild!Torn(rebuildJob.kind, key)
      BY <1>3, <2>3 DEF RebuildFollows, RebuildPagesFollow
    <3>3. Rebuild!Shown(rebuildJob.kind, key)' = Rebuild!Truth(rebuildJob.kind, key) \/ Rebuild!Torn(rebuildJob.kind, key)' => RebuildSame(rebuildJob.kind, key)'
      BY <1>4 DEF RebuildSame
    <3> QED BY <1>6, <2>1, <3>1, <3>2, <3>3
  <2> QED BY <1>4, <1>5, <2>2, <2>3 DEF RebuildPagesFollow, RebuildShow
<1>10. RebuildBatchesFollow'
  <2> SUFFICES ASSUME rebuildJob.kind = "champions" PROVE RebuildBatchesFollow'
    BY DEF RebuildBatchesFollow
  <2>1. \A key : Rebuild!Shown("champions", key) = Rebuild!Truth("champions", key) => Rebuild!Shown("champions", key)' = Rebuild!Truth("champions", key)
    BY <1>2 DEF Rebuild!Kind, RebuildMoved, Rebuild!Torn
  <2> QED BY <1>3, <1>4, <1>5, <2>1 DEF RebuildFollows, RebuildBatchesFollow
<1> QED BY <1>7, <1>8, <1>9, <1>10 DEF RebuildFollows

\* What a run takes up or puts down is as the matches say.
LEMMA RebuildFiguresStay ==
  ASSUME UNCHANGED rebuildContent, NEW n, NEW w, rebuildWork'[n] = w, RebuildFigures(w)
  PROVE  RebuildFigures(rebuildWork[n])'
<1>1. \A kind, key : Rebuild!Truth(kind, key)' = Rebuild!Truth(kind, key)
  BY RebuildStaysTrue
<1>2. RebuildFigures(rebuildWork[n])' <=>
        (~w.old => /\ w.step = "write" => \A key \in DOMAIN w.made : w.made[key] = Rebuild!Truth("champions", key)'
                   /\ w.step \in {"delete", "create"} =>
                         \A key \in DOMAIN w.made : w.made[key] = Rebuild!Truth("matchups", key)')
  BY DEF RebuildFigures
<1> QED BY <1>1, <1>2 DEF RebuildFigures

LEMMA RebuildRunsStay ==
  ASSUME UNCHANGED <<rebuildContent, rebuildWork>>, RebuildWorkFollows, rebuildQuiet' => rebuildQuiet
  PROVE  RebuildWorkFollows'
<1>1. ASSUME NEW n \in RebuildMatch PROVE RebuildFigures(rebuildWork[n])' /\ (rebuildQuiet' => ~(rebuildWork'[n].old))
  <2>1. RebuildFigures(rebuildWork[n])
    BY DEF RebuildWorkFollows
  <2>2. \A w : rebuildWork'[n] = w /\ RebuildFigures(w) => RebuildFigures(rebuildWork[n])'
    BY RebuildFiguresStay
  <2>3. RebuildFigures(rebuildWork[n])'
    BY <2>1, <2>2
  <2> QED BY <2>3 DEF RebuildWorkFollows
<1> QED BY <1>1 DEF RebuildWorkFollows

LEMMA RebuildWorkTurns ==
  ASSUME RebuildIInv, UNCHANGED <<rebuildContent, rebuildQuiet>>, NEW m \in RebuildMatch, NEW w, DOMAIN w = RebuildWorkFields,
         rebuildWork' = [rebuildWork EXCEPT ![m] = w], DOMAIN rebuildRows' = Rebuild!Kind, UNCHANGED rebuildJob,
         ~w.old \/ w.old = rebuildWork[m].old, RebuildFigures(w)
  PROVE  RebuildTypes' /\ RebuildWorkFollows'
<1>3. DOMAIN rebuildWork' = RebuildMatch /\ \A n \in RebuildMatch : rebuildWork'[n] = IF n = m THEN w ELSE rebuildWork[n]
  BY DEF RebuildIInv, RebuildTypes
<1>4. RebuildTypes'
  BY <1>3 DEF RebuildIInv, RebuildTypes
<1>5. ASSUME NEW n \in RebuildMatch PROVE RebuildFigures(rebuildWork[n])' /\ (rebuildQuiet' => ~(rebuildWork'[n].old))
  <2>1. RebuildFigures(rebuildWork[n]) /\ (rebuildQuiet => ~rebuildWork[n].old) /\ (rebuildQuiet => ~rebuildWork[m].old)
    BY DEF RebuildIInv, RebuildWorkFollows
  <2>2. PICK v : v = rebuildWork'[n]
    OBVIOUS
  <2>3. RebuildFigures(v) /\ (rebuildQuiet' => ~v.old)
    BY <1>3, <2>1, <2>2
  <2>4. RebuildFigures(rebuildWork[n])'
    BY <2>2, <2>3, RebuildFiguresStay
  <2> QED BY <2>2, <2>3, <2>4
<1> QED BY <1>4, <1>5 DEF RebuildWorkFollows

LEMMA RebuildNoWorkFits == DOMAIN Rebuild!NoWork = RebuildWorkFields /\ ~Rebuild!NoWork.old /\ Rebuild!NoWork.step = "idle"
BY DEF Rebuild!NoWork, RebuildWorkFields

\* The steps of a run that write no rows.
LEMMA RebuildWorkReads ==
  ASSUME RebuildIInv, NEW m \in RebuildMatch, Rebuild!WorkFold(m) \/ Rebuild!WorkClear(m) \/ Rebuild!WorkScan(m) \/ Rebuild!WorkFails(m)
  PROVE  RebuildIInv'
<1>1. UNCHANGED <<rebuildContent, rebuildJob, rebuildQuiet, rebuildBefore, rebuildRows, rebuildTorn>>
  BY DEF Rebuild!WorkFold, Rebuild!WorkClear, Rebuild!WorkScan, Rebuild!WorkFails, Rebuild!OnlyWork
<1>2. PICK w : /\ rebuildWork' = [rebuildWork EXCEPT ![m] = w] /\ DOMAIN w = RebuildWorkFields /\ ~w.old /\ RebuildFigures(w)
  <2>1. CASE Rebuild!WorkFold(m)
    <3> DEFINE w == [Rebuild!NoWork EXCEPT !.step = "write", !.loaded = rebuildScopes[m],
                                   !.made = Rebuild!FoldKeys(rebuildScopes[m] \cup Rebuild!ChampionKeys(rebuildContent[m]))]
    <3>1. DOMAIN w = RebuildWorkFields /\ ~w.old /\ w.step = "write"
          /\ w.made = Rebuild!FoldKeys(rebuildScopes[m] \cup Rebuild!ChampionKeys(rebuildContent[m]))
      BY DEF Rebuild!NoWork, RebuildWorkFields
    <3>2. RebuildFigures(w)
      BY <3>1 DEF RebuildFigures, Rebuild!FoldKeys
    <3>3. rebuildWork' = [rebuildWork EXCEPT ![m] = w]
      BY <2>1 DEF Rebuild!WorkFold
    <3> HIDE DEF w
    <3> QED BY <3>1, <3>2, <3>3
  <2>2. CASE Rebuild!WorkClear(m) \/ Rebuild!WorkFails(m)
    <3>1. rebuildWork' = [rebuildWork EXCEPT ![m] = Rebuild!NoWork] \/ rebuildWork' = [rebuildWork EXCEPT ![m] = [Rebuild!NoWork EXCEPT !.step = "scan"]]
      BY <2>2 DEF Rebuild!WorkClear, Rebuild!WorkFails
    <3>2. RebuildFigures(Rebuild!NoWork) /\ RebuildFigures([Rebuild!NoWork EXCEPT !.step = "scan"])
      BY DEF RebuildFigures, Rebuild!NoWork
    <3>3. DOMAIN [Rebuild!NoWork EXCEPT !.step = "scan"] = RebuildWorkFields /\ ~[Rebuild!NoWork EXCEPT !.step = "scan"].old
      BY DEF Rebuild!NoWork, RebuildWorkFields
    <3> QED BY <3>1, <3>2, <3>3, RebuildNoWorkFits
  <2>3. CASE Rebuild!WorkScan(m)
    <3> DEFINE pairs == Rebuild!MatchupKeys(rebuildContent[m])
               found == Rebuild!OfPairs(UNION {Rebuild!Keys("matchups", rebuildContent[o]) : o \in Rebuild!Completed}, pairs)
               w == [Rebuild!NoWork EXCEPT !.step = "delete", !.pairs = pairs,
                                   !.made = [key \in found |-> Rebuild!Truth("matchups", key)]]
    <3>1. DOMAIN w = RebuildWorkFields /\ ~w.old /\ w.step = "delete"
          /\ w.made = [key \in found |-> Rebuild!Truth("matchups", key)]
      BY DEF Rebuild!NoWork, RebuildWorkFields
    <3>2. RebuildFigures(w)
      BY <3>1 DEF RebuildFigures
    <3>3. rebuildWork' = [rebuildWork EXCEPT ![m] = Rebuild!NoWork] \/ rebuildWork' = [rebuildWork EXCEPT ![m] = w]
      BY <2>3 DEF Rebuild!WorkScan
    <3>4. RebuildFigures(Rebuild!NoWork)
      BY DEF RebuildFigures, Rebuild!NoWork
    <3> HIDE DEF w
    <3> QED BY <3>1, <3>2, <3>3, <3>4, RebuildNoWorkFits
  <2> QED BY <2>1, <2>2, <2>3
<1>3. RebuildTypes' /\ RebuildWorkFollows'
  BY <1>1, <1>2, RebuildWorkTurns DEF RebuildIInv, RebuildTypes
<1> QED BY <1>1, <1>3, RebuildUnmoved, RebuildRowsStep

LEMMA RebuildWorkWriteStep == ASSUME RebuildIInv, NEW m \in RebuildMatch, Rebuild!WorkWrite(m) PROVE RebuildIInv'
<1> DEFINE w == [Rebuild!NoWork EXCEPT !.step = "clear", !.loaded = rebuildWork[m].loaded]
           made == rebuildWork[m].made
<1>1. /\ UNCHANGED <<rebuildContent, rebuildJob, rebuildQuiet, rebuildBefore, rebuildTorn>> /\ rebuildWork' = [rebuildWork EXCEPT ![m] = w]
      /\ rebuildRows' = [rebuildRows EXCEPT !["champions"] = Rebuild!Written(@, made)]
  BY DEF Rebuild!WorkWrite, Rebuild!OnlyWork
<1>2. DOMAIN w = RebuildWorkFields /\ ~w.old /\ RebuildFigures(w)
  BY DEF Rebuild!NoWork, RebuildWorkFields, RebuildFigures
<1>3. /\ DOMAIN rebuildRows' = Rebuild!Kind /\ rebuildRows'["champions"] = Rebuild!Written(rebuildRows["champions"], made)
      /\ \A kind \in Rebuild!Kind : kind # "champions" => rebuildRows'[kind] = rebuildRows[kind]
  BY <1>1 DEF RebuildIInv, RebuildTypes, Rebuild!Kind
<1> HIDE DEF w
<1>4. RebuildTypes' /\ RebuildWorkFollows'
  BY <1>1, <1>2, <1>3, RebuildWorkTurns
<1>5. ASSUME rebuildQuiet PROVE \A key \in DOMAIN made : made[key] = Rebuild!Truth("champions", key)
  BY <1>5 DEF RebuildIInv, RebuildWorkFollows, RebuildFigures, Rebuild!WorkWrite
<1>6. ASSUME NEW key
      PROVE  RebuildShow(Rebuild!Written(rebuildRows["champions"], made), key)
               = IF key \in DOMAIN made THEN made[key] ELSE RebuildShow(rebuildRows["champions"], key)
  <2>1. RebuildShow(Rebuild!Put(rebuildRows["champions"], made), key)
          = IF key \in DOMAIN made THEN made[key] ELSE RebuildShow(rebuildRows["champions"], key)
    BY RebuildShowFacts, Zenon
  <2>2. RebuildShow(Rebuild!Written(rebuildRows["champions"], made), key) = RebuildShow(Rebuild!Put(rebuildRows["champions"], made), key)
    BY RebuildShowFacts, Zenon DEF Rebuild!Written
  <2> QED BY <2>1, <2>2
<1>7. ASSUME rebuildQuiet, NEW kind \in Rebuild!Kind, NEW key PROVE RebuildMoved(kind, key)
  <2>1. CASE kind = "champions"
    BY <1>3, <1>5, <1>6, <1>7, <2>1, RebuildShownIsShow DEF RebuildMoved, Rebuild!Torn
  <2>2. CASE kind # "champions"
    BY <1>1, <1>3, <2>2 DEF RebuildMoved, Rebuild!Torn, Rebuild!Shown
  <2> QED BY <2>1, <2>2
<1> QED BY <1>1, <1>4, <1>7, RebuildRowsStep

LEMMA RebuildWorkDeleteStep == ASSUME RebuildIInv, NEW m \in RebuildMatch, Rebuild!WorkDelete(m) PROVE RebuildIInv'
<1> DEFINE w == [rebuildWork[m] EXCEPT !.step = "create"]
           gone == Rebuild!OfPairs(DOMAIN rebuildRows["matchups"], rebuildWork[m].pairs)
<1>1. /\ UNCHANGED <<rebuildContent, rebuildJob, rebuildQuiet, rebuildBefore>> /\ rebuildWork' = [rebuildWork EXCEPT ![m] = w]
      /\ rebuildRows' = [rebuildRows EXCEPT !["matchups"] = Rebuild!Drop(@, gone)] /\ rebuildTorn' = rebuildTorn \cup gone
      /\ rebuildWork[m].step = "delete"
  BY DEF Rebuild!WorkDelete, Rebuild!OnlyWork, RebuildIInv, RebuildTypes
<1>2. DOMAIN w = RebuildWorkFields /\ w.old = rebuildWork[m].old /\ RebuildFigures(w)
  BY <1>1 DEF RebuildIInv, RebuildTypes, RebuildWorkFields, RebuildWorkFollows, RebuildFigures
<1>3. /\ DOMAIN rebuildRows' = Rebuild!Kind /\ rebuildRows'["matchups"] = Rebuild!Drop(rebuildRows["matchups"], gone)
      /\ \A kind \in Rebuild!Kind : kind # "matchups" => rebuildRows'[kind] = rebuildRows[kind]
  BY <1>1 DEF RebuildIInv, RebuildTypes, Rebuild!Kind
<1> HIDE DEF w, gone
<1>4. RebuildTypes' /\ RebuildWorkFollows'
  BY <1>1, <1>2, <1>3, RebuildWorkTurns
<1>5. \A key : RebuildShow(Rebuild!Drop(rebuildRows["matchups"], gone), key) = IF key \in gone THEN {} ELSE RebuildShow(rebuildRows["matchups"], key)
  BY RebuildDropFacts
<1>6. ASSUME NEW kind \in Rebuild!Kind, NEW key PROVE RebuildMoved(kind, key)
  <2>1. CASE kind = "matchups" /\ key \in gone
    BY <1>1, <1>3, <1>5, <2>1, RebuildShownIsShow DEF RebuildMoved, Rebuild!Torn
  <2>2. CASE kind = "matchups" /\ key \notin gone
    BY <1>1, <1>3, <1>5, <2>2, RebuildShownIsShow DEF RebuildMoved, Rebuild!Torn
  <2>3. CASE kind # "matchups"
    BY <1>1, <1>3, <2>3 DEF RebuildMoved, Rebuild!Torn, Rebuild!Shown
  <2> QED BY <2>1, <2>2, <2>3
<1> QED BY <1>1, <1>4, <1>6, RebuildRowsStep

LEMMA RebuildWorkCreateStep == ASSUME RebuildIInv, NEW m \in RebuildMatch, Rebuild!WorkCreate(m) PROVE RebuildIInv'
<1> DEFINE made == rebuildWork[m].made
<1>1. /\ UNCHANGED <<rebuildContent, rebuildJob, rebuildQuiet, rebuildBefore>> /\ rebuildWork' = [rebuildWork EXCEPT ![m] = Rebuild!NoWork]
      /\ rebuildRows' = [rebuildRows EXCEPT !["matchups"] = Rebuild!Put(@, made)] /\ rebuildTorn' = rebuildTorn \ DOMAIN made
  BY DEF Rebuild!WorkCreate, Rebuild!OnlyWork
<1>2. DOMAIN Rebuild!NoWork = RebuildWorkFields /\ ~Rebuild!NoWork.old /\ RebuildFigures(Rebuild!NoWork)
  BY DEF Rebuild!NoWork, RebuildWorkFields, RebuildFigures
<1>3. /\ DOMAIN rebuildRows' = Rebuild!Kind /\ rebuildRows'["matchups"] = Rebuild!Put(rebuildRows["matchups"], made)
      /\ \A kind \in Rebuild!Kind : kind # "matchups" => rebuildRows'[kind] = rebuildRows[kind]
  BY <1>1 DEF RebuildIInv, RebuildTypes, Rebuild!Kind
<1>4. RebuildTypes' /\ RebuildWorkFollows'
  BY <1>1, <1>2, <1>3, RebuildWorkTurns
<1>5. ASSUME rebuildQuiet PROVE \A key \in DOMAIN made : made[key] = Rebuild!Truth("matchups", key)
  BY <1>5 DEF RebuildIInv, RebuildWorkFollows, RebuildFigures, Rebuild!WorkCreate
<1>6. ASSUME NEW key
      PROVE  RebuildShow(Rebuild!Put(rebuildRows["matchups"], made), key)
               = IF key \in DOMAIN made THEN made[key] ELSE RebuildShow(rebuildRows["matchups"], key)
  BY RebuildShowFacts, Zenon
<1>7. ASSUME rebuildQuiet, NEW kind \in Rebuild!Kind, NEW key PROVE RebuildMoved(kind, key)
  <2>1. CASE kind = "matchups" /\ key \in DOMAIN made
    BY <1>3, <1>5, <1>6, <1>7, <2>1, RebuildShownIsShow DEF RebuildMoved
  <2>2. CASE kind = "matchups" /\ key \notin DOMAIN made
    BY <1>1, <1>3, <1>6, <2>2, RebuildShownIsShow DEF RebuildMoved, Rebuild!Torn
  <2>3. CASE kind # "matchups"
    BY <1>1, <1>3, <2>3 DEF RebuildMoved, Rebuild!Torn, Rebuild!Shown
  <2> QED BY <2>1, <2>2, <2>3
<1> QED BY <1>1, <1>4, <1>7, RebuildRowsStep

\* A command that begins finds the rows as they were before it.
LEMMA RebuildBeginStep ==
  ASSUME RebuildIInv, NEW j, Rebuild!Begin(j), DOMAIN j = RebuildFields, j.kind \in Rebuild!Kind, j.step \in {"list", "refused"},
         j.page \subseteq Rebuild!Completed
  PROVE  RebuildIInv'
<1> DEFINE k == IF j.step = "refused" THEN [Rebuild!Idle EXCEPT !.step = "refused", !.kind = j.kind] ELSE j
<1>1. rebuildJob' = k /\ rebuildBefore' = rebuildRows /\ UNCHANGED <<rebuildContent, rebuildRows, rebuildWork>>
      /\ rebuildQuiet' = (\A m \in RebuildMatch : ~rebuildWork[m].old)
  BY DEF Rebuild!Begin
<1>2. DOMAIN k = RebuildFields /\ k.kind \in Rebuild!Kind /\ k.step \in {"list", "refused"} /\ k.page \subseteq Rebuild!Completed
  BY DEF Rebuild!Idle, RebuildFields
<1> HIDE DEF k
<1>3. RebuildTypes'
  BY <1>1, <1>2 DEF RebuildIInv, RebuildTypes
<1>9. RebuildWorkFollows'
  <2>1. ASSUME NEW m \in RebuildMatch PROVE RebuildFigures(rebuildWork[m])' /\ (rebuildQuiet' => ~(rebuildWork'[m].old))
    <3>1. PICK v : v = rebuildWork'[m]
      OBVIOUS
    <3>2. RebuildFigures(v)
      BY <1>1, <3>1 DEF RebuildIInv, RebuildWorkFollows
    <3> QED BY <1>1, <3>1, <3>2, RebuildFiguresStay
  <2> QED BY <2>1 DEF RebuildWorkFollows
<1>4. \A kind, key : RebuildSame(kind, key)'
  BY <1>1 DEF RebuildSame, Rebuild!Shown, Rebuild!Old
<1>5. Rebuild!Completed' = Rebuild!Completed
  BY <1>1, RebuildStaysTrue
<1>6. RebuildJobFits'
  BY <1>1, <1>2 DEF RebuildJobFits, RebuildStepOf
<1>7. RebuildOthersAreSame' /\ RebuildBatchesFollow'
  BY <1>1, <1>2, <1>4 DEF RebuildOthersAreSame, RebuildBatchesFollow
<1>8. RebuildPagesFollow'
  BY <1>1, <1>2, <1>4, <1>5 DEF RebuildPagesFollow
<1> QED BY <1>3, <1>6, <1>7, <1>8, <1>9 DEF RebuildIInv, RebuildFollows

LEMMA RebuildCommandStep == ASSUME RebuildIInv, Rebuild!Command PROVE RebuildIInv'
<1>1. ASSUME NEW champion, NEW dry, NEW confirmed, NEW rollup, Rebuild!StartChampions(champion, dry, confirmed, rollup) PROVE RebuildIInv'
  <2> DEFINE j == [Rebuild!Idle EXCEPT !.kind = "champions", !.champion = champion, !.dry = dry,
                     !.step = IF ~dry /\ (rollup \/ ~confirmed) THEN "refused" ELSE "list"]
  <2>1. DOMAIN j = RebuildFields /\ j.kind \in Rebuild!Kind /\ j.step \in {"list", "refused"} /\ j.page \subseteq Rebuild!Completed
    BY DEF Rebuild!Idle, RebuildFields, Rebuild!Kind
  <2>2. Rebuild!Begin(j)
    BY <1>1 DEF Rebuild!StartChampions
  <2> HIDE DEF j
  <2> QED BY <2>1, <2>2, RebuildBeginStep
<1>2. ASSUME NEW champion, NEW category, NEW dry, NEW confirmed, NEW offset,
             Rebuild!StartBuilds(champion, category, dry, confirmed, offset)
      PROVE  RebuildIInv'
  <2> DEFINE j == [Rebuild!Idle EXCEPT !.kind = "builds", !.champion = champion, !.category = category, !.dry = dry,
                     !.page = Rebuild!Page(offset), !.step = IF ~dry /\ ~confirmed THEN "refused" ELSE "list"]
  <2>1. Rebuild!Page(offset) \subseteq Rebuild!Completed
    BY DEF Rebuild!Page
  <2>2. DOMAIN j = RebuildFields /\ j.kind \in Rebuild!Kind /\ j.step \in {"list", "refused"} /\ j.page \subseteq Rebuild!Completed
    BY <2>1 DEF Rebuild!Idle, RebuildFields, Rebuild!Kind
  <2>3. Rebuild!Begin(j)
    BY <1>2 DEF Rebuild!StartBuilds
  <2> HIDE DEF j
  <2> QED BY <2>2, <2>3, RebuildBeginStep
<1>3. ASSUME NEW champion, NEW dry, NEW confirmed, NEW offset, Rebuild!StartMatchups(champion, dry, confirmed, offset)
      PROVE  RebuildIInv'
  <2> DEFINE j == [Rebuild!Idle EXCEPT !.kind = "matchups", !.champion = champion, !.dry = dry,
                     !.page = Rebuild!Page(offset), !.step = IF ~dry /\ ~confirmed THEN "refused" ELSE "list"]
  <2>1. Rebuild!Page(offset) \subseteq Rebuild!Completed
    BY DEF Rebuild!Page
  <2>2. DOMAIN j = RebuildFields /\ j.kind \in Rebuild!Kind /\ j.step \in {"list", "refused"} /\ j.page \subseteq Rebuild!Completed
    BY <2>1 DEF Rebuild!Idle, RebuildFields, Rebuild!Kind
  <2>3. Rebuild!Begin(j)
    BY <1>3 DEF Rebuild!StartMatchups
  <2> HIDE DEF j
  <2> QED BY <2>2, <2>3, RebuildBeginStep
<1> QED BY <1>1, <1>2, <1>3 DEF Rebuild!Command

\* What the steps of a command have in common: the matches, the rows when it
\* began and its filters stay.
LEMMA RebuildWorkFacts ==
  ASSUME RebuildIInv, rebuildQuiet, rebuildJob.step # "idle", UNCHANGED <<rebuildContent, rebuildBefore, rebuildWork, rebuildQuiet>>, DOMAIN rebuildJob' = RebuildFields, DOMAIN rebuildRows' = Rebuild!Kind,
         rebuildJob'.kind = rebuildJob.kind, rebuildJob'.champion = rebuildJob.champion, rebuildJob'.category = rebuildJob.category, rebuildJob'.page = rebuildJob.page
  PROVE  /\ RebuildFollows /\ RebuildTypes' /\ RebuildWorkFollows' /\ Rebuild!Completed' = Rebuild!Completed
         /\ \A kind, key : Rebuild!Truth(kind, key)' = Rebuild!Truth(kind, key) /\ Rebuild!Old(kind, key)' = Rebuild!Old(kind, key)
         /\ \A key : Rebuild!InFilter(rebuildJob', key) <=> Rebuild!InFilter(rebuildJob, key)
         /\ \A key : Rebuild!Expected(key)' = Rebuild!Expected(key)
<1>1. RebuildFollows
  BY DEF RebuildIInv
<1>2. RebuildTypes'
  BY <1>1 DEF RebuildIInv, RebuildTypes, RebuildFollows, RebuildJobFits
<1>3. \A kind, key : Rebuild!Truth(kind, key)' = Rebuild!Truth(kind, key) /\ Rebuild!Old(kind, key)' = Rebuild!Old(kind, key)
  BY RebuildStaysTrue
<1>4. Rebuild!Completed' = Rebuild!Completed
  BY RebuildStaysTrue
<1>5. \A key : Rebuild!InFilter(rebuildJob', key) <=> Rebuild!InFilter(rebuildJob, key)
  BY RebuildFilterStays
<1>6. \A key : Rebuild!Expected(key)' = Rebuild!Expected(key)
  BY <1>3, <1>4 DEF Rebuild!Expected
<1>8. RebuildWorkFollows'
  BY RebuildRunsStay DEF RebuildIInv
<1> QED BY <1>1, <1>2, <1>3, <1>4, <1>5, <1>6, <1>8

\* What it left alone stays as it was.
LEMMA RebuildOthersStay ==
  ASSUME RebuildIInv, rebuildQuiet, rebuildJob.step # "idle", UNCHANGED <<rebuildContent, rebuildBefore, rebuildWork, rebuildQuiet>>, DOMAIN rebuildJob' = RebuildFields, DOMAIN rebuildRows' = Rebuild!Kind,
         rebuildJob'.kind = rebuildJob.kind, rebuildJob'.champion = rebuildJob.champion, rebuildJob'.category = rebuildJob.category, rebuildJob'.page = rebuildJob.page,
         RebuildRowsMove
  PROVE  RebuildOthersAreSame'
<1>1. /\ RebuildOthersAreSame
      /\ \A kind, key : Rebuild!Truth(kind, key)' = Rebuild!Truth(kind, key) /\ Rebuild!Old(kind, key)' = Rebuild!Old(kind, key)
      /\ \A key : Rebuild!InFilter(rebuildJob', key) <=> Rebuild!InFilter(rebuildJob, key)
  BY RebuildWorkFacts DEF RebuildFollows
<1>2. ASSUME NEW kind \in Rebuild!Kind, NEW key, ~(kind = rebuildJob'.kind /\ kind \in RebuildPaged /\ Rebuild!InFilter(rebuildJob', key))
      PROVE  RebuildSame(kind, key)'
  <2>1. ~(kind = rebuildJob.kind /\ kind \in RebuildPaged /\ Rebuild!InFilter(rebuildJob, key))
    BY <1>1, <1>2
  <2>2. RebuildSame(kind, key) /\ RebuildMoved(kind, key)
    BY <1>1, <2>1 DEF RebuildOthersAreSame, RebuildRowsMove
  <2> QED BY <1>1, <2>2 DEF RebuildSame, RebuildMoved
<1> QED BY <1>2 DEF RebuildOthersAreSame

LEMMA RebuildChanged ==
  ASSUME RebuildIInv, rebuildQuiet, rebuildJob.step # "idle", UNCHANGED <<rebuildContent, rebuildBefore, rebuildWork, rebuildQuiet>>, DOMAIN rebuildJob' = RebuildFields, DOMAIN rebuildRows' = Rebuild!Kind,
         rebuildJob'.kind = rebuildJob.kind, rebuildJob'.champion = rebuildJob.champion, rebuildJob'.category = rebuildJob.category, rebuildJob'.page = rebuildJob.page,
         RebuildJobFits', RebuildPagesFollow', RebuildBatchesFollow',
         RebuildRowsMove
  PROVE  RebuildIInv'
BY RebuildWorkFacts, RebuildOthersStay DEF RebuildIInv, RebuildFollows

\* The rebuild of champions.
LEMMA RebuildListingSteps == ASSUME RebuildIInv, rebuildQuiet, Rebuild!ListContributors \/ Rebuild!ListExisting PROVE RebuildIInv'
<1>1. UNCHANGED <<rebuildContent, rebuildRows, rebuildBefore, rebuildWork, rebuildQuiet, rebuildTorn>> /\ rebuildJob.step \in {"list", "existing"}
  BY DEF Rebuild!ListContributors, Rebuild!ListExisting, Rebuild!OnlyJob, Rebuild!NoChange
<1>2. RebuildFollows /\ RebuildTypes
  BY <1>1 DEF RebuildIInv
<1>3. rebuildJob.kind = "champions"
  BY <1>1, <1>2 DEF Rebuild!ListContributors, Rebuild!ListExisting, RebuildFollows, RebuildJobFits, RebuildStepOf
<1>4. /\ DOMAIN rebuildJob' = RebuildFields /\ rebuildJob'.kind = rebuildJob.kind /\ rebuildJob'.champion = rebuildJob.champion
      /\ rebuildJob'.category = rebuildJob.category /\ rebuildJob'.page = rebuildJob.page /\ rebuildJob'.dry = rebuildJob.dry
      /\ DOMAIN rebuildRows' = Rebuild!Kind
  BY <1>1, <1>2 DEF Rebuild!ListContributors, Rebuild!ListExisting, RebuildTypes, RebuildFields
<1>5. /\ \A kind, key : Rebuild!Truth(kind, key)' = Rebuild!Truth(kind, key)
      /\ \A key : Rebuild!InFilter(rebuildJob', key) <=> Rebuild!InFilter(rebuildJob, key)
  BY <1>1, <1>4, RebuildWorkFacts
<1>6. /\ RebuildRowsMove /\ rebuildJob.step # "idle"
      /\ \A kind, key : Rebuild!Shown(kind, key)' = Rebuild!Shown(kind, key) /\ Rebuild!Torn(kind, key)' = Rebuild!Torn(kind, key)
  BY <1>1, RebuildUnmoved DEF RebuildRowsMove
<1>7. CASE Rebuild!ListContributors
  <2>1. rebuildJob.step = "list" /\ rebuildJob'.step = "existing"
        /\ rebuildJob'.todo = {key \in UNION {Rebuild!ChampionKeys(rebuildContent[m]) : m \in Rebuild!Completed} : Rebuild!InFilter(rebuildJob, key)}
    BY <1>2, <1>7 DEF Rebuild!ListContributors, RebuildTypes, RebuildFields
  <2>2. ASSUME NEW key, Rebuild!InFilter(rebuildJob, key) PROVE key \in rebuildJob'.todo \/ Rebuild!Truth("champions", key) = {}
    <3>1. ASSUME NEW m \in Rebuild!Truth("champions", key) PROVE key \in rebuildJob'.todo
      BY <2>1, <2>2, <3>1 DEF Rebuild!Truth, Rebuild!Keys
    <3> QED BY <3>1
  <2>3. RebuildBatchesFollow'
    BY <1>5, <2>1, <2>2 DEF RebuildBatchesFollow
  <2>4. RebuildJobFits' /\ RebuildPagesFollow'
    BY <1>2, <1>3, <1>4, <2>1 DEF RebuildFollows, RebuildJobFits, RebuildPagesFollow, RebuildStepOf, RebuildPaged
  <2> QED BY <1>1, <1>4, <1>6, <2>3, <2>4, RebuildChanged
<1>8. CASE Rebuild!ListExisting
  <2>1. /\ rebuildJob.step = "existing" /\ rebuildJob'.step = (IF rebuildJob.dry THEN "done" ELSE "fold")
        /\ rebuildJob'.todo = rebuildJob.todo \cup Rebuild!StaleKeys
    BY <1>2, <1>8 DEF Rebuild!ListExisting, RebuildTypes, RebuildFields
  <2>2. ASSUME NEW key, Rebuild!InFilter(rebuildJob, key) PROVE key \in rebuildJob'.todo \/ Rebuild!Shown("champions", key) = Rebuild!Truth("champions", key)
    <3>1. key \in rebuildJob.todo \/ Rebuild!Truth("champions", key) = {}
      BY <1>2, <1>3, <2>1, <2>2 DEF RebuildFollows, RebuildBatchesFollow
    <3>2. key \in Rebuild!StaleKeys \/ Rebuild!Shown("champions", key) = {}
      BY <2>2 DEF Rebuild!StaleKeys, Rebuild!Shown
    <3> QED BY <2>1, <3>1, <3>2
  <2>3. RebuildBatchesFollow'
    BY <1>4, <1>5, <1>6, <2>1, <2>2 DEF RebuildBatchesFollow
  <2>4. RebuildJobFits' /\ RebuildPagesFollow'
    BY <1>2, <1>3, <1>4, <2>1 DEF RebuildFollows, RebuildJobFits, RebuildPagesFollow, RebuildStepOf, RebuildPaged
  <2> QED BY <1>1, <1>4, <1>6, <2>3, <2>4, RebuildChanged
<1> QED BY <1>7, <1>8

LEMMA RebuildFoldStep == ASSUME RebuildIInv, rebuildQuiet, Rebuild!Fold PROVE RebuildIInv'
<1>1. /\ UNCHANGED <<rebuildContent, rebuildRows, rebuildBefore, rebuildWork, rebuildQuiet, rebuildTorn>> /\ rebuildJob.step = "fold"
  BY DEF Rebuild!Fold, Rebuild!OnlyJob, Rebuild!NoChange
<1>2. PICK batch \in SUBSET rebuildJob.todo :
        rebuildJob' = [rebuildJob EXCEPT !.step = "write", !.todo = @ \ batch, !.made = Rebuild!FoldKeys(batch)]
  BY DEF Rebuild!Fold
<1>3. RebuildFollows /\ RebuildTypes
  BY <1>1 DEF RebuildIInv
<1>4. rebuildJob.kind = "champions" /\ ~rebuildJob.dry
  BY <1>1, <1>3 DEF RebuildFollows, RebuildJobFits, RebuildStepOf
<1>5. /\ DOMAIN rebuildJob' = RebuildFields /\ rebuildJob'.kind = rebuildJob.kind /\ rebuildJob'.champion = rebuildJob.champion
      /\ rebuildJob'.category = rebuildJob.category /\ rebuildJob'.page = rebuildJob.page /\ rebuildJob'.dry = rebuildJob.dry
      /\ rebuildJob'.step = "write" /\ rebuildJob'.todo = rebuildJob.todo \ batch /\ rebuildJob'.made = Rebuild!FoldKeys(batch)
      /\ DOMAIN rebuildRows' = Rebuild!Kind
  BY <1>1, <1>2, <1>3 DEF RebuildTypes, RebuildFields
<1>6. /\ \A kind, key : Rebuild!Truth(kind, key)' = Rebuild!Truth(kind, key)
      /\ \A key : Rebuild!InFilter(rebuildJob', key) <=> Rebuild!InFilter(rebuildJob, key)
  BY <1>1, <1>5, RebuildWorkFacts
<1>7. /\ RebuildRowsMove /\ rebuildJob.step # "idle"
      /\ \A kind, key : Rebuild!Shown(kind, key)' = Rebuild!Shown(kind, key) /\ Rebuild!Torn(kind, key)' = Rebuild!Torn(kind, key)
  BY <1>1, RebuildUnmoved DEF RebuildRowsMove
<1>8. DOMAIN rebuildJob'.made = batch /\ \A key \in batch : rebuildJob'.made[key] = Rebuild!Truth("champions", key)
  BY <1>5 DEF Rebuild!FoldKeys
<1>9. ASSUME NEW key, Rebuild!InFilter(rebuildJob, key)
      PROVE  key \in rebuildJob'.todo \/ key \in batch \/ Rebuild!Shown("champions", key) = Rebuild!Truth("champions", key)
  BY <1>1, <1>3, <1>4, <1>5, <1>9 DEF RebuildFollows, RebuildBatchesFollow
<1>10. RebuildBatchesFollow'
  <2>1. \A key \in DOMAIN rebuildJob'.made : rebuildJob'.made[key] = Rebuild!Truth("champions", key)'
    BY <1>6, <1>8
  <2>2. ASSUME NEW key, Rebuild!InFilter(rebuildJob', key)
        PROVE  \/ key \in rebuildJob'.todo \/ Rebuild!Shown("champions", key)' = Rebuild!Truth("champions", key)'
               \/ key \in DOMAIN rebuildJob'.made
    BY <1>6, <1>7, <1>8, <1>9, <2>2
  <2> QED BY <1>5, <2>1, <2>2 DEF RebuildBatchesFollow
<1>11. RebuildJobFits' /\ RebuildPagesFollow'
  BY <1>3, <1>4, <1>5 DEF RebuildFollows, RebuildJobFits, RebuildPagesFollow, RebuildStepOf, RebuildPaged
<1> QED BY <1>1, <1>5, <1>7, <1>10, <1>11, RebuildChanged

LEMMA RebuildWriteStep == ASSUME RebuildIInv, rebuildQuiet, Rebuild!Write PROVE RebuildIInv'
<1>1. UNCHANGED <<rebuildContent, rebuildBefore, rebuildWork, rebuildQuiet>> /\ rebuildJob.step = "write"
  BY DEF Rebuild!Write, Rebuild!NoChange
<1>2. RebuildFollows /\ RebuildTypes
  BY <1>1 DEF RebuildIInv
<1>3. rebuildJob.kind = "champions" /\ ~rebuildJob.dry
  BY <1>1, <1>2 DEF RebuildFollows, RebuildJobFits, RebuildStepOf
<1>4. /\ DOMAIN rebuildJob' = RebuildFields /\ rebuildJob'.kind = rebuildJob.kind /\ rebuildJob'.champion = rebuildJob.champion
      /\ rebuildJob'.category = rebuildJob.category /\ rebuildJob'.page = rebuildJob.page /\ rebuildJob'.dry = rebuildJob.dry
      /\ rebuildJob'.step \in {"fold", "failed"} /\ rebuildJob'.todo = rebuildJob.todo
      /\ DOMAIN rebuildRows' = Rebuild!Kind
  BY <1>2 DEF Rebuild!Write, RebuildTypes, RebuildFields
<1>5. /\ \A kind, key : Rebuild!Truth(kind, key)' = Rebuild!Truth(kind, key)
      /\ \A key : Rebuild!InFilter(rebuildJob', key) <=> Rebuild!InFilter(rebuildJob, key)
  BY <1>1, <1>4, RebuildWorkFacts
<1>6. RebuildJobFits' /\ RebuildPagesFollow'
  BY <1>2, <1>3, <1>4 DEF RebuildFollows, RebuildJobFits, RebuildPagesFollow, RebuildStepOf, RebuildPaged
<1>7. CASE rebuildRows' = [rebuildRows EXCEPT !["champions"] = Rebuild!Written(@, rebuildJob.made)] /\ rebuildJob'.step = "fold"
  <2>1. \A key : RebuildShow(Rebuild!Written(rebuildRows["champions"], rebuildJob.made), key)
                   = IF key \in DOMAIN rebuildJob.made THEN rebuildJob.made[key] ELSE RebuildShow(rebuildRows["champions"], key)
    <3> TAKE key
    <3>1. RebuildShow(Rebuild!Put(rebuildRows["champions"], rebuildJob.made), key)
            = IF key \in DOMAIN rebuildJob.made THEN rebuildJob.made[key] ELSE RebuildShow(rebuildRows["champions"], key)
      BY RebuildShowFacts, Zenon
    <3>2. RebuildShow(Rebuild!Written(rebuildRows["champions"], rebuildJob.made), key) = RebuildShow(Rebuild!Put(rebuildRows["champions"], rebuildJob.made), key)
      BY RebuildShowFacts, Zenon DEF Rebuild!Written
    <3> QED BY <3>1, <3>2
  <2>2. /\ rebuildRows'["champions"] = Rebuild!Written(rebuildRows["champions"], rebuildJob.made)
        /\ \A kind \in Rebuild!Kind : kind # "champions" => rebuildRows'[kind] = rebuildRows[kind]
    BY <1>2, <1>7 DEF RebuildTypes, Rebuild!Kind
  <2>3. \A key \in DOMAIN rebuildJob.made : rebuildJob.made[key] = Rebuild!Truth("champions", key)
    BY <1>1, <1>2, <1>3 DEF RebuildFollows, RebuildBatchesFollow
  <2>4. \A key : Rebuild!Shown("champions", key)' = IF key \in DOMAIN rebuildJob.made THEN Rebuild!Truth("champions", key)
                                            ELSE Rebuild!Shown("champions", key)
    BY <2>1, <2>2, <2>3, RebuildShownIsShow
  <2>5. \A kind \in Rebuild!Kind : \A key : kind # "champions" => Rebuild!Shown(kind, key)' = Rebuild!Shown(kind, key)
    BY <2>2, RebuildShownIsShow
  <2>6. ASSUME NEW key, Rebuild!InFilter(rebuildJob', key)
        PROVE  key \in rebuildJob'.todo \/ Rebuild!Shown("champions", key)' = Rebuild!Truth("champions", key)'
    <3>1. \/ key \in rebuildJob.todo \/ Rebuild!Shown("champions", key) = Rebuild!Truth("champions", key)
          \/ key \in DOMAIN rebuildJob.made
      BY <1>1, <1>2, <1>3, <1>5, <2>6 DEF RebuildFollows, RebuildBatchesFollow
    <3> QED BY <1>4, <1>5, <2>4, <3>1
  <2>7. RebuildBatchesFollow'
    BY <1>7, <2>6 DEF RebuildBatchesFollow
  <2>8. RebuildRowsMove /\ rebuildJob.step # "idle"
    <3>1. UNCHANGED rebuildTorn
      BY DEF Rebuild!Write
    <3>2. ASSUME NEW kind \in Rebuild!Kind, NEW key PROVE RebuildMoved(kind, key)
      <4>1. Rebuild!Shown(kind, key)' = Rebuild!Truth(kind, key) \/ Rebuild!Shown(kind, key)' = Rebuild!Shown(kind, key)
        BY <2>4, <2>5
      <4> QED BY <3>1, <4>1 DEF RebuildMoved, Rebuild!Torn
    <3> QED BY <1>1, <3>2 DEF RebuildRowsMove
  <2> QED BY <1>1, <1>4, <1>6, <2>7, <2>8, RebuildChanged
<1>8. CASE UNCHANGED rebuildRows /\ rebuildJob'.step = "failed"
  <2>1. RebuildBatchesFollow'
    BY <1>8 DEF RebuildBatchesFollow
  <2>2. UNCHANGED <<rebuildRows, rebuildTorn>>
    BY <1>8 DEF Rebuild!Write
  <2>3. RebuildRowsMove /\ rebuildJob.step # "idle"
    BY <1>1, <2>2, RebuildUnmoved DEF RebuildRowsMove
  <2> QED BY <1>1, <1>4, <1>6, <2>1, <2>3, RebuildChanged
<1>9. \/ rebuildRows' = [rebuildRows EXCEPT !["champions"] = Rebuild!Written(@, rebuildJob.made)] /\ rebuildJob'.step = "fold"
      \/ UNCHANGED rebuildRows /\ rebuildJob'.step = "failed"
  BY <1>2 DEF Rebuild!Write, RebuildTypes, RebuildFields
<1> QED BY <1>7, <1>8, <1>9

LEMMA RebuildClosingSteps == ASSUME RebuildIInv, rebuildQuiet, Rebuild!BatchesDone \/ Rebuild!Mark \/ Rebuild!ClearScopes PROVE RebuildIInv'
<1>1. UNCHANGED <<rebuildContent, rebuildRows, rebuildBefore, rebuildWork, rebuildQuiet, rebuildTorn>> /\ rebuildJob.step \in {"fold", "markers", "scopes"}
  BY DEF Rebuild!BatchesDone, Rebuild!Mark, Rebuild!ClearScopes, Rebuild!OnlyJob, Rebuild!NoChange
<1>2. RebuildFollows /\ RebuildTypes
  BY <1>1 DEF RebuildIInv
<1>3. rebuildJob.kind = "champions" /\ ~rebuildJob.dry
  BY <1>1, <1>2 DEF RebuildFollows, RebuildJobFits, RebuildStepOf
<1>4. /\ DOMAIN rebuildJob' = RebuildFields /\ rebuildJob'.kind = rebuildJob.kind /\ rebuildJob'.champion = rebuildJob.champion
      /\ rebuildJob'.category = rebuildJob.category /\ rebuildJob'.page = rebuildJob.page /\ rebuildJob'.dry = rebuildJob.dry
      /\ rebuildJob'.step \in {"markers", "scopes", "done", "failed"}
      /\ DOMAIN rebuildRows' = Rebuild!Kind
  BY <1>1, <1>2 DEF Rebuild!BatchesDone, Rebuild!Mark, Rebuild!ClearScopes, RebuildTypes, RebuildFields
<1>5. /\ \A kind, key : Rebuild!Truth(kind, key)' = Rebuild!Truth(kind, key)
      /\ \A key : Rebuild!InFilter(rebuildJob', key) <=> Rebuild!InFilter(rebuildJob, key)
  BY <1>1, <1>4, RebuildWorkFacts
<1>6. /\ RebuildRowsMove /\ rebuildJob.step # "idle"
      /\ \A kind, key : Rebuild!Shown(kind, key)' = Rebuild!Shown(kind, key) /\ Rebuild!Torn(kind, key)' = Rebuild!Torn(kind, key)
  BY <1>1, RebuildUnmoved DEF RebuildRowsMove
<1>7. RebuildJobFits' /\ RebuildPagesFollow'
  BY <1>2, <1>3, <1>4 DEF RebuildFollows, RebuildJobFits, RebuildPagesFollow, RebuildStepOf, RebuildPaged
<1>8. ASSUME NEW key, Rebuild!InFilter(rebuildJob, key) PROVE Rebuild!Shown("champions", key) = Rebuild!Truth("champions", key)
  <2>1. rebuildJob.step = "fold" => rebuildJob.todo = {}
    BY DEF Rebuild!BatchesDone, Rebuild!Mark, Rebuild!ClearScopes
  <2> QED BY <1>1, <1>2, <1>3, <1>8, <2>1 DEF RebuildFollows, RebuildBatchesFollow
<1>9. RebuildBatchesFollow'
  BY <1>4, <1>5, <1>6, <1>8 DEF RebuildBatchesFollow
<1> QED BY <1>1, <1>4, <1>6, <1>7, <1>9, RebuildChanged

\* The rebuilds of builds and matchups.
LEMMA RebuildScanSteps == ASSUME RebuildIInv, rebuildQuiet, Rebuild!ScanBuilds \/ Rebuild!ScanMatchups PROVE RebuildIInv'
<1>1. UNCHANGED <<rebuildContent, rebuildRows, rebuildBefore, rebuildWork, rebuildQuiet, rebuildTorn>> /\ rebuildJob.step = "list" /\ rebuildJob.kind \in RebuildPaged
  BY DEF Rebuild!ScanBuilds, Rebuild!ScanMatchups, Rebuild!OnlyJob, Rebuild!NoChange, RebuildPaged
<1>2. RebuildFollows /\ RebuildTypes
  BY <1>1 DEF RebuildIInv
<1>3. /\ DOMAIN rebuildJob' = RebuildFields /\ rebuildJob'.kind = rebuildJob.kind /\ rebuildJob'.champion = rebuildJob.champion
      /\ rebuildJob'.category = rebuildJob.category /\ rebuildJob'.page = rebuildJob.page /\ rebuildJob'.dry = rebuildJob.dry
      /\ rebuildJob'.step = (IF rebuildJob.dry THEN "done" ELSE "delete") /\ rebuildJob'.made = Rebuild!Accumulate(rebuildJob.kind)
      /\ DOMAIN rebuildRows' = Rebuild!Kind
  BY <1>1, <1>2 DEF Rebuild!ScanBuilds, Rebuild!ScanMatchups, RebuildTypes, RebuildFields
<1>4. /\ \A kind, key : Rebuild!Truth(kind, key)' = Rebuild!Truth(kind, key) /\ Rebuild!Old(kind, key)' = Rebuild!Old(kind, key)
      /\ \A key : Rebuild!InFilter(rebuildJob', key) <=> Rebuild!InFilter(rebuildJob, key)
      /\ \A key : Rebuild!Expected(key)' = Rebuild!Expected(key)
      /\ Rebuild!Completed' = Rebuild!Completed
  BY <1>1, <1>3, RebuildWorkFacts
<1>5. /\ RebuildRowsMove /\ rebuildJob.step # "idle"
      /\ \A kind, key : Rebuild!Shown(kind, key)' = Rebuild!Shown(kind, key) /\ Rebuild!Torn(kind, key)' = Rebuild!Torn(kind, key)
  BY <1>1, RebuildUnmoved DEF RebuildRowsMove
<1>6. \A key \in DOMAIN rebuildJob'.made : Rebuild!InFilter(rebuildJob', key)
  BY <1>3, <1>4 DEF Rebuild!Accumulate
<1>7. ASSUME NEW key, Rebuild!InFilter(rebuildJob, key) PROVE RebuildShow(rebuildJob'.made, key) = Rebuild!Expected(key)
  <2>1. Rebuild!Expected(key) = Rebuild!Truth(rebuildJob.kind, key) \cap rebuildJob.page
    BY <1>1 DEF Rebuild!Expected, RebuildPaged
  <2>2. CASE key \in DOMAIN rebuildJob'.made
    BY <1>3, <2>1, <2>2 DEF RebuildShow, Rebuild!Accumulate
  <2>3. CASE key \notin DOMAIN rebuildJob'.made
    <3>1. ASSUME NEW m \in Rebuild!Truth(rebuildJob.kind, key) \cap rebuildJob.page PROVE FALSE
      <4>1. m \in rebuildJob.page /\ key \in Rebuild!Keys(rebuildJob.kind, rebuildContent[m])
        BY <3>1 DEF Rebuild!Truth
      <4> QED BY <1>3, <1>7, <2>3, <4>1 DEF Rebuild!Accumulate
    <3> QED BY <2>1, <2>3, <3>1 DEF RebuildShow
  <2> QED BY <2>2, <2>3
<1>8. ASSUME NEW kind, kind = rebuildJob.kind, NEW key, Rebuild!InFilter(rebuildJob, key) PROVE RebuildSame(kind, key)'
  <2>1. RebuildSame(kind, key)
    BY <1>1, <1>2, <1>8 DEF RebuildFollows, RebuildPagesFollow
  <2> QED BY <1>4, <1>5, <2>1 DEF RebuildSame
<1>9. RebuildJobFits' /\ RebuildBatchesFollow'
  BY <1>1, <1>2, <1>3 DEF RebuildFollows, RebuildJobFits, RebuildBatchesFollow, RebuildStepOf, RebuildPaged
<1>10. RebuildPagesFollow'
  <2>1. rebuildJob'.page \subseteq Rebuild!Completed'
    BY <1>1, <1>2, <1>3, <1>4 DEF RebuildFollows, RebuildPagesFollow
  <2>2. ASSUME NEW kind, kind = rebuildJob'.kind, NEW key, Rebuild!InFilter(rebuildJob', key)
        PROVE  RebuildSame(kind, key)' /\ RebuildShow(rebuildJob'.made, key) = Rebuild!Expected(key)'
    BY <1>3, <1>4, <1>7, <1>8, <2>2
  <2> QED BY <1>3, <1>6, <2>1, <2>2 DEF RebuildPagesFollow
<1> QED BY <1>1, <1>3, <1>5, <1>9, <1>10, RebuildChanged

LEMMA RebuildDeleteStep == ASSUME RebuildIInv, rebuildQuiet, Rebuild!DeleteScope PROVE RebuildIInv'
<1>1. UNCHANGED <<rebuildContent, rebuildBefore, rebuildWork, rebuildQuiet>> /\ rebuildJob.step = "delete"
  BY DEF Rebuild!DeleteScope, Rebuild!NoChange
<1>2. RebuildFollows /\ RebuildTypes
  BY <1>1 DEF RebuildIInv
<1>3. rebuildJob.kind \in RebuildPaged /\ rebuildJob.kind \in Rebuild!Kind /\ ~rebuildJob.dry
  BY <1>1, <1>2 DEF RebuildFollows, RebuildJobFits, RebuildStepOf, RebuildPaged, Rebuild!Kind
<1>4. /\ DOMAIN rebuildJob' = RebuildFields /\ rebuildJob'.kind = rebuildJob.kind /\ rebuildJob'.champion = rebuildJob.champion
      /\ rebuildJob'.category = rebuildJob.category /\ rebuildJob'.page = rebuildJob.page /\ rebuildJob'.dry = rebuildJob.dry
      /\ rebuildJob'.made = rebuildJob.made /\ rebuildJob'.step \in {"create", "failed"}
      /\ DOMAIN rebuildRows' = Rebuild!Kind
  BY <1>2 DEF Rebuild!DeleteScope, RebuildTypes, RebuildFields
<1>5. /\ \A kind, key : Rebuild!Truth(kind, key)' = Rebuild!Truth(kind, key) /\ Rebuild!Old(kind, key)' = Rebuild!Old(kind, key)
      /\ \A key : Rebuild!InFilter(rebuildJob', key) <=> Rebuild!InFilter(rebuildJob, key)
      /\ \A key : Rebuild!Expected(key)' = Rebuild!Expected(key)
      /\ Rebuild!Completed' = Rebuild!Completed
  BY <1>1, <1>4, RebuildWorkFacts
<1>6. RebuildJobFits' /\ RebuildBatchesFollow'
  BY <1>2, <1>3, <1>4 DEF RebuildFollows, RebuildJobFits, RebuildBatchesFollow, RebuildStepOf, RebuildPaged
<1>7. /\ rebuildJob.page \subseteq Rebuild!Completed /\ \A key \in DOMAIN rebuildJob.made : Rebuild!InFilter(rebuildJob, key)
      /\ \A key : Rebuild!InFilter(rebuildJob, key) => RebuildSame(rebuildJob.kind, key) /\ RebuildShow(rebuildJob.made, key) = Rebuild!Expected(key)
  BY <1>1, <1>2, <1>3 DEF RebuildFollows, RebuildPagesFollow
<1>8. /\ \/ UNCHANGED rebuildRows /\ rebuildJob'.step = "failed"
         \/ /\ rebuildRows' = [rebuildRows EXCEPT ![rebuildJob.kind] = Rebuild!Drop(@, Rebuild!RowsInScope(rebuildJob.kind))]
            /\ rebuildJob'.step = "create"
  BY <1>2 DEF Rebuild!DeleteScope, RebuildTypes, RebuildFields
<1>9. ASSUME NEW kind \in Rebuild!Kind, NEW key
      PROVE  /\ kind = rebuildJob.kind /\ Rebuild!InFilter(rebuildJob, key) /\ rebuildJob'.step = "create" => Rebuild!Shown(kind, key)' = {}
             /\ ~(kind = rebuildJob.kind /\ Rebuild!InFilter(rebuildJob, key)) \/ rebuildJob'.step = "failed" => Rebuild!Shown(kind, key)' = Rebuild!Shown(kind, key)
  <2>1. CASE UNCHANGED rebuildRows /\ rebuildJob'.step = "failed"
    BY <2>1, RebuildShownIsShow
  <2>2. CASE /\ rebuildRows' = [rebuildRows EXCEPT ![rebuildJob.kind] = Rebuild!Drop(@, Rebuild!RowsInScope(rebuildJob.kind))]
             /\ rebuildJob'.step = "create"
    <3>1. rebuildRows'[rebuildJob.kind] = Rebuild!Drop(rebuildRows[rebuildJob.kind], Rebuild!RowsInScope(rebuildJob.kind))
      BY <1>2, <1>3, <2>2 DEF RebuildTypes
    <3>2. RebuildShow(rebuildRows'[rebuildJob.kind], key) = IF key \in Rebuild!RowsInScope(rebuildJob.kind) THEN {} ELSE RebuildShow(rebuildRows[rebuildJob.kind], key)
      <4>1. RebuildShow(Rebuild!Drop(rebuildRows[rebuildJob.kind], Rebuild!RowsInScope(rebuildJob.kind)), key)
              = IF key \in Rebuild!RowsInScope(rebuildJob.kind) THEN {} ELSE RebuildShow(rebuildRows[rebuildJob.kind], key)
        BY RebuildDropFacts
      <4> QED BY <3>1, <4>1
    <3>3. kind # rebuildJob.kind => rebuildRows'[kind] = rebuildRows[kind]
      BY <1>2, <2>2 DEF RebuildTypes
    <3>4. Rebuild!Shown(kind, key)' = RebuildShow(rebuildRows'[kind], key) /\ Rebuild!Shown(kind, key) = RebuildShow(rebuildRows[kind], key)
      BY RebuildShownIsShow
    <3>5. key \in Rebuild!RowsInScope(rebuildJob.kind) => Rebuild!InFilter(rebuildJob, key)
      BY DEF Rebuild!RowsInScope
    <3>6. Rebuild!InFilter(rebuildJob, key) /\ key \notin Rebuild!RowsInScope(rebuildJob.kind) => RebuildShow(rebuildRows[rebuildJob.kind], key) = {}
      BY DEF Rebuild!RowsInScope, RebuildShow
    <3> QED BY <2>2, <3>2, <3>3, <3>4, <3>5, <3>6
  <2> QED BY <1>8, <2>1, <2>2
<1>12. ASSUME NEW kind \in Rebuild!Kind, NEW key, Rebuild!Shown(kind, key)' = Rebuild!Shown(kind, key)
       PROVE  RebuildMoved(kind, key) /\ Rebuild!Torn(kind, key)' = Rebuild!Torn(kind, key)
  <2>1. UNCHANGED rebuildTorn
    BY DEF Rebuild!DeleteScope
  <2> QED BY <1>12, <2>1 DEF RebuildMoved, Rebuild!Torn
<1>10. RebuildPagesFollow'
  <2>1. ASSUME NEW kind, kind = rebuildJob'.kind, NEW key, Rebuild!InFilter(rebuildJob', key)
        PROVE  /\ RebuildShow(rebuildJob'.made, key) = Rebuild!Expected(key)'
               /\ rebuildJob'.step = "create" => Rebuild!Shown(kind, key)' = {}
               /\ rebuildJob'.step = "failed" => RebuildSame(kind, key)'
    <3>1. Rebuild!InFilter(rebuildJob, key) /\ RebuildSame(kind, key) /\ RebuildShow(rebuildJob.made, key) = Rebuild!Expected(key) /\ kind = rebuildJob.kind
      BY <1>4, <1>5, <1>7, <2>1
    <3>2. rebuildJob'.step = "failed" => RebuildSame(kind, key)'
      BY <1>3, <1>5, <1>9, <1>12, <3>1 DEF RebuildSame
    <3> QED BY <1>3, <1>4, <1>5, <1>9, <3>1, <3>2
  <2> QED BY <1>4, <1>5, <1>7, <2>1 DEF RebuildPagesFollow
<1>11. RebuildRowsMove /\ rebuildJob.step # "idle"
  BY <1>1, <1>3, <1>9, <1>12 DEF RebuildRowsMove
<1> QED BY <1>1, <1>4, <1>6, <1>10, <1>11, RebuildChanged

LEMMA RebuildCreateStep == ASSUME RebuildIInv, rebuildQuiet, Rebuild!CreateRows PROVE RebuildIInv'
<1>1. UNCHANGED <<rebuildContent, rebuildBefore, rebuildWork, rebuildQuiet>> /\ rebuildJob.step = "create"
  BY DEF Rebuild!CreateRows, Rebuild!NoChange
<1>2. RebuildFollows /\ RebuildTypes
  BY <1>1 DEF RebuildIInv
<1>3. rebuildJob.kind \in RebuildPaged /\ rebuildJob.kind \in Rebuild!Kind /\ ~rebuildJob.dry
  BY <1>1, <1>2 DEF RebuildFollows, RebuildJobFits, RebuildStepOf, RebuildPaged, Rebuild!Kind
<1>4. /\ DOMAIN rebuildJob' = RebuildFields /\ rebuildJob'.kind = rebuildJob.kind /\ rebuildJob'.champion = rebuildJob.champion
      /\ rebuildJob'.category = rebuildJob.category /\ rebuildJob'.page = rebuildJob.page /\ rebuildJob'.dry = rebuildJob.dry
      /\ rebuildJob'.step \in {"done", "failed"}
      /\ DOMAIN rebuildRows' = Rebuild!Kind
  BY <1>2 DEF Rebuild!CreateRows, RebuildTypes, RebuildFields
<1>5. /\ \A kind, key : Rebuild!Truth(kind, key)' = Rebuild!Truth(kind, key) /\ Rebuild!Old(kind, key)' = Rebuild!Old(kind, key)
      /\ \A key : Rebuild!InFilter(rebuildJob', key) <=> Rebuild!InFilter(rebuildJob, key)
      /\ \A key : Rebuild!Expected(key)' = Rebuild!Expected(key)
      /\ Rebuild!Completed' = Rebuild!Completed
  BY <1>1, <1>4, RebuildWorkFacts
<1>6. RebuildJobFits' /\ RebuildBatchesFollow'
  BY <1>2, <1>3, <1>4 DEF RebuildFollows, RebuildJobFits, RebuildBatchesFollow, RebuildStepOf, RebuildPaged
<1>7. /\ rebuildJob.page \subseteq Rebuild!Completed /\ \A key \in DOMAIN rebuildJob.made : Rebuild!InFilter(rebuildJob, key)
      /\ \A key : Rebuild!InFilter(rebuildJob, key) => /\ RebuildShow(rebuildJob.made, key) = Rebuild!Expected(key)
                                                       /\ Rebuild!Shown(rebuildJob.kind, key) \in {{}, Rebuild!Truth(rebuildJob.kind, key)}
  BY <1>1, <1>2, <1>3 DEF RebuildFollows, RebuildPagesFollow
<1>8. \/ UNCHANGED rebuildRows /\ rebuildJob'.step = "failed"
      \/ rebuildRows' = [rebuildRows EXCEPT ![rebuildJob.kind] = Rebuild!Put(@, rebuildJob.made)] /\ rebuildJob'.step = "done"
  BY <1>2 DEF Rebuild!CreateRows, RebuildTypes, RebuildFields
<1>9. ASSUME NEW kind \in Rebuild!Kind, NEW key
      PROVE  /\ kind = rebuildJob.kind /\ Rebuild!InFilter(rebuildJob, key) /\ rebuildJob'.step = "done" =>
                  Rebuild!Shown(kind, key)' \in {Rebuild!Expected(key), Rebuild!Truth(kind, key)}
             /\ ~(kind = rebuildJob.kind /\ Rebuild!InFilter(rebuildJob, key)) \/ rebuildJob'.step = "failed" => Rebuild!Shown(kind, key)' = Rebuild!Shown(kind, key)
  <2>1. CASE UNCHANGED rebuildRows /\ rebuildJob'.step = "failed"
    BY <2>1, RebuildShownIsShow
  <2>2. CASE rebuildRows' = [rebuildRows EXCEPT ![rebuildJob.kind] = Rebuild!Put(@, rebuildJob.made)] /\ rebuildJob'.step = "done"
    <3>1. rebuildRows'[rebuildJob.kind] = Rebuild!Put(rebuildRows[rebuildJob.kind], rebuildJob.made)
      BY <1>2, <1>3, <2>2 DEF RebuildTypes
    <3>2. RebuildShow(rebuildRows'[rebuildJob.kind], key) = IF key \in DOMAIN rebuildJob.made THEN rebuildJob.made[key] ELSE RebuildShow(rebuildRows[rebuildJob.kind], key)
      <4>1. RebuildShow(Rebuild!Put(rebuildRows[rebuildJob.kind], rebuildJob.made), key)
              = IF key \in DOMAIN rebuildJob.made THEN rebuildJob.made[key] ELSE RebuildShow(rebuildRows[rebuildJob.kind], key)
        BY RebuildShowFacts, Zenon
      <4> QED BY <3>1, <4>1
    <3>3. kind # rebuildJob.kind => rebuildRows'[kind] = rebuildRows[kind]
      BY <1>2, <2>2 DEF RebuildTypes
    <3>4. Rebuild!Shown(kind, key)' = RebuildShow(rebuildRows'[kind], key) /\ Rebuild!Shown(kind, key) = RebuildShow(rebuildRows[kind], key)
      BY RebuildShownIsShow
    <3>5. key \in DOMAIN rebuildJob.made => Rebuild!InFilter(rebuildJob, key)
      BY <1>7
    <3>6. Rebuild!InFilter(rebuildJob, key) => IF key \in DOMAIN rebuildJob.made THEN rebuildJob.made[key] = Rebuild!Expected(key) ELSE Rebuild!Expected(key) = {}
      BY <1>7 DEF RebuildShow
    <3>7. Rebuild!InFilter(rebuildJob, key) /\ kind = rebuildJob.kind => RebuildShow(rebuildRows[kind], key) \in {{}, Rebuild!Truth(kind, key)}
      BY <1>7, <3>4
    <3> QED BY <2>2, <3>2, <3>3, <3>4, <3>5, <3>6, <3>7
  <2> QED BY <1>8, <2>1, <2>2
<1>12. ASSUME NEW kind \in Rebuild!Kind, NEW key, ~(kind = rebuildJob.kind /\ Rebuild!InFilter(rebuildJob, key)) \/ rebuildJob'.step = "failed"
       PROVE  RebuildMoved(kind, key) /\ Rebuild!Torn(kind, key)' = Rebuild!Torn(kind, key)
  <2>1. Rebuild!Shown(kind, key)' = Rebuild!Shown(kind, key)
    BY <1>9, <1>12
  <2>2. \/ UNCHANGED rebuildTorn
        \/ kind # rebuildJob.kind /\ rebuildJob.kind = "matchups" /\ rebuildTorn' = rebuildTorn \ DOMAIN rebuildJob.made
        \/ key \notin DOMAIN rebuildJob.made /\ rebuildTorn' = rebuildTorn \ DOMAIN rebuildJob.made
    BY <1>2, <1>7, <1>8, <1>12 DEF Rebuild!CreateRows, RebuildTypes, RebuildFields
  <2> QED BY <2>1, <2>2 DEF RebuildMoved, Rebuild!Torn
<1>10. RebuildPagesFollow'
  <2>1. ASSUME NEW kind, kind = rebuildJob'.kind, NEW key, Rebuild!InFilter(rebuildJob', key)
        PROVE  /\ rebuildJob'.step = "done" => Rebuild!Shown(kind, key)' \in {Rebuild!Expected(key)', Rebuild!Truth(kind, key)'}
               /\ rebuildJob'.step = "failed" => Rebuild!Shown(kind, key)' = {} \/ RebuildSame(kind, key)'
    <3>1. Rebuild!InFilter(rebuildJob, key) /\ Rebuild!Shown(kind, key) \in {{}, Rebuild!Truth(kind, key)} /\ kind = rebuildJob.kind
      BY <1>4, <1>5, <1>7, <2>1
    <3>2. rebuildJob'.step = "failed" => Rebuild!Shown(kind, key)' = {} \/ RebuildSame(kind, key)'
      BY <1>3, <1>5, <1>9, <3>1 DEF RebuildSame
    <3> QED BY <1>3, <1>4, <1>5, <1>9, <3>1, <3>2
  <2> QED BY <1>3, <1>4, <1>5, <1>7, <2>1 DEF RebuildPagesFollow
<1>11. RebuildRowsMove /\ rebuildJob.step # "idle"
  BY <1>1, <1>3, <1>9, <1>12 DEF RebuildRowsMove
<1> QED BY <1>1, <1>4, <1>6, <1>10, <1>11, RebuildChanged

-----------------------------------------------------------------------------
(* The invariant.                                                          *)

LEMMA RebuildInitIInv == ASSUME Rebuild!Init PROVE RebuildIInv
<1>1. DOMAIN rebuildRows = Rebuild!Kind
  BY DEF Rebuild!Init
<1>2. \A m \in RebuildMatch : rebuildWork[m] = Rebuild!NoWork
  BY DEF Rebuild!Init
<1>3. RebuildFigures(Rebuild!NoWork)
  BY RebuildNoWorkFits DEF RebuildFigures
<1>4. RebuildWorkFollows
  BY <1>2, <1>3, RebuildNoWorkFits DEF RebuildWorkFollows
<1>5. DOMAIN rebuildWork = RebuildMatch /\ \A m \in RebuildMatch : DOMAIN rebuildWork[m] = RebuildWorkFields
  BY <1>2, RebuildNoWorkFits DEF Rebuild!Init
<1> QED BY <1>1, <1>4, <1>5 DEF Rebuild!Init, RebuildIInv, RebuildTypes, Rebuild!Idle, RebuildFields

LEMMA RebuildWorkSteps ==
  ASSUME RebuildIInv, Rebuild!ListContributors \/ Rebuild!ListExisting \/ Rebuild!Fold \/ Rebuild!Write \/ Rebuild!BatchesDone \/ Rebuild!Mark \/ Rebuild!ClearScopes
                 \/ Rebuild!ScanBuilds \/ Rebuild!ScanMatchups \/ Rebuild!DeleteScope \/ Rebuild!CreateRows
  PROVE  RebuildIInv'
<1>1. CASE rebuildQuiet
  BY <1>1, RebuildListingSteps, RebuildFoldStep, RebuildWriteStep, RebuildClosingSteps, RebuildScanSteps, RebuildDeleteStep, RebuildCreateStep
<1>2. CASE ~rebuildQuiet
  <2>1. ~rebuildQuiet'
    BY <1>2 DEF Rebuild!ListContributors, Rebuild!ListExisting, Rebuild!Fold, Rebuild!Write, Rebuild!BatchesDone, Rebuild!Mark, Rebuild!ClearScopes,
                Rebuild!ScanBuilds, Rebuild!ScanMatchups, Rebuild!DeleteScope, Rebuild!CreateRows, Rebuild!OnlyJob, Rebuild!NoChange
  <2>2. RebuildTypes /\ RebuildWorkFollows
    BY DEF RebuildIInv
  <2>3. DOMAIN rebuildJob' = RebuildFields /\ DOMAIN rebuildRows' = Rebuild!Kind /\ rebuildJob'.kind = rebuildJob.kind
    BY <2>2 DEF Rebuild!ListContributors, Rebuild!ListExisting, Rebuild!Fold, Rebuild!Write, Rebuild!BatchesDone, Rebuild!Mark, Rebuild!ClearScopes,
                Rebuild!ScanBuilds, Rebuild!ScanMatchups, Rebuild!DeleteScope, Rebuild!CreateRows, Rebuild!OnlyJob, RebuildTypes, RebuildFields
  <2>4. rebuildJob.step # "idle"
    BY DEF Rebuild!ListContributors, Rebuild!ListExisting, Rebuild!Fold, Rebuild!Write, Rebuild!BatchesDone, Rebuild!Mark, Rebuild!ClearScopes,
           Rebuild!ScanBuilds, Rebuild!ScanMatchups, Rebuild!DeleteScope, Rebuild!CreateRows
  <2>5. UNCHANGED <<rebuildContent, rebuildWork>>
    BY DEF Rebuild!ListContributors, Rebuild!ListExisting, Rebuild!Fold, Rebuild!Write, Rebuild!BatchesDone, Rebuild!Mark, Rebuild!ClearScopes,
           Rebuild!ScanBuilds, Rebuild!ScanMatchups, Rebuild!DeleteScope, Rebuild!CreateRows, Rebuild!OnlyJob, Rebuild!NoChange
  <2>6. RebuildTypes'
    BY <2>2, <2>3, <2>4, <2>5 DEF RebuildTypes
  <2>7. RebuildWorkFollows'
    BY <2>1, <2>2, <2>5, RebuildRunsStay
  <2> QED BY <2>1, <2>6, <2>7 DEF RebuildIInv
<1> QED BY <1>1, <1>2

\* A change makes the figures that runs hold old ones.
LEMMA RebuildChangeStep == ASSUME RebuildIInv, NEW m \in RebuildMatch, NEW c \in RebuildContents, Rebuild!Change(m, c) PROVE RebuildIInv'
<1>1. /\ rebuildWork' = [n \in RebuildMatch |-> [rebuildWork[n] EXCEPT !.old = rebuildWork[n].step \in {"write", "delete", "create"}]]
      /\ ~rebuildQuiet' /\ UNCHANGED <<rebuildRows, rebuildJob>>
  BY DEF Rebuild!Change
<1>2. ASSUME NEW n \in RebuildMatch
      PROVE  /\ DOMAIN rebuildWork'[n] = RebuildWorkFields /\ rebuildWork'[n].step = rebuildWork[n].step
             /\ rebuildWork'[n].old = (rebuildWork[n].step \in {"write", "delete", "create"})
  BY <1>1 DEF RebuildIInv, RebuildTypes, RebuildWorkFields
<1>3. RebuildTypes'
  BY <1>1, <1>2 DEF RebuildIInv, RebuildTypes
<1>4. RebuildWorkFollows'
  BY <1>1, <1>2 DEF RebuildWorkFollows, RebuildFigures
<1> QED BY <1>1, <1>3, <1>4 DEF RebuildIInv

LEMMA RebuildNextIInv == ASSUME RebuildIInv, [Rebuild!Next]_(Rebuild!vars) PROVE RebuildIInv'
<1>1. CASE UNCHANGED Rebuild!vars
  <2>1. UNCHANGED <<rebuildContent, rebuildJob, rebuildQuiet, rebuildBefore, rebuildRows, rebuildTorn, rebuildWork>>
    BY <1>1 DEF Rebuild!vars
  <2>2. RebuildTypes' /\ RebuildWorkFollows'
    BY <2>1, RebuildRunsStay DEF RebuildIInv, RebuildTypes
  <2> QED BY <2>1, <2>2, RebuildUnmoved, RebuildRowsStep
<1>2. ASSUME NEW m \in RebuildMatch, Rebuild!WorkStep(m) PROVE RebuildIInv'
  BY <1>2, RebuildWorkReads, RebuildWorkWriteStep, RebuildWorkDeleteStep, RebuildWorkCreateStep DEF Rebuild!WorkStep
<1> QED BY <1>1, <1>2, RebuildChangeStep, RebuildCommandStep, RebuildWorkSteps DEF Rebuild!Next

LEMMA RebuildIInvSuffices == ASSUME RebuildIInv PROVE Rebuild!RebuiltRowsAreTrue
<1> SUFFICES ASSUME rebuildQuiet, rebuildJob.step # "idle", NEW kind \in Rebuild!Kind, NEW key
             PROVE  \/ Rebuild!Torn(kind, key)
                    \/ IF rebuildJob.step = "done" /\ kind = rebuildJob.kind /\ ~rebuildJob.dry /\ Rebuild!InFilter(rebuildJob, key)
                       THEN Rebuild!Shown(kind, key) \in {Rebuild!Expected(key), Rebuild!Truth(kind, key)}
                       ELSE \/ Rebuild!Shown(kind, key) \in {Rebuild!Old(kind, key), Rebuild!Truth(kind, key)}
                            \/ kind = rebuildJob.kind /\ kind # "champions" /\ Rebuild!InFilter(rebuildJob, key) /\ Rebuild!Shown(kind, key) = {}
  BY DEF Rebuild!RebuiltRowsAreTrue
<1>1. RebuildFollows
  BY DEF RebuildIInv
<1>2. CASE ~(kind = rebuildJob.kind /\ kind \in RebuildPaged /\ Rebuild!InFilter(rebuildJob, key))
  <2>1. RebuildSame(kind, key)
    BY <1>1, <1>2 DEF RebuildFollows, RebuildOthersAreSame
  <2>2. kind = rebuildJob.kind /\ kind \notin RebuildPaged => kind = "champions"
    BY DEF Rebuild!Kind, RebuildPaged
  <2> QED BY <1>1, <1>2, <2>1, <2>2 DEF RebuildSame, RebuildFollows, RebuildBatchesFollow
<1>3. CASE kind = rebuildJob.kind /\ kind \in RebuildPaged /\ Rebuild!InFilter(rebuildJob, key)
  <2>1. rebuildJob.step \in {"list", "done", "failed", "refused", "delete", "create"}
    BY <1>1, <1>3 DEF RebuildFollows, RebuildJobFits, RebuildStepOf, RebuildPaged
  <2>2. /\ rebuildJob.step \in {"list", "delete", "refused"} => RebuildSame(rebuildJob.kind, key)
        /\ rebuildJob.step = "create" => Rebuild!Shown(rebuildJob.kind, key) \in {{}, Rebuild!Truth(rebuildJob.kind, key)}
        /\ rebuildJob.step = "failed" => Rebuild!Shown(rebuildJob.kind, key) = {} \/ RebuildSame(rebuildJob.kind, key)
        /\ rebuildJob.step = "done" => IF rebuildJob.dry THEN RebuildSame(rebuildJob.kind, key)
                                ELSE \/ Rebuild!Shown(rebuildJob.kind, key) \in {Rebuild!Expected(key), Rebuild!Truth(rebuildJob.kind, key)}
                                     \/ Rebuild!Torn(rebuildJob.kind, key)
    BY <1>1, <1>3 DEF RebuildFollows, RebuildPagesFollow
  <2> QED BY <1>3, <2>1, <2>2 DEF RebuildSame, RebuildPaged
<1> QED BY <1>2, <1>3

(* The inductive invariant of the rebuilds: what a command has worked off is
   as the matches say, what it holds is what it will write, and the rest is as
   it was, as the matches say, or a gap that a run of the worker has torn; runs
   whose figures are not from before a change hold what the matches say. *)
THEOREM RebuildInductive == Rebuild!Spec => []RebuildIInv
<1> QED BY RebuildInitIInv, RebuildNextIInv, PTL DEF Rebuild!Spec

(* A rebuild that succeeded while no match changed and no run of the worker went
   on with figures from before leaves the rows its filters and its matches call
   for, and what it did not touch is as it was, as the matches say or gone; the
   worker's runs leave at worst matchup rows they have deleted and not created:
   for any matches, champions, tiers, sizes of a batch and failing writes, with
   the worker's fold, write, scan, delete and create anywhere in between. *)
THEOREM RebuildRowsAreTrue == Rebuild!Spec => []Rebuild!RebuiltRowsAreTrue
<1>1. RebuildIInv => Rebuild!RebuiltRowsAreTrue
  BY RebuildIInvSuffices
<1> QED BY <1>1, RebuildInductive, PTL

HIDE DEF rebuildContent, rebuildRows, rebuildMarker, rebuildScopes,
         rebuildWork, rebuildJob, rebuildQuiet, rebuildTorn, rebuildBefore,
         rebuildRebuilds, rebuildChanges, rebuildRebuildFaults

-----------------------------------------------------------------------------
(***************************************************************************)
(* The synchronisation of the static data.                                 *)
(***************************************************************************)
USE DEF staticPatches, staticRuns, staticStarted, staticAlone

(* The cardinalities of the instance are those of the library.             *)
LEMMA StaticSameCardinality ==
  ASSUME NEW S
  PROVE  Static!Cardinality(S) = Cardinality(S)
BY Zenon DEF Static!Cardinality, Cardinality

-----------------------------------------------------------------------------
(* Files, rosters and their sizes.                                         *)

LEMMA StaticFileFacts ==
  ASSUME Static!ConstantsAssumption, NEW file \in StaticChampionFiles
  PROVE  /\ Len(file) \in Nat /\ DOMAIN file = 1..Len(file)
         /\ \A i \in DOMAIN file : file[i].id \in Static!ChampionIds /\ file[i].key \in Static!AssetKeys
<1> DEFINE Entry == [id : Static!ChampionIds, key : Static!AssetKeys]
<1>1. file \in Seq(Entry)
  BY DEF Static!ConstantsAssumption
<1>2. \A e \in Entry : e.id \in Static!ChampionIds /\ e.key \in Static!AssetKeys
  OBVIOUS
<1> HIDE DEF Entry
<1>3. Len(file) \in Nat /\ DOMAIN file = 1..Len(file) /\ \A i \in DOMAIN file : file[i] \in Entry
  BY <1>1
<1> QED BY <1>2, <1>3

LEMMA StaticRosterFacts ==
  ASSUME Static!ConstantsAssumption, NEW file \in StaticChampionFiles, NEW full
  PROVE  StaticIsRosterOf(Static!Roster(file, full), file)
<1> DEFINE roster == Static!Roster(file, full)
           entry(c) == file[CHOOSE i \in DOMAIN file : file[i].id = c]
<1>1. DOMAIN roster = StaticIds(file) /\ StaticIds(file) \subseteq Static!ChampionIds
  BY StaticFileFacts DEF Static!Roster, StaticIds
<1>2. ASSUME NEW c \in DOMAIN roster
      PROVE  /\ roster[c] \in [key : Static!AssetKeys, abilities : {"short", "full"}]
             /\ \E i \in DOMAIN file : file[i].id = c /\ roster[c].key = file[i].key
  <2>1. PICK i \in DOMAIN file : file[i].id = c /\ entry(c) = file[i]
    BY <1>1 DEF StaticIds
  <2> HIDE DEF entry
  <2>2. roster[c] = IF \E k \in DOMAIN full : full[k].key = entry(c).key
                    THEN [Static!MapChampion(entry(c)) EXCEPT !.abilities = "full"] ELSE Static!MapChampion(entry(c))
    BY <1>1 DEF Static!Roster, StaticIds, entry
  <2>3. file[i].key \in Static!AssetKeys
    BY StaticFileFacts
  <2> QED BY <2>1, <2>2, <2>3 DEF Static!MapChampion
<1>3. roster \in [StaticIds(file) -> [key : Static!AssetKeys, abilities : {"short", "full"}]]
  BY <1>1, <1>2 DEF Static!Roster, StaticIds
<1> HIDE DEF roster
<1>4. roster \in Static!Rosters
  BY <1>1, <1>3 DEF Static!Rosters
<1> QED BY <1>1, <1>2, <1>4 DEF StaticIsRosterOf, roster

\* A file that names nobody twice has as many champions as entries.
LEMMA StaticFileCounts ==
  ASSUME Static!ConstantsAssumption, NEW file \in StaticChampionFiles,
         \A i, j \in DOMAIN file : i < j => file[i].id # file[j].id
  PROVE  IsFiniteSet(StaticIds(file)) /\ Cardinality(StaticIds(file)) = Len(file)
<1> DEFINE n == Len(file)
           f == [i \in 1..n |-> file[i].id]
<1>1. n \in Nat /\ DOMAIN file = 1..n
  BY StaticFileFacts
<1>2. f \in Bijection(1..n, StaticIds(file))
  <2>1. f \in [1..n -> StaticIds(file)] /\ \A c \in StaticIds(file) : \E i \in 1..n : f[i] = c
    BY <1>1 DEF StaticIds
  <2>2. \A i, j \in 1..n : f[i] = f[j] => i = j
    <3> TAKE i, j \in 1..n
    <3>1. i < j \/ j < i \/ i = j
      BY <1>1
    <3> QED BY <1>1, <3>1
  <2> HIDE DEF f
  <2> QED BY <2>1, <2>2 DEF Bijection, Injection, IsInjective, Surjection
<1>3. IsFiniteSet(1..n) /\ Cardinality(1..n) = n
  BY <1>1, FS_Interval
<1>4. ExistsBijection(1..n, StaticIds(file))
  BY <1>2 DEF ExistsBijection
<1> QED BY <1>3, <1>4, FS_Bijection

LEMMA StaticKeysCount ==
  ASSUME NEW stored, IsFiniteSet(DOMAIN stored), StaticApart(stored)
  PROVE  Cardinality({stored[c].key : c \in DOMAIN stored}) = Cardinality(DOMAIN stored)
<1> DEFINE T == {stored[c].key : c \in DOMAIN stored}
           f == [c \in DOMAIN stored |-> stored[c].key]
<1>1. f \in Bijection(DOMAIN stored, T)
  <2>1. f \in [DOMAIN stored -> T] /\ \A k \in T : \E c \in DOMAIN stored : f[c] = k
    OBVIOUS
  <2>2. \A c, d \in DOMAIN stored : f[c] = f[d] => c = d
    BY DEF StaticApart
  <2> HIDE DEF f, T
  <2> QED BY <2>1, <2>2 DEF Bijection, Injection, IsInjective, Surjection
<1>2. ExistsBijection(DOMAIN stored, T)
  BY <1>1 DEF ExistsBijection
<1> HIDE DEF T
<1>3. Cardinality(T) = Cardinality(DOMAIN stored)
  BY <1>2, FS_Bijection
<1> QED BY <1>3 DEF T

\* The classes of the champions of a file add up to it.
LEMMA StaticClassesAddUp ==
  ASSUME NEW stored, NEW file, NEW roster, NEW reordered,
         IsFiniteSet(DOMAIN roster), Cardinality(DOMAIN roster) = Len(file)
  PROVE  LET counts == Static!Classify(stored, file, roster, reordered)
         IN counts.new + counts.changed + counts.unchanged = counts.discovered
<1> DEFINE R == DOMAIN roster
           known == R \cap DOMAIN stored
           changed == {c \in known : Static!Differs(stored[c], roster[c], c \in reordered)}
<1>1. R = known \cup (R \ known) /\ known \cap (R \ known) = {} /\ known \in SUBSET R /\ (R \ known) \in SUBSET R
  OBVIOUS
<1>2. known = changed \cup (known \ changed) /\ changed \cap (known \ changed) = {}
      /\ changed \in SUBSET known /\ (known \ changed) \in SUBSET known
  OBVIOUS
<1>3. /\ Static!Classify(stored, file, roster, reordered).discovered = Len(file)
      /\ Static!Classify(stored, file, roster, reordered).new = Cardinality(R \ known)
      /\ Static!Classify(stored, file, roster, reordered).changed = Cardinality(changed)
      /\ Static!Classify(stored, file, roster, reordered).unchanged = Cardinality(known \ changed)
  BY StaticSameCardinality DEF Static!Classify
<1> HIDE DEF R, known, changed
<1>4. IsFiniteSet(R) /\ Cardinality(R) = Len(file)
  BY DEF R
<1>5. IsFiniteSet(known) /\ IsFiniteSet(R \ known)
  BY <1>1, <1>4, FS_Subset
<1>6. IsFiniteSet(changed) /\ IsFiniteSet(known \ changed)
  BY <1>2, <1>5, FS_Subset
<1>7. Cardinality({}) = 0
  BY FS_EmptySet
<1>8. Cardinality(R) = Cardinality(known) + Cardinality(R \ known) - Cardinality(known \cap (R \ known))
  BY <1>1, <1>5, FS_Union
<1>9. Cardinality(known) = Cardinality(changed) + Cardinality(known \ changed) - Cardinality(changed \cap (known \ changed))
  BY <1>2, <1>6, FS_Union
<1>10. /\ Cardinality(known) \in Nat /\ Cardinality(R \ known) \in Nat /\ Cardinality(changed) \in Nat
       /\ Cardinality(known \ changed) \in Nat
  BY <1>5, <1>6, FS_CardinalityType
<1>11. Cardinality(R) = Cardinality(known) + Cardinality(R \ known)
       /\ Cardinality(known) = Cardinality(changed) + Cardinality(known \ changed)
  <2>1. Cardinality(known \cap (R \ known)) = 0 /\ Cardinality(changed \cap (known \ changed)) = 0
    BY <1>1, <1>2, <1>7
  <2> QED BY <1>8, <1>9, <1>10, <2>1
<1> QED BY <1>3, <1>4, <1>10, <1>11

\* What a commit stores: more champions, and still no two of one key.
LEMMA StaticStoredFacts ==
  ASSUME Static!ConstantsAssumption, NEW stored \in Static!Rosters, IsFiniteSet(DOMAIN stored), StaticApart(stored),
         NEW file \in StaticChampionFiles, NEW roster, StaticIsRosterOf(roster, file),
         ~Static!DuplicateIdentity(file), ~Static!CountIsLow(file), ~Static!KeyClash(stored, file)
  PROVE  LET new == Static!WithChampions(stored, roster) IN
         /\ new \in Static!Rosters /\ IsFiniteSet(DOMAIN new) /\ StaticApart(new)
         /\ Cardinality(DOMAIN new) >= StaticMinChampions
<1> DEFINE new == Static!WithChampions(stored, roster)
<1>1. /\ Len(file) \in Nat /\ DOMAIN file = 1..Len(file)
      /\ \A i, j \in DOMAIN file : i < j => file[i].id # file[j].id /\ file[i].key # file[j].key
  BY StaticFileFacts DEF Static!DuplicateIdentity
<1>2. IsFiniteSet(DOMAIN roster) /\ Cardinality(DOMAIN roster) = Len(file)
  BY <1>1, StaticFileCounts DEF StaticIsRosterOf
<1>3. DOMAIN new = DOMAIN stored \cup DOMAIN roster /\ IsFiniteSet(DOMAIN new)
  BY <1>2, FS_Union DEF Static!WithChampions
<1>4. Cardinality(DOMAIN new) >= StaticMinChampions
  <2>1. DOMAIN roster \in SUBSET (DOMAIN new)
    BY <1>3
  <2>2. Cardinality(DOMAIN roster) <= Cardinality(DOMAIN new)
    BY <1>3, <2>1, FS_Subset
  <2>3. Cardinality(DOMAIN new) \in Nat /\ StaticMinChampions \in Nat /\ Len(file) >= StaticMinChampions
    BY <1>1, <1>3, FS_CardinalityType DEF Static!ConstantsAssumption, Static!CountIsLow
  <2> QED BY <1>1, <1>2, <2>2, <2>3
<1>5. \A c \in DOMAIN new : new[c] = IF c \in DOMAIN roster THEN roster[c] ELSE stored[c]
  BY DEF Static!WithChampions
<1>6. new \in Static!Rosters
  <2>1. PICK S \in SUBSET Static!ChampionIds : stored \in [S -> [key : Static!AssetKeys, abilities : {"short", "full"}]]
    BY DEF Static!Rosters
  <2>2. PICK T \in SUBSET Static!ChampionIds : roster \in [T -> [key : Static!AssetKeys, abilities : {"short", "full"}]]
    BY DEF Static!Rosters, StaticIsRosterOf
  <2>3. new \in [S \cup T -> [key : Static!AssetKeys, abilities : {"short", "full"}]]
    BY <2>1, <2>2 DEF Static!WithChampions
  <2> HIDE DEF new
  <2> QED BY <2>3 DEF Static!Rosters
<1>7. ASSUME NEW c \in DOMAIN roster, NEW d \in DOMAIN stored, d \notin DOMAIN roster
      PROVE  roster[c].key # stored[d].key
  <2>1. PICK i \in DOMAIN file : file[i].id = c /\ roster[c].key = file[i].key
    BY DEF StaticIsRosterOf
  <2>2. \A j \in DOMAIN file : file[j].id # d
    BY <1>7 DEF StaticIsRosterOf, StaticIds
  <2>3. \A j \in 1..i - 1 : j \in DOMAIN file
    BY <1>1
  <2> DEFINE Now(x) == IF \E j \in 1..i - 1 : file[j].id = x
                       THEN file[CHOOSE j \in 1..i - 1 : file[j].id = x].key ELSE stored[x].key
             present == DOMAIN stored \cup {file[j].id : j \in 1..i - 1}
  <2>4. ~(\E x \in present \ {file[i].id} : Now(x) = file[i].key)
    BY DEF Static!KeyClash
  <2>5. d \in present \ {file[i].id} /\ Now(d) = stored[d].key
    BY <2>2, <2>3
  <2> HIDE DEF Now, present
  <2> QED BY <2>1, <2>4, <2>5
<1>8. ASSUME NEW c \in DOMAIN roster, NEW d \in DOMAIN roster, c # d PROVE roster[c].key # roster[d].key
  <2>1. PICK i \in DOMAIN file : file[i].id = c /\ roster[c].key = file[i].key
    BY DEF StaticIsRosterOf
  <2>2. PICK j \in DOMAIN file : file[j].id = d /\ roster[d].key = file[j].key
    BY DEF StaticIsRosterOf
  <2>3. i < j \/ j < i
    BY <1>1, <1>8, <2>1, <2>2
  <2> QED BY <1>1, <2>1, <2>2, <2>3
<1> HIDE DEF new
<1>9. StaticApart(new)
  <2> SUFFICES ASSUME NEW c \in DOMAIN new, NEW d \in DOMAIN new, c # d PROVE new[c].key # new[d].key
    BY DEF StaticApart
  <2>1. CASE c \in DOMAIN roster /\ d \in DOMAIN roster
    BY <1>5, <1>8, <2>1
  <2>2. CASE c \in DOMAIN roster /\ d \notin DOMAIN roster
    BY <1>3, <1>5, <1>7, <2>2
  <2>3. CASE c \notin DOMAIN roster /\ d \in DOMAIN roster
    BY <1>3, <1>5, <1>7, <2>3
  <2>4. CASE c \notin DOMAIN roster /\ d \notin DOMAIN roster
    BY <1>3, <1>5, <2>4 DEF StaticApart
  <2> QED BY <2>1, <2>2, <2>3, <2>4
<1> QED BY <1>3, <1>4, <1>6, <1>9 DEF new

-----------------------------------------------------------------------------
(* The steps of one run that change nothing else.                          *)

LEMMA StaticLocal ==
  ASSUME StaticIInv, NEW r \in StaticRuns, NEW new, UNCHANGED <<staticPatches, staticAlone>>, staticRuns' = [staticRuns EXCEPT ![r] = new],
         StaticFits(new, staticPatches),
         new.stage \in Static!InTransaction =>
           Static!At(r, Static!InTransaction) /\ new.version = staticRuns[r].version /\ new.overlapped = staticRuns[r].overlapped
  PROVE  StaticIInv'
<1>1. DOMAIN staticRuns' = StaticRuns /\ staticRuns'[r] = new /\ \A q \in StaticRuns : q # r => staticRuns'[q] = staticRuns[q]
  BY DEF StaticIInv
<1>2. \A q \in StaticRuns : staticRuns'[q] = None \/ StaticFits(staticRuns'[q], staticPatches)
  BY <1>1 DEF StaticIInv
<1>3. StaticExclude'
  <2> SUFFICES ASSUME NEW p \in StaticRuns, NEW q \in StaticRuns, p # q, Static!At(p, Static!InTransaction)', Static!At(q, Static!InTransaction)'
               PROVE  staticRuns'[p].version # staticRuns'[q].version /\ staticRuns'[p].overlapped
    BY DEF StaticExclude
  <2>1. ASSUME NEW o \in StaticRuns, Static!At(o, Static!InTransaction)'
        PROVE  Static!At(o, Static!InTransaction) /\ staticRuns'[o].version = staticRuns[o].version /\ staticRuns'[o].overlapped = staticRuns[o].overlapped
    BY <1>1, <2>1 DEF Static!At
  <2> QED BY <2>1 DEF StaticIInv, StaticExclude
<1> QED BY <1>1, <1>2, <1>3 DEF StaticIInv

LEMMA StaticEndedFits ==
  ASSUME NEW run, NEW db, StaticFits(run, db), NEW result,
         result = "ok" /\ ~run.input.dry => run.committed,
         result = "failed" /\ run.committed => ~run.reported
  PROVE  StaticFits(Static!Ended(run, result), db) /\ Static!Ended(run, result).stage = "done"
<1> DEFINE new == Static!Ended(run, result)
<1>1. /\ DOMAIN new = StaticRunFields /\ new.stage = "done" /\ new.result = result
      /\ new.input = run.input /\ new.version = run.version /\ new.overlapped = run.overlapped
      /\ new.committed = run.committed /\ new.counts = run.counts /\ new.reported = run.reported
  BY DEF Static!Ended, StaticFits, StaticRunTypes, StaticRunFields
<1> HIDE DEF new
<1>2. StaticRunTypes(new)
  BY <1>1 DEF StaticFits, StaticRunTypes, StaticStages
<1>3. StaticContent(new)
  BY <1>1 DEF StaticContent, StaticWithFile, StaticWithRoster, StaticChecked
<1>4. StaticTold(new)
  BY <1>1 DEF StaticFits, StaticTold, StaticWithFile, StaticWithRoster, StaticChecked
<1>5. StaticKnows(new, db)
  BY <1>1 DEF StaticFits, StaticKnows
<1> QED BY <1>1, <1>2, <1>3, <1>4, <1>5 DEF StaticFits, new

\* A run that ends has nothing in its transaction any more.
LEMMA StaticEndStep ==
  ASSUME StaticIInv, NEW r \in StaticRuns, NEW run, StaticFits(run, staticPatches), NEW result,
         result = "ok" /\ ~run.input.dry => run.committed,
         result = "failed" /\ run.committed => ~run.reported,
         Static!Go(r, Static!Ended(run, result)), UNCHANGED <<staticPatches, staticAlone>>
  PROVE  StaticIInv'
<1> DEFINE new == Static!Ended(run, result)
<1>1. StaticFits(new, staticPatches) /\ new.stage = "done" /\ staticRuns' = [staticRuns EXCEPT ![r] = new]
  BY StaticEndedFits DEF Static!Go
<1> HIDE DEF new
<1> QED BY <1>1, StaticLocal DEF Static!InTransaction

LEMMA StaticStartStep == ASSUME StaticIInv, Static!ConstantsAssumption, NEW r \in StaticRuns, NEW input \in StaticInputs, Static!Start(r, input) PROVE StaticIInv'
<1> DEFINE new == Static!NewRun(input)
<1>1. /\ DOMAIN new = StaticRunFields /\ new.stage = (IF input.version = None THEN "version" ELSE "file")
      /\ new.input = input /\ new.version = input.version /\ new.overlapped = FALSE
      /\ new.committed = FALSE /\ new.counts = None /\ new.result = None /\ new.reported = FALSE
  BY DEF Static!NewRun, StaticRunFields
<1>2. input.version \in StaticVersions \cup {None} /\ staticRuns' = [staticRuns EXCEPT ![r] = new] /\ UNCHANGED <<staticPatches, staticAlone>>
  BY DEF Static!ConstantsAssumption, Static!Start
<1> HIDE DEF new
<1>3. StaticRunTypes(new)
  BY <1>1, <1>2 DEF StaticRunTypes, StaticStages
<1>4. StaticContent(new)
  BY <1>1 DEF StaticContent, StaticWithFile, StaticWithRoster, StaticChecked
<1>5. StaticTold(new)
  BY <1>1 DEF Static!ConstantsAssumption, StaticTold, StaticWithFile, StaticWithRoster, StaticChecked
<1>6. StaticKnows(new, staticPatches)
  BY <1>1 DEF StaticKnows
<1> QED BY <1>1, <1>2, <1>3, <1>4, <1>5, <1>6, StaticLocal DEF StaticFits, Static!InTransaction

LEMMA StaticRequestStep ==
  ASSUME StaticIInv, Static!ConstantsAssumption, NEW r \in StaticRuns, NEW request, NEW retryable,
         Static!RequestFails(r, retryable) \/ Static!BuildRequestFails(r, request, retryable)
  PROVE  StaticIInv'
<1> DEFINE run == staticRuns[r]
           short == [run EXCEPT !.stage = "check", !.attempt = Static!FirstTries, !.roster = Static!Roster(run.file, <<>>)]
<1>1. run.stage \in {"version", "file", "full"} /\ StaticFits(run, staticPatches) /\ UNCHANGED <<staticPatches, staticAlone>>
  BY DEF Static!RequestFails, Static!BuildRequestFails, Static!At, StaticIInv
<1>2. \/ \E asked : staticRuns' = [staticRuns EXCEPT ![r] = Static!Again(run, asked)]
      \/ staticRuns' = [staticRuns EXCEPT ![r] = short] /\ run.stage = "full"
      \/ Static!Go(r, Static!Ended(run, "failed"))
  BY DEF Static!RequestFails, Static!BuildRequestFails, Static!Go
<1> HIDE DEF run
<1>3. ASSUME NEW asked, staticRuns' = [staticRuns EXCEPT ![r] = Static!Again(run, asked)] PROVE StaticIInv'
  <2> DEFINE again == Static!Again(run, asked)
  <2>1. /\ DOMAIN again = StaticRunFields /\ \A f \in StaticRunFields \ {"attempt"} : again[f] = run[f]
    BY <1>1 DEF Static!Again, StaticFits, StaticRunTypes, StaticRunFields
  <2> HIDE DEF again
  <2>2. /\ again.stage = run.stage /\ again.input = run.input /\ again.version = run.version
        /\ again.overlapped = run.overlapped /\ again.committed = run.committed /\ again.counts = run.counts
        /\ again.reported = run.reported /\ again.result = run.result /\ again.file = run.file
    BY <2>1 DEF StaticRunFields
  <2>3. StaticRunTypes(again) /\ StaticContent(again)
    BY <1>1, <2>1, <2>2 DEF StaticFits, StaticRunTypes, StaticContent, StaticStages, StaticWithFile, StaticWithRoster, StaticChecked
  <2>4. StaticTold(again) /\ StaticKnows(again, staticPatches)
    BY <1>1, <2>2 DEF StaticFits, StaticTold, StaticKnows, StaticWithFile, StaticWithRoster, StaticChecked
  <2>5. again.stage \notin Static!InTransaction
    BY <1>1, <2>2 DEF Static!InTransaction
  <2>6. staticRuns' = [staticRuns EXCEPT ![r] = again]
    BY <1>3 DEF again
  <2> QED BY <1>1, <2>3, <2>4, <2>5, <2>6, StaticLocal DEF StaticFits
<1>4. CASE staticRuns' = [staticRuns EXCEPT ![r] = short] /\ run.stage = "full"
  <2>1. /\ DOMAIN short = StaticRunFields /\ short.stage = "check" /\ short.roster = Static!Roster(run.file, <<>>)
        /\ short.input = run.input /\ short.version = run.version /\ short.file = run.file
        /\ short.overlapped = run.overlapped /\ short.committed = run.committed /\ short.counts = run.counts
        /\ short.reported = run.reported /\ short.result = run.result
    BY <1>1 DEF StaticFits, StaticRunTypes, StaticRunFields
  <2> HIDE DEF short
  <2>2. run.input.kind = "champions" /\ run.file \in StaticChampionFiles
    BY <1>1, <1>4 DEF StaticFits, StaticContent, StaticWithFile
  <2>3. StaticIsRosterOf(short.roster, short.file)
    BY <2>1, <2>2, StaticRosterFacts
  <2>4. StaticRunTypes(short) /\ StaticContent(short)
    BY <1>1, <1>4, <2>1, <2>2, <2>3 DEF StaticFits, StaticRunTypes, StaticContent, StaticStages, StaticWithFile, StaticWithRoster, StaticChecked
  <2>5. StaticTold(short) /\ StaticKnows(short, staticPatches)
    BY <1>1, <1>4, <2>1 DEF StaticFits, StaticTold, StaticKnows, StaticWithFile, StaticWithRoster, StaticChecked
  <2> QED BY <1>1, <1>4, <2>1, <2>4, <2>5, StaticLocal DEF StaticFits, Static!InTransaction
<1>5. CASE Static!Go(r, Static!Ended(run, "failed"))
  <2>1. ~run.committed
    BY <1>1 DEF StaticFits, StaticTold
  <2> QED BY <1>1, <1>5, <2>1, StaticEndStep
<1> QED BY <1>2, <1>3, <1>4, <1>5

LEMMA StaticFetchSteps ==
  ASSUME StaticIInv, Static!ConstantsAssumption, NEW r \in StaticRuns,
         \/ \E v \in StaticVersions : Static!ResolveVersion(r, v)
         \/ \E file \in StaticChampionFiles : Static!FetchChampions(r, file) \/ Static!Overlay(r, file)
  PROVE  StaticIInv'
<1> DEFINE run == staticRuns[r]
<1>1. StaticFits(run, staticPatches) /\ UNCHANGED <<staticPatches, staticAlone>> /\ run.stage \in {"version", "file", "full"}
  BY DEF Static!ResolveVersion, Static!FetchChampions, Static!Overlay, Static!At, StaticIInv
<1>2. ASSUME NEW v \in StaticVersions, Static!ResolveVersion(r, v) PROVE StaticIInv'
  <2> DEFINE new == [run EXCEPT !.version = v, !.stage = "file", !.attempt = Static!FirstTries]
  <2>1. staticRuns' = [staticRuns EXCEPT ![r] = new] /\ run.stage = "version"
    BY <1>2 DEF Static!ResolveVersion, Static!Go, Static!At
  <2> HIDE DEF run
  <2>2. /\ DOMAIN new = StaticRunFields /\ new.stage = "file" /\ new.version = v
        /\ new.input = run.input /\ new.overlapped = run.overlapped /\ new.committed = run.committed
        /\ new.counts = run.counts /\ new.reported = run.reported /\ new.result = run.result
    BY <1>1 DEF StaticFits, StaticRunTypes, StaticRunFields
  <2> HIDE DEF new
  <2>3. StaticRunTypes(new) /\ StaticContent(new)
    BY <1>1, <2>2 DEF StaticFits, StaticRunTypes, StaticContent, StaticStages, StaticWithFile, StaticWithRoster, StaticChecked
  <2>4. StaticTold(new) /\ StaticKnows(new, staticPatches)
    BY <1>1, <2>1, <2>2 DEF StaticFits, StaticTold, StaticKnows, StaticWithFile, StaticWithRoster, StaticChecked
  <2> QED BY <1>1, <2>1, <2>2, <2>3, <2>4, StaticLocal DEF StaticFits, Static!InTransaction
<1>3. ASSUME NEW file \in StaticChampionFiles, Static!FetchChampions(r, file) PROVE StaticIInv'
  <2> DEFINE new == [run EXCEPT !.file = file, !.stage = "full", !.attempt = Static!FirstTries]
  <2>1. /\ run.stage = "file" /\ run.input.kind = "champions"
        /\ staticRuns' = [staticRuns EXCEPT ![r] = new] \/ Static!Go(r, Static!Ended(run, "failed"))
    BY <1>3 DEF Static!FetchChampions, Static!Go, Static!At
  <2> HIDE DEF run
  <2>2. ~run.committed
    BY <1>1, <2>1 DEF StaticFits, StaticTold
  <2>3. /\ DOMAIN new = StaticRunFields /\ new.stage = "full" /\ new.file = file /\ new.version = run.version
        /\ new.input = run.input /\ new.overlapped = run.overlapped /\ new.committed = run.committed
        /\ new.counts = run.counts /\ new.reported = run.reported /\ new.result = run.result
    BY <1>1 DEF StaticFits, StaticRunTypes, StaticRunFields
  <2> HIDE DEF new
  <2>4. StaticRunTypes(new) /\ StaticContent(new)
    BY <1>1, <2>1, <2>3 DEF StaticFits, StaticRunTypes, StaticContent, StaticStages, StaticWithFile, StaticWithRoster, StaticChecked
  <2>5. StaticTold(new) /\ StaticKnows(new, staticPatches)
    BY <1>1, <2>1, <2>2, <2>3 DEF StaticFits, StaticTold, StaticKnows, StaticWithFile, StaticWithRoster, StaticChecked
  <2>6. CASE staticRuns' = [staticRuns EXCEPT ![r] = new]
    BY <1>1, <2>3, <2>4, <2>5, <2>6, StaticLocal DEF StaticFits, Static!InTransaction
  <2>7. CASE Static!Go(r, Static!Ended(run, "failed"))
    BY <1>1, <2>2, <2>7, StaticEndStep
  <2> QED BY <2>1, <2>6, <2>7
<1>4. ASSUME NEW file \in StaticChampionFiles, Static!Overlay(r, file) PROVE StaticIInv'
  <2> DEFINE full == IF Static!FileParses(file) THEN file ELSE <<>>
             new == [run EXCEPT !.roster = Static!Roster(run.file, full), !.stage = "check", !.attempt = Static!FirstTries]
  <2>1. staticRuns' = [staticRuns EXCEPT ![r] = new] /\ run.stage = "full"
    BY <1>4 DEF Static!Overlay, Static!Go, Static!At
  <2> HIDE DEF run, full
  <2>2. /\ DOMAIN new = StaticRunFields /\ new.stage = "check" /\ new.roster = Static!Roster(run.file, full)
        /\ new.file = run.file /\ new.version = run.version
        /\ new.input = run.input /\ new.overlapped = run.overlapped /\ new.committed = run.committed
        /\ new.counts = run.counts /\ new.reported = run.reported /\ new.result = run.result
    BY <1>1 DEF StaticFits, StaticRunTypes, StaticRunFields
  <2> HIDE DEF new
  <2>3. run.input.kind = "champions" /\ run.file \in StaticChampionFiles
    BY <1>1, <2>1 DEF StaticFits, StaticContent, StaticWithFile
  <2>4. StaticIsRosterOf(new.roster, new.file)
    BY <2>2, <2>3, StaticRosterFacts
  <2>5. StaticRunTypes(new) /\ StaticContent(new)
    BY <1>1, <2>1, <2>2, <2>3, <2>4 DEF StaticFits, StaticRunTypes, StaticContent, StaticStages, StaticWithFile, StaticWithRoster, StaticChecked
  <2>6. StaticTold(new) /\ StaticKnows(new, staticPatches)
    BY <1>1, <2>1, <2>2 DEF StaticFits, StaticTold, StaticKnows, StaticWithFile, StaticWithRoster, StaticChecked
  <2> QED BY <1>1, <2>1, <2>2, <2>5, <2>6, StaticLocal DEF StaticFits, Static!InTransaction
<1> QED BY <1>2, <1>3, <1>4

LEMMA StaticFetchBuildStep ==
  ASSUME StaticIInv, Static!ConstantsAssumption, NEW r \in StaticRuns, NEW file \in StaticBuildFiles, Static!FetchBuild(r, file)
  PROVE  StaticIInv'
<1> DEFINE run == staticRuns[r]
           new == [run EXCEPT !.build = Static!BuildRows(file), !.stage = "ready", !.attempt = Static!FirstTries]
<1>1. StaticFits(run, staticPatches) /\ UNCHANGED <<staticPatches, staticAlone>> /\ run.stage = "file" /\ run.input.kind = "build"
  BY DEF Static!FetchBuild, Static!At, StaticIInv
<1>2. \/ Static!Go(r, Static!Ended(run, "failed"))
      \/ run.input.dry /\ Static!Go(r, Static!Ended(run, "ok"))
      \/ ~run.input.dry /\ staticRuns' = [staticRuns EXCEPT ![r] = new]
  BY DEF Static!FetchBuild, Static!Go
<1>3. Static!BuildRows(file) \subseteq {"item", "spell", "rune"} \X Static!BuildNumbers
  BY DEF Static!BuildRows, Static!BuildNumbers
<1> HIDE DEF run
<1>4. ~run.committed
  BY <1>1 DEF StaticFits, StaticTold
<1>5. CASE Static!Go(r, Static!Ended(run, "failed"))
  BY <1>1, <1>4, <1>5, StaticEndStep
<1>6. CASE run.input.dry /\ Static!Go(r, Static!Ended(run, "ok"))
  BY <1>1, <1>4, <1>6, StaticEndStep
<1>7. CASE ~run.input.dry /\ staticRuns' = [staticRuns EXCEPT ![r] = new]
  <2>1. /\ DOMAIN new = StaticRunFields /\ new.stage = "ready" /\ new.build = Static!BuildRows(file)
        /\ new.file = run.file /\ new.version = run.version
        /\ new.input = run.input /\ new.overlapped = run.overlapped /\ new.committed = run.committed
        /\ new.counts = run.counts /\ new.reported = run.reported /\ new.result = run.result
    BY <1>1 DEF StaticFits, StaticRunTypes, StaticRunFields
  <2> HIDE DEF new
  <2>2. StaticRunTypes(new) /\ StaticContent(new)
    BY <1>1, <1>3, <2>1 DEF StaticFits, StaticRunTypes, StaticContent, StaticStages, StaticWithFile, StaticWithRoster, StaticChecked
  <2>3. StaticTold(new) /\ StaticKnows(new, staticPatches)
    BY <1>1, <1>4, <1>7, <2>1 DEF StaticFits, StaticTold, StaticKnows, StaticWithFile, StaticWithRoster, StaticChecked
  <2> QED BY <1>1, <1>7, <2>1, <2>2, <2>3, StaticLocal DEF StaticFits, Static!InTransaction
<1> QED BY <1>2, <1>5, <1>6, <1>7

LEMMA StaticCheckStep ==
  ASSUME StaticIInv, Static!ConstantsAssumption, NEW r \in StaticRuns, NEW reordered, Static!Check(r, reordered)
  PROVE  StaticIInv'
<1> DEFINE run == staticRuns[r]
           counts == Static!Classify(Static!ChampionsOf(staticPatches, run.version), run.file, run.roster, reordered)
           counted == [run EXCEPT !.counts = counts]
           new == [counted EXCEPT !.stage = "ready"]
<1>1. StaticFits(run, staticPatches) /\ UNCHANGED <<staticPatches, staticAlone>> /\ run.stage = "check"
  BY DEF Static!Check, Static!At, StaticIInv
<1>2. \/ Static!Go(r, Static!Ended(run, "failed"))
      \/ ~Static!CountIsLow(run.file) /\ ~Static!DuplicateIdentity(run.file) /\
         \/ run.input.dry /\ Static!Go(r, Static!Ended(counted, "ok"))
         \/ ~run.input.dry /\ staticRuns' = [staticRuns EXCEPT ![r] = new]
  BY DEF Static!Check, Static!Go
<1> HIDE DEF run
<1>3. ~run.committed
  BY <1>1 DEF StaticFits, StaticTold
<1>4. CASE Static!Go(r, Static!Ended(run, "failed"))
  BY <1>1, <1>3, <1>4, StaticEndStep
<1>5. run.input.kind = "champions" /\ run.file \in StaticChampionFiles /\ StaticIsRosterOf(run.roster, run.file)
  BY <1>1 DEF StaticFits, StaticContent, StaticWithFile, StaticWithRoster
<1>6. ASSUME ~Static!DuplicateIdentity(run.file)
      PROVE  counts.new + counts.changed + counts.unchanged = counts.discovered
  <2>1. IsFiniteSet(StaticIds(run.file)) /\ Cardinality(StaticIds(run.file)) = Len(run.file)
    BY <1>5, <1>6, StaticFileCounts DEF Static!DuplicateIdentity
  <2>2. IsFiniteSet(DOMAIN run.roster) /\ Cardinality(DOMAIN run.roster) = Len(run.file)
    BY <1>5, <2>1 DEF StaticIsRosterOf
  <2> QED BY <2>2, StaticClassesAddUp
<1> HIDE DEF counts
<1>7. /\ DOMAIN counted = StaticRunFields /\ counted.stage = "check" /\ counted.counts = counts
      /\ counted.file = run.file /\ counted.roster = run.roster /\ counted.version = run.version
      /\ counted.input = run.input /\ counted.overlapped = run.overlapped /\ counted.committed = run.committed
      /\ counted.reported = run.reported /\ counted.result = run.result /\ counted.build = run.build
  BY <1>1 DEF StaticFits, StaticRunTypes, StaticRunFields
<1>8. /\ DOMAIN new = StaticRunFields /\ new.stage = "ready" /\ new.counts = counts
      /\ new.file = run.file /\ new.roster = run.roster /\ new.version = run.version
      /\ new.input = run.input /\ new.overlapped = run.overlapped /\ new.committed = run.committed
      /\ new.reported = run.reported /\ new.result = run.result
  BY <1>7 DEF StaticRunFields
<1> HIDE DEF counted, new
<1>9. CASE ~Static!CountIsLow(run.file) /\ ~Static!DuplicateIdentity(run.file) /\ run.input.dry /\ Static!Go(r, Static!Ended(counted, "ok"))
  <2>1. StaticRunTypes(counted) /\ StaticContent(counted)
    BY <1>1, <1>5, <1>7 DEF StaticFits, StaticRunTypes, StaticContent, StaticStages, StaticWithFile, StaticWithRoster, StaticChecked
  <2>2. StaticTold(counted) /\ StaticKnows(counted, staticPatches)
    BY <1>1, <1>3, <1>6, <1>7, <1>9 DEF StaticFits, StaticTold, StaticKnows, StaticWithFile, StaticWithRoster, StaticChecked
  <2>3. StaticFits(counted, staticPatches) /\ counted.input.dry /\ ~counted.committed
    BY <1>3, <1>7, <1>9, <2>1, <2>2 DEF StaticFits
  <2> QED BY <1>1, <1>9, <2>3, StaticEndStep
<1>10. CASE ~Static!CountIsLow(run.file) /\ ~Static!DuplicateIdentity(run.file) /\ ~run.input.dry /\ staticRuns' = [staticRuns EXCEPT ![r] = new]
  <2>1. StaticRunTypes(new) /\ StaticContent(new)
    BY <1>1, <1>5, <1>8, <1>10 DEF StaticFits, StaticRunTypes, StaticContent, StaticStages, StaticWithFile, StaticWithRoster, StaticChecked
  <2>2. StaticTold(new) /\ StaticKnows(new, staticPatches)
    BY <1>1, <1>3, <1>6, <1>8, <1>10 DEF StaticFits, StaticTold, StaticKnows, StaticWithFile, StaticWithRoster, StaticChecked
  <2> QED BY <1>1, <1>8, <1>10, <2>1, <2>2, StaticLocal DEF StaticFits, Static!InTransaction
<1> QED BY <1>2, <1>4, <1>9, <1>10

LEMMA StaticAimSteps == ASSUME StaticIInv, NEW r \in StaticRuns, Static!AimAtOthers(r) \/ Static!DeactivateOthers(r) PROVE StaticIInv'
<1> DEFINE run == staticRuns[r]
           aimed == [run EXCEPT !.stage = "aimed", !.aims = Static!OtherActive(run.version, staticPatches)]
           off == {v \in run.aims : staticPatches[v].active}
           cleared == [run EXCEPT !.stage = "off", !.off = off]
<1>1. StaticFits(run, staticPatches) /\ UNCHANGED <<staticPatches, staticAlone>> /\ Static!At(r, Static!InTransaction)
  BY DEF Static!AimAtOthers, Static!DeactivateOthers, Static!At, StaticIInv, Static!InTransaction
<1>2. \/ /\ run.stage = "upserted" /\ run.input.kind = "champions"
         /\ ~Static!KeyClash(Static!ChampionsOf(staticPatches, run.version), run.file)
         /\ staticRuns' = [staticRuns EXCEPT ![r] = aimed]
      \/ run.stage = "aimed" /\ staticRuns' = [staticRuns EXCEPT ![r] = cleared]
  BY DEF Static!AimAtOthers, Static!DeactivateOthers, Static!At, Static!Go
<1>3. \A v \in Static!OtherActive(run.version, staticPatches) : v \in StaticVersions \ {run.version} /\ staticPatches[v] # None
  BY DEF Static!OtherActive
<1> HIDE DEF run
<1>4. CASE /\ run.stage = "upserted" /\ run.input.kind = "champions"
           /\ ~Static!KeyClash(Static!ChampionsOf(staticPatches, run.version), run.file)
           /\ staticRuns' = [staticRuns EXCEPT ![r] = aimed]
  <2>1. /\ DOMAIN aimed = StaticRunFields /\ aimed.stage = "aimed" /\ aimed.aims = Static!OtherActive(run.version, staticPatches)
        /\ aimed.file = run.file /\ aimed.roster = run.roster /\ aimed.version = run.version
        /\ aimed.input = run.input /\ aimed.overlapped = run.overlapped /\ aimed.committed = run.committed
        /\ aimed.counts = run.counts /\ aimed.reported = run.reported /\ aimed.result = run.result
    BY <1>1 DEF StaticFits, StaticRunTypes, StaticRunFields
  <2> HIDE DEF aimed
  <2>2. StaticRunTypes(aimed) /\ StaticContent(aimed)
    BY <1>1, <1>4, <2>1 DEF StaticFits, StaticRunTypes, StaticContent, StaticStages, StaticWithFile, StaticWithRoster, StaticChecked
  <2>3. StaticTold(aimed) /\ StaticKnows(aimed, staticPatches)
    BY <1>1, <1>3, <1>4, <2>1 DEF StaticFits, StaticTold, StaticKnows, StaticWithFile, StaticWithRoster, StaticChecked
  <2>4. aimed.version = staticRuns[r].version /\ aimed.overlapped = staticRuns[r].overlapped
    BY <2>1 DEF run
  <2> QED BY <1>1, <1>4, <2>2, <2>3, <2>4, StaticLocal DEF StaticFits
<1>5. CASE run.stage = "aimed" /\ staticRuns' = [staticRuns EXCEPT ![r] = cleared]
  <2>1. /\ DOMAIN cleared = StaticRunFields /\ cleared.stage = "off" /\ cleared.off = off
        /\ cleared.file = run.file /\ cleared.roster = run.roster /\ cleared.version = run.version
        /\ cleared.input = run.input /\ cleared.overlapped = run.overlapped /\ cleared.committed = run.committed
        /\ cleared.counts = run.counts /\ cleared.reported = run.reported /\ cleared.result = run.result
    BY <1>1 DEF StaticFits, StaticRunTypes, StaticRunFields
  <2>2. /\ \A v \in off : v \in StaticVersions \ {run.version} /\ staticPatches[v] # None
        /\ ~run.overlapped => off = Static!OtherActive(run.version, staticPatches)
    BY <1>1, <1>5 DEF StaticFits, StaticKnows, Static!OtherActive
  <2> HIDE DEF cleared, off
  <2>3. StaticRunTypes(cleared) /\ StaticContent(cleared)
    BY <1>1, <1>5, <2>1 DEF StaticFits, StaticRunTypes, StaticContent, StaticStages, StaticWithFile, StaticWithRoster, StaticChecked
  <2>4. StaticTold(cleared) /\ StaticKnows(cleared, staticPatches)
    BY <1>1, <1>5, <2>1, <2>2 DEF StaticFits, StaticTold, StaticKnows, StaticWithFile, StaticWithRoster, StaticChecked
  <2>5. cleared.version = staticRuns[r].version /\ cleared.overlapped = staticRuns[r].overlapped
    BY <2>1 DEF run
  <2> QED BY <1>1, <1>5, <2>3, <2>4, <2>5, StaticLocal DEF StaticFits
<1> QED BY <1>2, <1>4, <1>5

LEMMA StaticEndSteps ==
  ASSUME StaticIInv, Static!ConstantsAssumption, NEW r \in StaticRuns, Static!RollBack(r) \/ Static!Crash(r) \/ \E readFails \in BOOLEAN : Static!Verify(r, readFails)
  PROVE  StaticIInv'
<1>1. UNCHANGED <<staticPatches, staticAlone>> /\ StaticFits(staticRuns[r], staticPatches)
  BY DEF Static!RollBack, Static!Crash, Static!Verify, Static!At, StaticIInv
<1>2. CASE Static!RollBack(r)
  <2>1. Static!Go(r, Static!Ended(staticRuns[r], "failed")) /\ staticRuns[r].stage \in {"upserted", "aimed", "off", "ready", "check"}
    BY <1>2 DEF Static!RollBack, Static!At, Static!InTransaction
  <2>2. ~staticRuns[r].committed
    BY <1>1, <2>1 DEF StaticFits, StaticTold
  <2> QED BY <1>1, <2>1, <2>2, StaticEndStep
<1>3. CASE Static!Crash(r)
  BY <1>1, <1>3, StaticEndStep DEF Static!Crash
<1>4. ASSUME NEW readFails \in BOOLEAN, Static!Verify(r, readFails) PROVE StaticIInv'
  <2> DEFINE run == staticRuns[r]
             new == [run EXCEPT !.reported = ~readFails]
             result == IF ~readFails /\ Static!Verified(run, staticPatches) THEN "ok" ELSE "failed"
  <2>1. run.stage = "verify" /\ Static!Go(r, Static!Ended(new, result))
    BY <1>4 DEF Static!Verify, Static!At
  <2>2. StaticFits(run, staticPatches)
    BY <1>1
  <2> HIDE DEF run
  <2>3. /\ DOMAIN new = StaticRunFields /\ new.reported = ~readFails
        /\ new.file = run.file /\ new.roster = run.roster /\ new.version = run.version /\ new.stage = run.stage
        /\ new.input = run.input /\ new.overlapped = run.overlapped /\ new.committed = run.committed
        /\ new.counts = run.counts /\ new.result = run.result
    BY <2>2 DEF StaticFits, StaticRunTypes, StaticRunFields
  <2> HIDE DEF new
  <2>4. run.version \in StaticVersions /\ staticPatches[run.version] # None /\ StaticBig(staticPatches[run.version])
    BY <2>1, <2>2 DEF StaticFits, StaticKnows
  <2>5. Static!Verified(run, staticPatches)
    <3>1. StaticPatchFits(staticPatches[run.version])
      BY <2>4 DEF StaticIInv, StaticPatchesFit
    <3> DEFINE stored == staticPatches[run.version].champions
    <3>2. IsFiniteSet(DOMAIN stored) /\ StaticApart(stored) /\ Cardinality(DOMAIN stored) >= StaticMinChampions
      BY <2>4, <3>1 DEF StaticPatchFits, StaticBig
    <3>3. Static!ChampionsOf(staticPatches, run.version) = stored
      BY <2>4 DEF Static!ChampionsOf
    <3> HIDE DEF stored
    <3>4. Cardinality({stored[c].key : c \in DOMAIN stored}) = Cardinality(DOMAIN stored)
      BY <3>2, StaticKeysCount
    <3> QED BY <3>2, <3>3, <3>4, StaticSameCardinality DEF Static!Verified
  <2>6. StaticFits(new, staticPatches)
    <3>1. StaticRunTypes(new) /\ StaticContent(new)
      BY <2>1, <2>2, <2>3 DEF StaticFits, StaticRunTypes, StaticContent, StaticStages, StaticWithFile, StaticWithRoster, StaticChecked
    <3>2. run.result = None /\ None \notin {"ok", "failed"}
      BY <2>1, <2>2 DEF StaticFits, StaticTold, Static!ConstantsAssumption
    <3>3. StaticTold(new) /\ StaticKnows(new, staticPatches)
      BY <2>1, <2>2, <2>3, <3>2 DEF StaticFits, StaticTold, StaticKnows, StaticWithFile, StaticWithRoster, StaticChecked
    <3> QED BY <3>1, <3>3 DEF StaticFits
  <2>7. new.committed /\ (result = "failed" => ~new.reported) /\ result \in {"ok", "failed"}
    BY <2>1, <2>2, <2>3, <2>5 DEF StaticFits, StaticTold
  <2> HIDE DEF result
  <2> QED BY <1>1, <2>1, <2>6, <2>7, StaticEndStep
<1> QED BY <1>2, <1>3, <1>4

-----------------------------------------------------------------------------
(* The transaction.                                                        *)

LEMMA StaticUpsertedFits ==
  ASSUME NEW run, NEW db, StaticFits(run, db), run.stage = "ready", NEW flag \in BOOLEAN
  PROVE  LET new == [run EXCEPT !.stage = "upserted", !.overlapped = flag] IN
         StaticFits(new, db) /\ new.stage = "upserted" /\ new.version = run.version /\ new.overlapped = flag
<1> DEFINE new == [run EXCEPT !.stage = "upserted", !.overlapped = flag]
<1>1. /\ DOMAIN new = StaticRunFields /\ new.stage = "upserted" /\ new.overlapped = flag
      /\ \A f \in StaticRunFields \ {"stage", "overlapped"} : new[f] = run[f]
  BY DEF StaticFits, StaticRunTypes, StaticRunFields
<1> HIDE DEF new
<1>2. /\ new.input = run.input /\ new.version = run.version /\ new.file = run.file /\ new.roster = run.roster
      /\ new.build = run.build /\ new.committed = run.committed /\ new.counts = run.counts
      /\ new.reported = run.reported /\ new.result = run.result
  BY <1>1 DEF StaticRunFields
<1>3. StaticRunTypes(new) /\ StaticContent(new)
  BY <1>1, <1>2 DEF StaticFits, StaticRunTypes, StaticStages, StaticContent, StaticWithFile, StaticWithRoster, StaticChecked
<1>4. StaticTold(new) /\ StaticKnows(new, db)
  BY <1>1, <1>2 DEF StaticFits, StaticTold, StaticKnows, StaticWithFile, StaticWithRoster, StaticChecked
<1> QED BY <1>1, <1>2, <1>3, <1>4 DEF StaticFits, new

LEMMA StaticMarkedFits ==
  ASSUME NEW run, NEW db, StaticFits(run, db)
  PROVE  LET new == [run EXCEPT !.overlapped = TRUE] IN
         StaticFits(new, db) /\ new.stage = run.stage /\ new.version = run.version /\ new.overlapped = TRUE
<1> DEFINE new == [run EXCEPT !.overlapped = TRUE]
<1>1. /\ DOMAIN new = StaticRunFields /\ new.overlapped = TRUE
      /\ \A f \in StaticRunFields \ {"overlapped"} : new[f] = run[f]
  BY DEF StaticFits, StaticRunTypes, StaticRunFields
<1> HIDE DEF new
<1>2. /\ new.stage = run.stage
      /\ new.input = run.input /\ new.version = run.version /\ new.file = run.file /\ new.roster = run.roster
      /\ new.build = run.build /\ new.aims = run.aims /\ new.off = run.off
      /\ new.committed = run.committed /\ new.counts = run.counts
      /\ new.reported = run.reported /\ new.result = run.result
  BY <1>1 DEF StaticRunFields
<1>3. StaticRunTypes(new)
  BY <1>1, <1>2 DEF StaticFits, StaticRunTypes
<1>4. StaticContent(new)
  BY <1>2 DEF StaticFits, StaticContent
<1>5. StaticTold(new)
  BY <1>2 DEF StaticFits, StaticTold
<1>6. StaticKnows(new, db)
  BY <1>1, <1>2 DEF StaticFits, StaticKnows
<1> QED BY <1>1, <1>2, <1>3, <1>4, <1>5, <1>6 DEF StaticFits, new

LEMMA StaticUpsertStep == ASSUME StaticIInv, NEW r \in StaticRuns, Static!UpsertPatch(r) PROVE StaticIInv'
<1> DEFINE others == {q \in StaticRuns \ {r} : Static!At(q, Static!InTransaction)}
           Marked(q) == [staticRuns[q] EXCEPT !.overlapped = TRUE]
           flag == others # {}
           Upserted == [staticRuns[r] EXCEPT !.stage = "upserted", !.overlapped = flag]
<1>1. /\ staticRuns' = [q \in StaticRuns |-> IF q = r THEN Upserted ELSE IF q \in others THEN Marked(q) ELSE staticRuns[q]]
      /\ staticRuns[r] # None /\ staticRuns[r].stage = "ready" /\ UNCHANGED <<staticPatches, staticAlone>>
      /\ \A q \in others : staticRuns[q].version # staticRuns[r].version
  BY DEF Static!UpsertPatch, Static!At, Static!Locked, Static!Holds
<1>2. \A q \in StaticRuns : staticRuns[q] # None => StaticFits(staticRuns[q], staticPatches)
  BY DEF StaticIInv
<1>3. StaticFits(Upserted, staticPatches) /\ Upserted.stage = "upserted" /\ Upserted.version = staticRuns[r].version
      /\ Upserted.overlapped = (others # {})
  <2>1. flag \in BOOLEAN /\ StaticFits(staticRuns[r], staticPatches)
    BY <1>1, <1>2
  <2>2. /\ StaticFits(Upserted, staticPatches) /\ Upserted.stage = "upserted" /\ Upserted.version = staticRuns[r].version
        /\ Upserted.overlapped = flag
    <3> HIDE DEF flag
    <3> QED BY <1>1, <2>1, StaticUpsertedFits
  <2> QED BY <2>2
<1>4. ASSUME NEW q \in others
      PROVE  StaticFits(Marked(q), staticPatches) /\ Marked(q).stage = staticRuns[q].stage /\ Marked(q).version = staticRuns[q].version
             /\ Marked(q).overlapped
  <2>1. staticRuns[q] # None /\ StaticFits(staticRuns[q], staticPatches)
    BY <1>2 DEF Static!At
  <2> QED BY <2>1, StaticMarkedFits
<1>5. /\ staticRuns'[r] = Upserted /\ DOMAIN staticRuns' = StaticRuns
      /\ \A q \in others : staticRuns'[q] = Marked(q)
      /\ \A q \in StaticRuns \ {r} : q \notin others => staticRuns'[q] = staticRuns[q] /\ ~Static!At(q, Static!InTransaction)
  BY <1>1
<1> HIDE DEF Upserted, Marked
<1>6. \A q \in StaticRuns : staticRuns'[q] = None \/ StaticFits(staticRuns'[q], staticPatches)
  BY <1>2, <1>3, <1>4, <1>5
<1>7. ASSUME NEW q \in StaticRuns \ {r}, Static!At(q, Static!InTransaction)'
      PROVE  q \in others /\ staticRuns'[q].version = staticRuns[q].version /\ staticRuns'[q].overlapped
  BY <1>4, <1>5, <1>7 DEF Static!At
<1>8. StaticExclude'
  <2> SUFFICES ASSUME NEW p \in StaticRuns, NEW q \in StaticRuns, p # q, Static!At(p, Static!InTransaction)', Static!At(q, Static!InTransaction)'
               PROVE  staticRuns'[p].version # staticRuns'[q].version /\ staticRuns'[p].overlapped
    BY DEF StaticExclude
  <2>1. CASE p = r
    BY <1>1, <1>3, <1>5, <1>7, <2>1
  <2>2. CASE q = r
    BY <1>1, <1>3, <1>5, <1>7, <2>2
  <2>3. CASE p # r /\ q # r
    <3>1. p \in others /\ q \in others /\ staticRuns'[p].version = staticRuns[p].version /\ staticRuns'[q].version = staticRuns[q].version
          /\ staticRuns'[p].overlapped
      BY <1>7, <2>3
    <3> QED BY <3>1 DEF StaticIInv, StaticExclude
  <2> QED BY <2>1, <2>2, <2>3
<1> QED BY <1>1, <1>5, <1>6, <1>8 DEF StaticIInv

\* What the other runs know holds after a commit.
LEMMA StaticOthersKnow ==
  ASSUME StaticIInv, NEW r \in StaticRuns, Static!At(r, Static!InTransaction), NEW db,
         \A v \in StaticVersions : staticPatches[v] # None => db[v] # None,
         \A v \in StaticVersions : staticPatches[v] # None /\ StaticBig(staticPatches[v]) => StaticBig(db[v]),
         \A v \in StaticVersions \ {staticRuns[r].version} : Static!ChampionsOf(db, v) = Static!ChampionsOf(staticPatches, v),
         NEW q \in StaticRuns, q # r, staticRuns[q] # None
  PROVE  StaticFits(staticRuns[q], db)
<1> DEFINE run == staticRuns[q]
<1>1. StaticFits(run, staticPatches)
  BY DEF StaticIInv
<1>2. run.stage \in {"aimed", "off"} => run.version # staticRuns[r].version /\ run.overlapped /\ run.version \in StaticVersions
  BY <1>1 DEF StaticIInv, StaticExclude, Static!At, Static!InTransaction, StaticFits, StaticRunTypes
<1> HIDE DEF run
<1>3. run.stage \in {"aimed", "off"} => ~Static!KeyClash(Static!ChampionsOf(db, run.version), run.file)
  BY <1>1, <1>2 DEF StaticFits, StaticKnows
<1>4. run.stage = "verify" => StaticBig(db[run.version])
  BY <1>1 DEF StaticFits, StaticKnows
<1>5. run.stage = "verify" \/ run.committed => run.version \in StaticVersions /\ db[run.version] # None
  BY <1>1 DEF StaticFits, StaticKnows
<1>6. /\ run.stage = "aimed" => \A v \in run.aims : v \in StaticVersions \ {run.version} /\ db[v] # None
      /\ run.stage = "off" => \A v \in run.off : v \in StaticVersions \ {run.version} /\ db[v] # None
  BY <1>1 DEF StaticFits, StaticKnows
<1>7. StaticKnows(run, db)
  BY <1>2, <1>3, <1>4, <1>5, <1>6 DEF StaticKnows
<1> QED BY <1>1, <1>7 DEF StaticFits, run

LEMMA StaticCommitStep == ASSUME StaticIInv, Static!ConstantsAssumption, NEW r \in StaticRuns, NEW answered \in BOOLEAN, Static!Commit(r, answered) PROVE StaticIInv'
<1> DEFINE run == staticRuns[r]
           ver == run.version
           own == IF staticPatches[ver] = None THEN Static!EmptyPatch ELSE staticPatches[ver]
           mine == [own EXCEPT !.active = TRUE, !.status = "READY", !.champions = Static!WithChampions(@, run.roster)]
           db == [v \in StaticVersions |-> IF v = ver THEN mine
                                     ELSE IF v \in run.off THEN [staticPatches[v] EXCEPT !.active = FALSE]
                                     ELSE staticPatches[v]]
           kept == [run EXCEPT !.stage = "verify", !.committed = TRUE, !.aims = {}, !.off = {}]
           new == IF answered THEN kept ELSE Static!Ended(kept, "failed")
<1>1. /\ StaticFits(run, staticPatches) /\ run.stage = "off" /\ run # None /\ Static!At(r, Static!InTransaction)
      /\ staticPatches' = db /\ staticRuns' = [staticRuns EXCEPT ![r] = new] /\ staticAlone' = ~run.overlapped
  BY DEF Static!Commit, Static!At, StaticIInv, Static!Go, Static!InTransaction
<1>2. /\ ver \in StaticVersions /\ run.input.kind = "champions" /\ run.file \in StaticChampionFiles
      /\ StaticIsRosterOf(run.roster, run.file) /\ ~Static!CountIsLow(run.file) /\ ~Static!DuplicateIdentity(run.file)
      /\ ~Static!KeyClash(Static!ChampionsOf(staticPatches, ver), run.file)
      /\ \A v \in run.off : v \in StaticVersions \ {ver} /\ staticPatches[v] # None
      /\ ~run.overlapped => run.off = Static!OtherActive(ver, staticPatches)
  BY <1>1 DEF StaticFits, StaticRunTypes, StaticContent, StaticKnows, StaticWithFile, StaticWithRoster, StaticChecked
<1>3. Static!PatchRow \cap {None} = {} /\ \A v \in StaticVersions : staticPatches[v] # None => StaticPatchFits(staticPatches[v])
  BY DEF Static!ConstantsAssumption, StaticIInv, StaticPatchesFit
<1>4. /\ own \in Static!PatchRow /\ IsFiniteSet(DOMAIN own.champions) /\ StaticApart(own.champions)
      /\ own.champions = Static!ChampionsOf(staticPatches, ver)
  <2>1. CASE staticPatches[ver] = None
    <3>1. <<>> \in Static!Rosters /\ DOMAIN <<>> = {}
      <4>1. <<>> \in [{} -> [key : Static!AssetKeys, abilities : {"short", "full"}]]
        OBVIOUS
      <4> QED BY <4>1 DEF Static!Rosters
    <3>2. own = Static!EmptyPatch /\ Static!ChampionsOf(staticPatches, ver) = <<>>
      BY <2>1 DEF Static!ChampionsOf
    <3>3. IsFiniteSet({})
      BY FS_EmptySet
    <3>4. own \in Static!PatchRow /\ own.champions = <<>>
      <4> DEFINE nobody == <<>>
      <4>1. own = [active |-> FALSE, status |-> "READY", champions |-> nobody, build |-> {}]
        BY <3>2 DEF Static!EmptyPatch
      <4>2. nobody \in Static!Rosters
        BY <3>1
      <4> HIDE DEF nobody, own
      <4>3. own \in Static!PatchRow /\ own.champions = nobody /\ own.active = FALSE
        BY <4>1, <4>2 DEF Static!PatchRow
      <4> QED BY <4>3 DEF nobody
    <3>5. StaticApart(<<>>) /\ IsFiniteSet(DOMAIN <<>>)
      BY <3>1, <3>3 DEF StaticApart
    <3> QED BY <3>2, <3>4, <3>5
  <2>2. CASE staticPatches[ver] # None
    <3>1. own = staticPatches[ver] /\ Static!ChampionsOf(staticPatches, ver) = own.champions
      BY <2>2 DEF Static!ChampionsOf
    <3> QED BY <1>2, <1>3, <2>2, <3>1 DEF StaticPatchFits
  <2> QED BY <2>1, <2>2
<1> HIDE DEF own
<1>5. own.champions \in Static!Rosters
  BY <1>4 DEF Static!PatchRow
<1> DEFINE stored == Static!WithChampions(own.champions, run.roster)
<1>6. stored \in Static!Rosters /\ IsFiniteSet(DOMAIN stored) /\ StaticApart(stored) /\ Cardinality(DOMAIN stored) >= StaticMinChampions
  BY <1>2, <1>4, <1>5, StaticStoredFacts
<1>7. mine \in Static!PatchRow /\ mine.champions = stored /\ mine.active = TRUE
  <2> HIDE DEF stored
  <2>1. mine = [own EXCEPT !.active = TRUE, !.status = "READY", !.champions = stored]
    BY <1>4 DEF Static!PatchRow, stored
  <2> HIDE DEF mine
  <2> QED BY <1>4, <1>6, <2>1 DEF Static!PatchRow
<1> HIDE DEF mine, stored
<1>8. StaticPatchFits(mine) /\ StaticBig(mine) /\ mine # None
  BY <1>3, <1>6, <1>7 DEF StaticPatchFits, StaticBig
<1>9. ASSUME NEW v \in StaticVersions \ {ver}
      PROVE  /\ staticPatches[v] = None => db[v] = None
             /\ staticPatches[v] # None => StaticPatchFits(db[v]) /\ db[v] # None /\ db[v].champions = staticPatches[v].champions
             /\ staticPatches[v] # None => db[v].active = (staticPatches[v].active /\ v \notin run.off)
  <2>1. CASE v \in run.off
    <3>1. staticPatches[v] # None /\ StaticPatchFits(staticPatches[v]) /\ db[v] = [staticPatches[v] EXCEPT !.active = FALSE]
      BY <1>2, <1>3, <2>1
    <3>2. db[v] \in Static!PatchRow /\ db[v].champions = staticPatches[v].champions /\ db[v].active = FALSE
      BY <3>1 DEF StaticPatchFits, Static!PatchRow
    <3> HIDE DEF db
    <3>3. StaticPatchFits(db[v]) /\ db[v] # None
      BY <1>3, <3>1, <3>2 DEF StaticPatchFits
    <3> QED BY <2>1, <3>1, <3>2, <3>3
  <2>2. CASE v \notin run.off
    <3>1. db[v] = staticPatches[v] /\ (staticPatches[v] # None => staticPatches[v].active \in BOOLEAN)
      BY <1>3, <2>2 DEF StaticPatchFits, Static!PatchRow
    <3> HIDE DEF db
    <3> QED BY <1>3, <2>2, <3>1
  <2> QED BY <2>1, <2>2
<1>10. DOMAIN db = StaticVersions /\ db[ver] = mine
  BY <1>2
<1> HIDE DEF db
<1>11. StaticPatchesFit(db)
  <2> SUFFICES ASSUME NEW v \in StaticVersions PROVE db[v] = None \/ StaticPatchFits(db[v])
    BY <1>10 DEF StaticPatchesFit
  <2>1. CASE v = ver
    BY <1>8, <1>10, <2>1
  <2>2. CASE v # ver
    BY <1>9, <2>2
  <2> QED BY <2>1, <2>2
<1>12. /\ \A v \in StaticVersions : staticPatches[v] # None => db[v] # None
       /\ \A v \in StaticVersions : staticPatches[v] # None /\ StaticBig(staticPatches[v]) => StaticBig(db[v])
       /\ \A v \in StaticVersions \ {ver} : Static!ChampionsOf(db, v) = Static!ChampionsOf(staticPatches, v)
  <2>1. \A v \in StaticVersions : v = ver \/ v \in StaticVersions \ {ver}
    OBVIOUS
  <2>2. \A v \in StaticVersions : staticPatches[v] # None => db[v] # None
    BY <1>8, <1>9, <1>10, <2>1
  <2>3. \A v \in StaticVersions : staticPatches[v] # None /\ StaticBig(staticPatches[v]) => StaticBig(db[v])
    BY <1>8, <1>9, <1>10, <2>1 DEF StaticBig
  <2>4. \A v \in StaticVersions \ {ver} : Static!ChampionsOf(db, v) = Static!ChampionsOf(staticPatches, v)
    BY <1>9 DEF Static!ChampionsOf
  <2> QED BY <2>2, <2>3, <2>4
<1>13. StaticFits(new, db) /\ new.stage \in {"verify", "done"}
  <2>1. /\ DOMAIN kept = StaticRunFields /\ kept.stage = "verify" /\ kept.committed = TRUE
        /\ kept.input = run.input /\ kept.version = ver /\ kept.overlapped = run.overlapped
        /\ kept.counts = run.counts /\ kept.reported = run.reported /\ kept.result = run.result
    BY <1>1 DEF StaticFits, StaticRunTypes, StaticRunFields
  <2> HIDE DEF run, kept
  <2>2. StaticRunTypes(kept) /\ StaticContent(kept)
    BY <1>1, <1>2, <2>1 DEF StaticFits, StaticRunTypes, StaticContent, StaticStages, StaticWithFile, StaticWithRoster, StaticChecked
  <2>3. run.result = None /\ None \notin {"ok", "failed"} /\ ~run.input.dry
    BY <1>1 DEF StaticFits, StaticTold, Static!ConstantsAssumption, StaticWithFile, StaticWithRoster, StaticChecked
  <2>4. StaticTold(kept) /\ ~kept.reported
    BY <1>1, <2>1, <2>3 DEF StaticFits, StaticTold, StaticWithFile, StaticWithRoster, StaticChecked
  <2>5. StaticKnows(kept, db)
    BY <1>2, <1>8, <1>10, <2>1 DEF StaticKnows
  <2>6. StaticFits(kept, db)
    BY <2>2, <2>4, <2>5 DEF StaticFits
  <2>7. StaticFits(Static!Ended(kept, "failed"), db) /\ Static!Ended(kept, "failed").stage = "done"
    BY <2>4, <2>6, StaticEndedFits
  <2> QED BY <2>1, <2>6, <2>7
<1> HIDE DEF new
<1>14. DOMAIN staticRuns' = StaticRuns /\ staticRuns'[r] = new /\ \A q \in StaticRuns : q # r => staticRuns'[q] = staticRuns[q]
  BY <1>1 DEF StaticIInv
<1>15. \A q \in StaticRuns : staticRuns'[q] = None \/ StaticFits(staticRuns'[q], db)
  <2> SUFFICES ASSUME NEW q \in StaticRuns, q # r, staticRuns[q] # None PROVE StaticFits(staticRuns[q], db)
    BY <1>13, <1>14
  <2> QED BY <1>1, <1>12, StaticOthersKnow
<1>16. StaticExclude'
  <2> SUFFICES ASSUME NEW p \in StaticRuns, NEW q \in StaticRuns, p # q, Static!At(p, Static!InTransaction)', Static!At(q, Static!InTransaction)'
               PROVE  staticRuns'[p].version # staticRuns'[q].version /\ staticRuns'[p].overlapped
    BY DEF StaticExclude
  <2>1. p # r /\ q # r
    BY <1>13, <1>14 DEF Static!At, Static!InTransaction
  <2>2. Static!At(p, Static!InTransaction) /\ Static!At(q, Static!InTransaction) /\ staticRuns'[p] = staticRuns[p] /\ staticRuns'[q] = staticRuns[q]
    BY <1>14, <2>1 DEF Static!At
  <2> QED BY <2>2 DEF StaticIInv, StaticExclude
<1>17. staticAlone' => Cardinality(StaticActive(db)) = 1
  <2> SUFFICES ASSUME ~run.overlapped PROVE Cardinality(StaticActive(db)) = 1
    BY <1>1
  <2>1. ver \in StaticActive(db)
    BY <1>2, <1>7, <1>8, <1>10 DEF StaticActive
  <2>2. ASSUME NEW v \in StaticActive(db), v # ver PROVE FALSE
    <3>1. v \in StaticVersions \ {ver} /\ db[v] # None /\ db[v].active
      BY <2>2 DEF StaticActive
    <3>2. staticPatches[v] # None /\ staticPatches[v].active /\ v \notin run.off
      BY <1>9, <3>1
    <3> QED BY <1>2, <3>1, <3>2 DEF Static!OtherActive
  <2>3. StaticActive(db) = {ver}
    BY <2>1, <2>2
  <2> QED BY <2>3, FS_Singleton
<1> QED BY <1>1, <1>11, <1>14, <1>15, <1>16, <1>17 DEF StaticIInv

LEMMA StaticCommitBuildStep == ASSUME StaticIInv, Static!ConstantsAssumption, NEW r \in StaticRuns, NEW answered \in BOOLEAN, Static!CommitBuild(r, answered)
                         PROVE  StaticIInv'
<1> DEFINE run == staticRuns[r]
           ver == run.version
           own == IF staticPatches[ver] = None THEN Static!EmptyPatch ELSE staticPatches[ver]
           mine == [own EXCEPT !.build = @ \cup run.build]
           db == [staticPatches EXCEPT ![ver] = mine]
           kept == [run EXCEPT !.committed = TRUE]
           result == IF answered THEN "ok" ELSE "failed"
           new == Static!Ended(kept, result)
<1>1. /\ StaticFits(run, staticPatches) /\ run.stage = "upserted" /\ run.input.kind = "build" /\ Static!At(r, Static!InTransaction)
      /\ staticPatches' = db /\ staticRuns' = [staticRuns EXCEPT ![r] = new] /\ UNCHANGED staticAlone
  BY DEF Static!CommitBuild, Static!At, StaticIInv, Static!Go, Static!InTransaction
<1>2. ver \in StaticVersions /\ run.build \subseteq {"item", "spell", "rune"} \X Static!BuildNumbers /\ DOMAIN staticPatches = StaticVersions
  BY <1>1 DEF StaticFits, StaticRunTypes, StaticContent, StaticWithFile, StaticWithRoster, StaticChecked, StaticIInv, StaticPatchesFit
<1>3. Static!PatchRow \cap {None} = {} /\ \A v \in StaticVersions : staticPatches[v] # None => StaticPatchFits(staticPatches[v])
  BY DEF Static!ConstantsAssumption, StaticIInv, StaticPatchesFit
<1>4. StaticPatchFits(own) /\ own.champions = Static!ChampionsOf(staticPatches, ver)
      /\ own.active = (staticPatches[ver] # None /\ staticPatches[ver].active)
  <2>1. CASE staticPatches[ver] = None
    <3>1. <<>> \in Static!Rosters /\ DOMAIN <<>> = {}
      <4>1. <<>> \in [{} -> [key : Static!AssetKeys, abilities : {"short", "full"}]]
        OBVIOUS
      <4> QED BY <4>1 DEF Static!Rosters
    <3>2. own = Static!EmptyPatch /\ Static!ChampionsOf(staticPatches, ver) = <<>>
      BY <2>1 DEF Static!ChampionsOf
    <3>3. IsFiniteSet({})
      BY FS_EmptySet
    <3>4. own \in Static!PatchRow /\ own.champions = <<>> /\ own.active = FALSE
      <4> DEFINE nobody == <<>>
      <4>1. own = [active |-> FALSE, status |-> "READY", champions |-> nobody, build |-> {}]
        BY <3>2 DEF Static!EmptyPatch
      <4>2. nobody \in Static!Rosters
        BY <3>1
      <4> HIDE DEF nobody, own
      <4>3. own \in Static!PatchRow /\ own.champions = nobody /\ own.active = FALSE
        BY <4>1, <4>2 DEF Static!PatchRow
      <4> QED BY <4>3 DEF nobody
    <3>5. StaticApart(<<>>) /\ IsFiniteSet(DOMAIN <<>>)
      BY <3>1, <3>3 DEF StaticApart
    <3> QED BY <2>1, <3>2, <3>4, <3>5 DEF StaticPatchFits
  <2>2. CASE staticPatches[ver] # None
    <3>1. own = staticPatches[ver] /\ Static!ChampionsOf(staticPatches, ver) = own.champions
      BY <2>2 DEF Static!ChampionsOf
    <3>2. StaticPatchFits(own) /\ own.active \in BOOLEAN
      BY <1>2, <1>3, <2>2, <3>1 DEF StaticPatchFits, Static!PatchRow
    <3> QED BY <2>2, <3>1, <3>2
  <2> QED BY <2>1, <2>2
<1> HIDE DEF own
<1>5. StaticPatchFits(mine) /\ mine.champions = own.champions /\ mine.active = own.active /\ mine # None
  <2>1. mine \in Static!PatchRow /\ mine.champions = own.champions /\ mine.active = own.active
    BY <1>2, <1>4 DEF StaticPatchFits, Static!PatchRow
  <2> HIDE DEF mine
  <2> QED BY <1>3, <1>4, <2>1 DEF StaticPatchFits, StaticBig
<1> HIDE DEF mine
<1>6. DOMAIN db = StaticVersions /\ db[ver] = mine /\ \A v \in StaticVersions : v # ver => db[v] = staticPatches[v]
  BY <1>2
<1> HIDE DEF db
<1>7. StaticPatchesFit(db)
  BY <1>5, <1>6 DEF StaticIInv, StaticPatchesFit
<1>8. \A v \in StaticVersions : Static!ChampionsOf(db, v) = Static!ChampionsOf(staticPatches, v)
  BY <1>4, <1>5, <1>6 DEF Static!ChampionsOf
<1>9. /\ \A v \in StaticVersions : staticPatches[v] # None => db[v] # None
      /\ \A v \in StaticVersions : staticPatches[v] # None /\ StaticBig(staticPatches[v]) => StaticBig(db[v])
  <2>1. ASSUME NEW v \in StaticVersions, staticPatches[v] # None PROVE db[v] # None /\ (StaticBig(staticPatches[v]) => StaticBig(db[v]))
    <3>1. db[v] # None
      BY <1>5, <1>6, <2>1
    <3>2. db[v].champions = staticPatches[v].champions
      BY <1>8, <2>1, <3>1 DEF Static!ChampionsOf
    <3> QED BY <3>1, <3>2 DEF StaticBig
  <2> QED BY <2>1
<1>10. StaticActive(db) = StaticActive(staticPatches)
  BY <1>4, <1>5, <1>6 DEF StaticActive
<1>11. StaticFits(new, db) /\ new.stage = "done"
  <2>1. /\ DOMAIN kept = StaticRunFields /\ kept.stage = "upserted" /\ kept.committed = TRUE
        /\ kept.input = run.input /\ kept.version = ver /\ kept.overlapped = run.overlapped
        /\ kept.counts = run.counts /\ kept.reported = run.reported /\ kept.result = run.result
    BY <1>1 DEF StaticFits, StaticRunTypes, StaticRunFields
  <2>2. /\ DOMAIN new = StaticRunFields /\ new.stage = "done" /\ new.result = result
        /\ new.input = run.input /\ new.version = ver /\ new.overlapped = run.overlapped
        /\ new.committed = TRUE /\ new.counts = run.counts /\ new.reported = run.reported
    <3> HIDE DEF kept
    <3> QED BY <2>1 DEF Static!Ended, StaticRunFields
  <2>6. result \in {"ok", "failed"}
    OBVIOUS
  <2> HIDE DEF run, kept, new, result
  <2>3. StaticRunTypes(new) /\ StaticContent(new)
    BY <1>1, <1>2, <2>2 DEF StaticFits, StaticRunTypes, StaticContent, StaticStages, StaticWithFile, StaticWithRoster, StaticChecked
  <2>4. StaticTold(new)
    BY <1>1, <2>2, <2>6 DEF StaticFits, StaticTold, StaticWithFile, StaticWithRoster, StaticChecked
  <2>5. StaticKnows(new, db)
    BY <1>2, <1>5, <1>6, <2>2 DEF StaticKnows
  <2> QED BY <2>2, <2>3, <2>4, <2>5 DEF StaticFits
<1> HIDE DEF new
<1>12. DOMAIN staticRuns' = StaticRuns /\ staticRuns'[r] = new /\ \A q \in StaticRuns : q # r => staticRuns'[q] = staticRuns[q]
  BY <1>1 DEF StaticIInv
<1>13. \A q \in StaticRuns : staticRuns'[q] = None \/ StaticFits(staticRuns'[q], db)
  <2> SUFFICES ASSUME NEW q \in StaticRuns, q # r, staticRuns[q] # None PROVE StaticFits(staticRuns[q], db)
    BY <1>11, <1>12
  <2> QED BY <1>1, <1>8, <1>9, StaticOthersKnow
<1>14. StaticExclude'
  <2> SUFFICES ASSUME NEW p \in StaticRuns, NEW q \in StaticRuns, p # q, Static!At(p, Static!InTransaction)', Static!At(q, Static!InTransaction)'
               PROVE  staticRuns'[p].version # staticRuns'[q].version /\ staticRuns'[p].overlapped
    BY DEF StaticExclude
  <2>1. p # r /\ q # r
    BY <1>11, <1>12 DEF Static!At, Static!InTransaction
  <2>2. Static!At(p, Static!InTransaction) /\ Static!At(q, Static!InTransaction) /\ staticRuns'[p] = staticRuns[p] /\ staticRuns'[q] = staticRuns[q]
    BY <1>12, <2>1 DEF Static!At
  <2> QED BY <2>2 DEF StaticIInv, StaticExclude
<1>15. staticAlone' => Cardinality(StaticActive(db)) = 1
  BY <1>1, <1>10 DEF StaticIInv
<1> QED BY <1>1, <1>7, <1>12, <1>13, <1>14, <1>15 DEF StaticIInv

-----------------------------------------------------------------------------
LEMMA StaticInitIInv == ASSUME Static!Init, Static!ConstantsAssumption PROVE StaticIInv
<1>1. PICK file \in StaticChampionFiles, synced \in SUBSET StaticVersions :
        /\ Static!FileParses(file) /\ Len(file) >= StaticMinChampions
        /\ \A i, j \in DOMAIN file : i # j => file[i].id # file[j].id /\ file[i].key # file[j].key
        /\ staticPatches = [v \in StaticVersions |->
              IF v \in synced
              THEN [Static!EmptyPatch EXCEPT !.active = TRUE, !.champions = Static!Roster(file, <<>>)]
              ELSE None]
  BY DEF Static!Init
<1> DEFINE roster == Static!Roster(file, <<>>)
           row == [Static!EmptyPatch EXCEPT !.active = TRUE, !.champions = roster]
<1>2. StaticIsRosterOf(roster, file)
  BY StaticRosterFacts
<1> HIDE DEF roster
<1>3. row \in Static!PatchRow /\ row.champions = roster /\ row.active = TRUE
  BY <1>2 DEF Static!EmptyPatch, Static!PatchRow, StaticIsRosterOf
<1>4. DOMAIN file = 1..Len(file) /\ Len(file) \in Nat
  BY StaticFileFacts
<1>5. IsFiniteSet(DOMAIN roster) /\ Cardinality(DOMAIN roster) = Len(file)
  <2>1. \A i, j \in DOMAIN file : i < j => file[i].id # file[j].id
    BY <1>1, <1>4
  <2> QED BY <1>2, <2>1, StaticFileCounts DEF StaticIsRosterOf
<1>6. StaticApart(roster)
  <2> SUFFICES ASSUME NEW c \in DOMAIN roster, NEW d \in DOMAIN roster, c # d PROVE roster[c].key # roster[d].key
    BY DEF StaticApart
  <2>1. PICK i \in DOMAIN file : file[i].id = c /\ roster[c].key = file[i].key
    BY <1>2 DEF StaticIsRosterOf
  <2>2. PICK j \in DOMAIN file : file[j].id = d /\ roster[d].key = file[j].key
    BY <1>2 DEF StaticIsRosterOf
  <2> QED BY <1>1, <2>1, <2>2
<1> HIDE DEF row
<1>7. StaticPatchFits(row)
  BY <1>1, <1>3, <1>5, <1>6 DEF StaticPatchFits, StaticBig
<1>8. StaticPatchesFit(staticPatches)
  BY <1>1, <1>7 DEF StaticPatchesFit, row, roster
<1>9. staticRuns = [r \in StaticRuns |-> None] /\ staticAlone = FALSE
  BY DEF Static!Init
<1> QED BY <1>8, <1>9 DEF StaticIInv, StaticExclude, Static!At

LEMMA StaticNextIInv == ASSUME StaticIInv, Static!ConstantsAssumption, [Static!Next]_(Static!vars) PROVE StaticIInv'
<1>1. CASE UNCHANGED Static!vars
  BY <1>1 DEF Static!vars, StaticIInv, StaticExclude, Static!At
<1>2. ASSUME NEW r \in StaticRuns, NEW input \in StaticInputs, Static!Start(r, input) PROVE StaticIInv'
  BY <1>2, StaticStartStep
<1>3. ASSUME NEW r \in StaticRuns, NEW request, NEW retryable \in BOOLEAN,
             Static!RequestFails(r, retryable) \/ Static!BuildRequestFails(r, request, retryable)
      PROVE  StaticIInv'
  BY <1>3, StaticRequestStep
<1>4. ASSUME NEW r \in StaticRuns, NEW v \in StaticVersions, Static!ResolveVersion(r, v) PROVE StaticIInv'
  BY <1>4, StaticFetchSteps
<1>5. ASSUME NEW r \in StaticRuns, NEW file \in StaticChampionFiles, Static!FetchChampions(r, file) \/ Static!Overlay(r, file) PROVE StaticIInv'
  BY <1>5, StaticFetchSteps
<1>6. ASSUME NEW r \in StaticRuns, NEW file \in StaticBuildFiles, Static!FetchBuild(r, file) PROVE StaticIInv'
  BY <1>6, StaticFetchBuildStep
<1>7. ASSUME NEW r \in StaticRuns, NEW reordered, Static!Check(r, reordered) PROVE StaticIInv'
  BY <1>7, StaticCheckStep
<1>8. ASSUME NEW r \in StaticRuns, Static!UpsertPatch(r) PROVE StaticIInv'
  BY <1>8, StaticUpsertStep
<1>9. ASSUME NEW r \in StaticRuns, Static!AimAtOthers(r) \/ Static!DeactivateOthers(r) PROVE StaticIInv'
  BY <1>9, StaticAimSteps
<1>10. ASSUME NEW r \in StaticRuns, NEW answered \in BOOLEAN, Static!Commit(r, answered) PROVE StaticIInv'
  BY <1>10, StaticCommitStep
<1>11. ASSUME NEW r \in StaticRuns, NEW answered \in BOOLEAN, Static!CommitBuild(r, answered) PROVE StaticIInv'
  BY <1>11, StaticCommitBuildStep
<1>12. ASSUME NEW r \in StaticRuns, Static!RollBack(r) \/ Static!Crash(r) \/ \E readFails \in BOOLEAN : Static!Verify(r, readFails) PROVE StaticIInv'
  BY <1>12, StaticEndSteps
<1> QED BY <1>1, <1>2, <1>3, <1>4, <1>5, <1>6, <1>7, <1>8, <1>9, <1>10, <1>11, <1>12 DEF Static!Next

LEMMA StaticIInvSuffices == ASSUME StaticIInv PROVE Static!StaticDataIsSound
<1>1. Static!ActivePatchesAreWhole
  BY StaticSameCardinality DEF StaticIInv, StaticPatchesFit, StaticPatchFits, StaticBig, StaticApart, Static!ActivePatchesAreWhole
<1>2. Static!LoneSyncsLeaveOneActive
  BY StaticSameCardinality DEF StaticIInv, StaticActive, Static!LoneSyncsLeaveOneActive
<1>3. Static!SyncsTellTheTruth
  BY DEF StaticIInv, StaticFits, StaticTold, StaticKnows, Static!SyncsTellTheTruth
<1> QED BY <1>1, <1>2, <1>3 DEF Static!StaticDataIsSound

\* Whatever the runs fetch, where they fail and how their transactions
\* overlap, what they rely on holds.
THEOREM StaticInductive == ASSUME Static!ConstantsAssumption PROVE Static!Spec => []StaticIInv
<1>1. Static!Init => StaticIInv
  BY StaticInitIInv
<1>2. StaticIInv /\ [Static!Next]_(Static!vars) => StaticIInv'
  BY StaticNextIInv
<1> QED BY <1>1, <1>2, PTL DEF Static!Spec

\* The patch that readers take is whole, a sync that none overlapped leaves
\* one active, and a run reports what it did (sync-champion-static-core.ts).
THEOREM StaticSound == ASSUME Static!ConstantsAssumption PROVE Static!Spec => []Static!StaticDataIsSound
<1>1. StaticIInv => Static!StaticDataIsSound
  BY StaticIInvSuffices
<1> QED BY <1>1, StaticInductive, PTL

HIDE DEF staticPatches, staticRuns, staticStarted, staticAlone

-----------------------------------------------------------------------------
(***************************************************************************)
(* The page of a champion.                                                 *)
(***************************************************************************)
USE DEF detailRoute, detailUrl, detailFilters, detailReady, detailNotFound,
        detailChampion, detailGeneration, detailStatsId, detailStats,
        detailStatsPending, detailTab, detailPanel, detailNavigation,
        detailCalls, detailActions

-----------------------------------------------------------------------------
LEMMA DetailCallFacts ==
  ASSUME DetailTypes, NEW c \in detailCalls
  PROVE  /\ c \in DetailCallType /\ c.step \in {"filters", "metadata", "sync", "stats"} \cup Detail!Panels
         /\ c.generation \in Nat /\ c.id \in Nat
         /\ c.key \in DetailKeys \cup {None} /\ c.filters \in DetailFilters \cup {None}
BY DEF DetailTypes, DetailCallType

LEMMA DetailNewCall ==
  ASSUME DetailTypes, NEW step \in {"filters", "metadata", "sync", "stats"} \cup Detail!Panels, NEW id \in Nat,
         NEW key \in DetailKeys \cup {None}, NEW f \in DetailFilters \cup {None}
  PROVE  DetailIsCallOf(Detail!Call(step, id, key, f), step, id, key, f)
<1> DEFINE c == Detail!Call(step, id, key, f)
<1>1. /\ c = [step |-> step, generation |-> detailGeneration, id |-> id, key |-> key, filters |-> f]
      /\ detailGeneration \in Nat
  BY DEF DetailTypes, Detail!Call
<1> HIDE DEF c
<1>2. c.step = step /\ c.generation = detailGeneration /\ c.id = id /\ c.key = key /\ c.filters = f
  BY <1>1
<1>3. c \in DetailCallType
  BY <1>1 DEF DetailCallType
<1> QED BY <1>2, <1>3 DEF c, DetailIsCallOf, Detail!Current

LEMMA DetailOpenedFacts ==
  ASSUME DetailTypes, NEW p \in Detail!Panels, NEW key, NEW f, NEW clear
  PROVE  LET o == Detail!Opened(p, key, f, clear) IN
         o \in DetailPanelType /\ o.pending /\ o.id = detailPanel[p].id + 1 /\ o.id \in Nat /\ detailPanel[p].id \in Nat
<1>1. detailPanel[p] \in DetailPanelType
  BY DEF DetailTypes
<1>2. None \in DetailResponseType
  BY DEF DetailResponseType
<1> QED BY <1>1, <1>2 DEF Detail!Opened, DetailPanelType

LEMMA DetailWatchedFacts ==
  ASSUME DetailTypes, NEW f, NEW ch
  PROVE  /\ Detail!Watched(f, ch) \in [Detail!Panels -> DetailPanelType]
         /\ \A p \in Detail!Panels :
              /\ detailPanel[p].id \in Nat /\ Detail!Watched(f, ch)[p].id \in Nat /\ detailPanel[p].id <= Detail!Watched(f, ch)[p].id
              /\ Detail!Wanted(p, f, ch, detailTab) => /\ Detail!Watched(f, ch)[p].pending
                                                       /\ Detail!Watched(f, ch)[p].id = detailPanel[p].id + 1
<1>1. ASSUME NEW p \in Detail!Panels
      PROVE  /\ Detail!Watched(f, ch)[p] \in DetailPanelType /\ detailPanel[p].id \in Nat /\ Detail!Watched(f, ch)[p].id \in Nat
             /\ detailPanel[p].id <= Detail!Watched(f, ch)[p].id
             /\ Detail!Wanted(p, f, ch, detailTab) => /\ Detail!Watched(f, ch)[p].pending
                                                      /\ Detail!Watched(f, ch)[p].id = detailPanel[p].id + 1
  <2>1. detailPanel[p] \in DetailPanelType /\ detailPanel[p].id \in Nat /\ None \in DetailResponseType
    BY DEF DetailTypes, DetailPanelType, DetailResponseType
  <2>2. CASE Detail!Wanted(p, f, ch, detailTab)
    <3>1. Detail!Watched(f, ch)[p] = Detail!Opened(p, ch, f, p # "insights")
      BY <2>2 DEF Detail!Watched
    <3> QED BY <2>1, <2>2, <3>1, DetailOpenedFacts
  <2>3. CASE ~Detail!Wanted(p, f, ch, detailTab) /\ p = "insights"
    <3>1. Detail!Watched(f, ch)[p] = [response |-> None, pending |-> FALSE, id |-> detailPanel[p].id + 1]
      BY <2>3 DEF Detail!Watched
    <3> QED BY <2>1, <2>3, <3>1 DEF DetailPanelType
  <2>4. CASE ~Detail!Wanted(p, f, ch, detailTab) /\ p # "insights"
    <3>1. Detail!Watched(f, ch)[p] = [detailPanel[p] EXCEPT !.response = None]
      BY <2>4 DEF Detail!Watched
    <3> QED BY <2>1, <2>4, <3>1 DEF DetailPanelType
  <2> QED BY <2>2, <2>3, <2>4
<1>2. Detail!Watched(f, ch) = [p \in Detail!Panels |-> Detail!Watched(f, ch)[p]]
  BY DEF Detail!Watched
<1> QED BY <1>1, <1>2

(* The watcher asks for what is wanted; nothing older is taken for it.     *)
LEMMA DetailWatchedFollows ==
  ASSUME DetailIInv, NEW f \in DetailFilters \cup {None}, NEW ch \in DetailKeys \cup {None},
         detailFilters' = f, detailChampion' = ch, detailTab' = detailTab, detailGeneration' = detailGeneration, detailPanel' = Detail!Watched(f, ch),
         \A c \in detailCalls' : c.step \in Detail!Panels => c \in detailCalls \/ c \in Detail!PanelCalls(f, ch),
         Detail!PanelCalls(f, ch) \subseteq detailCalls'
  PROVE  DetailPanelsFollow'
<1> SUFFICES ASSUME NEW p \in Detail!Panels
             PROVE  /\ \A c \in detailCalls' : c.step = p => c.id <= detailPanel'[p].id
                    /\ Detail!Wanted(p, f, ch, detailTab) =>
                         /\ \A c \in detailCalls' : c.step = p /\ c.id = detailPanel'[p].id =>
                              c.generation = detailGeneration /\ c.key = ch /\ c.filters = f
                         /\ detailPanel'[p].pending /\ \E c \in detailCalls' : c.step = p /\ c.id = detailPanel'[p].id
  BY DEF DetailPanelsFollow, Detail!Current, Detail!Wanted
<1>1. /\ detailPanel[p].id \in Nat /\ detailPanel'[p].id \in Nat /\ detailPanel[p].id <= detailPanel'[p].id
      /\ Detail!Wanted(p, f, ch, detailTab) => detailPanel'[p].pending /\ detailPanel'[p].id = detailPanel[p].id + 1
  BY DetailWatchedFacts DEF DetailIInv
<1>2. \A c \in detailCalls : c.step = p => c.id \in Nat /\ c.id <= detailPanel[p].id
  BY DetailCallFacts DEF DetailIInv, DetailPanelsFollow
<1>3. \A c \in Detail!PanelCalls(f, ch) : c.step = p => /\ Detail!Wanted(p, f, ch, detailTab) /\ c.id = detailPanel[p].id + 1
                                                        /\ c.generation = detailGeneration /\ c.key = ch /\ c.filters = f
  BY DEF Detail!PanelCalls
<1>4. \A c \in detailCalls' : c.step = p => c \in detailCalls \/ c \in Detail!PanelCalls(f, ch)
  OBVIOUS
<1>5. \A c \in detailCalls' : c.step = p => c.id <= detailPanel'[p].id
  BY <1>1, <1>2, <1>3, <1>4
<1>6. ASSUME Detail!Wanted(p, f, ch, detailTab)
      PROVE  /\ \A c \in detailCalls' : c.step = p /\ c.id = detailPanel'[p].id =>
                  c.generation = detailGeneration /\ c.key = ch /\ c.filters = f
             /\ detailPanel'[p].pending /\ \E c \in detailCalls' : c.step = p /\ c.id = detailPanel'[p].id
  <2>1. \A c \in detailCalls' : c.step = p /\ c.id = detailPanel'[p].id =>
          c.generation = detailGeneration /\ c.key = ch /\ c.filters = f
    BY <1>1, <1>2, <1>3, <1>4, <1>6
  <2> DEFINE c == [step |-> p, generation |-> detailGeneration, id |-> detailPanel[p].id + 1, key |-> ch, filters |-> f]
  <2>2. c \in Detail!PanelCalls(f, ch)
    BY <1>6 DEF Detail!PanelCalls
  <2> QED BY <1>1, <1>6, <2>1, <2>2
<1> QED BY <1>5, <1>6

LEMMA DetailPanelCallsTyped ==
  ASSUME DetailTypes, NEW f \in DetailFilters \cup {None}, NEW ch \in DetailKeys \cup {None}
  PROVE  /\ Detail!PanelCalls(f, ch) \subseteq DetailCallType
         /\ \A c \in Detail!PanelCalls(f, ch) : c.step \in Detail!Panels /\ c.generation = detailGeneration
<1> SUFFICES ASSUME NEW p \in Detail!Panels
             PROVE  LET c == [step |-> p, generation |-> detailGeneration, id |-> detailPanel[p].id + 1,
                              key |-> ch, filters |-> f] IN
                    c \in DetailCallType /\ c.step \in Detail!Panels /\ c.generation = detailGeneration
  BY DEF Detail!PanelCalls
<1>1. detailPanel[p].id + 1 \in Nat /\ detailGeneration \in Nat
  BY DetailOpenedFacts DEF DetailTypes, DetailPanelType
<1> QED BY <1>1 DEF DetailCallType

(* Steps that leave the panels and their calls alone.                      *)
LEMMA DetailPanelsStay ==
  ASSUME DetailIInv, UNCHANGED <<detailPanel, detailChampion, detailFilters, detailTab, detailGeneration>>,
         \A c \in detailCalls' : c.step \in Detail!Panels => c \in detailCalls,
         \A c \in detailCalls : c.step \in Detail!Panels => c \in detailCalls'
  PROVE  DetailPanelsFollow'
BY DEF DetailIInv, DetailPanelsFollow, Detail!Wanted, Detail!Current

-----------------------------------------------------------------------------
(* The panels.                                                             *)

LEMMA DetailOthersFollow ==
  ASSUME DetailIInv, UNCHANGED <<detailRoute, detailUrl, detailFilters, detailReady, detailNotFound, detailChampion, detailGeneration, detailStatsId, detailStats,
                           detailStatsPending, detailNavigation>>,
         \A c \in detailCalls' : c.step \notin Detail!Panels => c \in detailCalls,
         \A c \in detailCalls : c.step \notin Detail!Panels => c \in detailCalls',
         \A c \in detailCalls' : c.generation <= detailGeneration
  PROVE  DetailLoading' /\ DetailUrlFollows' /\ DetailStatsFollow'
<1>1. \A step \in {"filters", "metadata", "sync", "stats"} : step \notin Detail!Panels
  BY DEF Detail!Panels
<1>2. DetailLoading'
  BY <1>1 DEF DetailIInv, DetailLoading, Detail!Current
<1>3. DetailUrlFollows'
  BY <1>1 DEF DetailIInv, DetailUrlFollows, Detail!Current
<1>4. DetailStatsFollow'
  BY <1>1 DEF DetailIInv, DetailStatsFollow, Detail!Current, DetailShown
<1> QED BY <1>2, <1>3, <1>4

LEMMA DetailPanelArrivesStep ==
  ASSUME DetailIInv, NEW c \in detailCalls, Detail!PanelArrives(c)
  PROVE  DetailIInv'
<1>1. /\ c.step \in Detail!Panels /\ detailCalls' = detailCalls \ {c} /\ c \in DetailCallType
      /\ UNCHANGED <<detailRoute, detailUrl, detailFilters, detailReady, detailNotFound, detailChampion, detailGeneration, detailStatsId, detailStats,
                     detailStatsPending, detailNavigation, detailTab, detailActions>>
  BY DetailCallFacts DEF Detail!PanelArrives, Detail!headVars, Detail!statsVars, DetailIInv
<1>2. DetailLoading' /\ DetailUrlFollows' /\ DetailStatsFollow'
  BY <1>1, DetailOthersFollow DEF DetailIInv, DetailLoading
<1> DEFINE p == c.step
<1>3. CASE ~Detail!PanelLatest(c)
  <2>1. detailPanel' = detailPanel
    BY <1>3 DEF Detail!PanelArrives
  <2>2. DetailTypes'
    BY <1>1, <2>1 DEF DetailIInv, DetailTypes
  <2>3. DetailPanelsFollow'
    BY <1>1, <1>3, <2>1 DEF DetailIInv, DetailPanelsFollow, Detail!PanelLatest, Detail!Wanted, Detail!Current
  <2> QED BY <1>2, <2>2, <2>3 DEF DetailIInv
<1>4. CASE Detail!PanelLatest(c)
  <2>1. PICK response \in {None, [key |-> c.key, filters |-> c.filters]} :
          detailPanel' = [detailPanel EXCEPT ![p].response = response, ![p].pending = FALSE]
    BY <1>4 DEF Detail!PanelArrives
  <2>2. detailPanel \in [Detail!Panels -> DetailPanelType] /\ response \in DetailResponseType
    BY <1>1 DEF DetailIInv, DetailTypes, DetailCallType, DetailResponseType
  <2>3. /\ detailPanel' \in [Detail!Panels -> DetailPanelType] /\ ~detailPanel'[p].pending /\ detailPanel'[p].response = response
        /\ detailPanel'[p].id = detailPanel[p].id /\ \A q \in Detail!Panels : q # p => detailPanel'[q] = detailPanel[q]
    BY <1>1, <2>1, <2>2 DEF DetailPanelType
  <2>4. DetailTypes'
    BY <1>1, <2>3 DEF DetailIInv, DetailTypes
  <2>5. DetailPanelsFollow'
    <3> SUFFICES ASSUME NEW q \in Detail!Panels
                 PROVE  /\ \A d \in detailCalls' : d.step = q => d.id <= detailPanel'[q].id
                        /\ Detail!Wanted(q, detailFilters, detailChampion, detailTab) =>
                             /\ \A d \in detailCalls' : d.step = q /\ d.id = detailPanel'[q].id =>
                                  Detail!Current(d) /\ d.key = detailChampion /\ d.filters = detailFilters
                             /\ IF detailPanel'[q].pending THEN \E d \in detailCalls' : d.step = q /\ d.id = detailPanel'[q].id
                                ELSE detailPanel'[q].response \in {None, [key |-> detailChampion, filters |-> detailFilters]}
      BY <1>1 DEF DetailPanelsFollow, Detail!Wanted, Detail!Current
    <3>1. CASE q = p
      BY <1>1, <1>4, <2>1, <2>3, <3>1 DEF DetailIInv, DetailPanelsFollow, Detail!PanelLatest
    <3>2. CASE q # p
      BY <1>1, <2>3, <3>2 DEF DetailIInv, DetailPanelsFollow
    <3> QED BY <3>1, <3>2
  <2> QED BY <1>2, <2>4, <2>5 DEF DetailIInv
<1> QED BY <1>3, <1>4

LEMMA DetailInsightPendingStep ==
  ASSUME DetailIInv, NEW c \in detailCalls, Detail!InsightPending(c)
  PROVE  DetailIInv'
<1> DEFINE p == "insights"
           again == [c EXCEPT !.key = detailChampion, !.filters = detailFilters]
<1>1. /\ c.step = p /\ p \in Detail!Panels /\ c \in DetailCallType /\ c.id = detailPanel[p].id
      /\ detailCalls' = (detailCalls \ {c}) \cup {again}
      /\ detailPanel' = [detailPanel EXCEPT ![p].response = [key |-> c.key, filters |-> c.filters]]
      /\ UNCHANGED <<detailRoute, detailUrl, detailFilters, detailReady, detailNotFound, detailChampion, detailGeneration, detailStatsId, detailStats,
                     detailStatsPending, detailNavigation, detailTab, detailActions>>
  BY DetailCallFacts DEF Detail!InsightPending, Detail!PanelLatest, Detail!Panels, Detail!headVars, Detail!statsVars, DetailIInv
<1>2. /\ again \in DetailCallType /\ again.step = p /\ again.id = c.id /\ again.generation = c.generation
      /\ again.key = detailChampion /\ again.filters = detailFilters
  BY <1>1 DEF DetailCallType, DetailIInv, DetailTypes
<1> HIDE DEF again
<1>3. DetailLoading' /\ DetailUrlFollows' /\ DetailStatsFollow'
  BY <1>1, <1>2, DetailOthersFollow DEF DetailIInv, DetailLoading
<1>4. /\ detailPanel' \in [Detail!Panels -> DetailPanelType] /\ detailPanel'[p].response = [key |-> c.key, filters |-> c.filters]
      /\ detailPanel'[p].id = detailPanel[p].id /\ detailPanel'[p].pending = detailPanel[p].pending
      /\ \A q \in Detail!Panels : q # p => detailPanel'[q] = detailPanel[q]
  <2>1. detailPanel \in [Detail!Panels -> DetailPanelType] /\ [key |-> c.key, filters |-> c.filters] \in DetailResponseType
    BY <1>1 DEF DetailIInv, DetailTypes, DetailCallType, DetailResponseType
  <2> QED BY <1>1, <2>1 DEF DetailPanelType
<1>5. DetailTypes'
  BY <1>1, <1>2, <1>4 DEF DetailIInv, DetailTypes
<1>6. DetailPanelsFollow'
  <2> SUFFICES ASSUME NEW q \in Detail!Panels
               PROVE  /\ \A d \in detailCalls' : d.step = q => d.id <= detailPanel'[q].id
                      /\ Detail!Wanted(q, detailFilters, detailChampion, detailTab) =>
                           /\ \A d \in detailCalls' : d.step = q /\ d.id = detailPanel'[q].id =>
                                Detail!Current(d) /\ d.key = detailChampion /\ d.filters = detailFilters
                           /\ IF detailPanel'[q].pending THEN \E d \in detailCalls' : d.step = q /\ d.id = detailPanel'[q].id
                              ELSE detailPanel'[q].response \in {None, [key |-> detailChampion, filters |-> detailFilters]}
    BY <1>1 DEF DetailPanelsFollow, Detail!Wanted, Detail!Current
  <2>1. CASE q = p
    <3>1. \A d \in detailCalls' : d.step = q => d.id <= detailPanel'[q].id
      BY <1>1, <1>2, <1>4, <2>1 DEF DetailIInv, DetailPanelsFollow
    <3>2. ASSUME Detail!Wanted(q, detailFilters, detailChampion, detailTab)
          PROVE  /\ Detail!Current(c) /\ c.key = detailChampion /\ c.filters = detailFilters
                 /\ \A d \in detailCalls : d.step = q /\ d.id = detailPanel[q].id =>
                      Detail!Current(d) /\ d.key = detailChampion /\ d.filters = detailFilters
      BY <1>1, <2>1, <3>2 DEF DetailIInv, DetailPanelsFollow
    <3>3. ASSUME Detail!Wanted(q, detailFilters, detailChampion, detailTab)
          PROVE  /\ \A d \in detailCalls' : d.step = q /\ d.id = detailPanel'[q].id =>
                      Detail!Current(d) /\ d.key = detailChampion /\ d.filters = detailFilters
                 /\ IF detailPanel'[q].pending THEN \E d \in detailCalls' : d.step = q /\ d.id = detailPanel'[q].id
                    ELSE detailPanel'[q].response \in {None, [key |-> detailChampion, filters |-> detailFilters]}
      BY <1>1, <1>2, <1>4, <2>1, <3>2, <3>3 DEF Detail!Current
    <3> QED BY <3>1, <3>3
  <2>2. CASE q # p
    <3>1. \A d \in detailCalls : d.step = q => d \in detailCalls'
      BY <1>1, <2>2
    <3>2. \A d \in detailCalls' : d.step = q => d \in detailCalls
      BY <1>1, <1>2, <2>2
    <3> QED BY <1>4, <2>2, <3>1, <3>2 DEF DetailIInv, DetailPanelsFollow
  <2> QED BY <2>1, <2>2
<1> QED BY <1>3, <1>5, <1>6 DEF DetailIInv

LEMMA DetailSelectTabStep ==
  ASSUME DetailIInv, NEW t \in Detail!Tabs, Detail!SelectTab(t)
  PROVE  DetailIInv'
<1>1. /\ detailActions' = detailActions + 1 /\ t # detailTab /\ detailChampion # None /\ detailTab' = t
      /\ UNCHANGED <<detailRoute, detailUrl, detailFilters, detailReady, detailNotFound, detailChampion, detailGeneration, detailStatsId, detailStats,
                     detailStatsPending, detailNavigation>>
  BY DEF Detail!SelectTab, Detail!headVars, Detail!statsVars
<1>2. detailFilters \in DetailFilters \cup {None} /\ detailChampion \in DetailKeys \cup {None}
  BY DEF DetailIInv, DetailTypes
<1>3. CASE t \in Detail!Panels /\ Detail!Wanted(t, detailFilters, detailChampion, t)
  <2> DEFINE o == Detail!Opened(t, detailChampion, detailFilters, FALSE)
             call == Detail!Call(t, detailPanel[t].id + 1, detailChampion, detailFilters)
  <2>1. detailPanel' = [detailPanel EXCEPT ![t] = o] /\ detailCalls' = detailCalls \cup {call}
    BY <1>3 DEF Detail!SelectTab
  <2>2. o \in DetailPanelType /\ o.pending /\ o.id = detailPanel[t].id + 1 /\ o.id \in Nat /\ detailPanel[t].id \in Nat
    BY <1>3, DetailOpenedFacts DEF DetailIInv
  <2>3. /\ call \in DetailCallType /\ call.step = t /\ call.generation = detailGeneration
        /\ call.id = detailPanel[t].id + 1 /\ call.key = detailChampion /\ call.filters = detailFilters
    <3>1. t \in {"filters", "metadata", "sync", "stats"} \cup Detail!Panels /\ detailPanel[t].id + 1 \in Nat /\ DetailTypes
      BY <1>3, <2>2 DEF DetailIInv
    <3> HIDE DEF DetailIInv
    <3> QED BY <1>2, <3>1 DEF Detail!Call, DetailCallType, DetailTypes
  <2> HIDE DEF o, call
  <2>4. DetailTypes'
    <3>1. detailPanel' \in [Detail!Panels -> DetailPanelType] /\ detailCalls' \subseteq DetailCallType
      BY <2>1, <2>2, <2>3 DEF DetailIInv, DetailTypes
    <3> QED BY <1>1, <3>1 DEF DetailIInv, DetailTypes
  <2>5. DetailLoading' /\ DetailUrlFollows' /\ DetailStatsFollow'
    BY <1>1, <1>3, <2>1, <2>3, DetailOthersFollow DEF DetailIInv, DetailLoading, DetailTypes
  <2>6. DetailPanelsFollow'
    <3> SUFFICES ASSUME NEW q \in Detail!Panels
                 PROVE  /\ \A d \in detailCalls' : d.step = q => d.id <= detailPanel'[q].id
                        /\ Detail!Wanted(q, detailFilters, detailChampion, t) =>
                             /\ \A d \in detailCalls' : d.step = q /\ d.id = detailPanel'[q].id =>
                                  d.generation = detailGeneration /\ d.key = detailChampion /\ d.filters = detailFilters
                             /\ IF detailPanel'[q].pending THEN \E d \in detailCalls' : d.step = q /\ d.id = detailPanel'[q].id
                                ELSE detailPanel'[q].response \in {None, [key |-> detailChampion, filters |-> detailFilters]}
      BY <1>1 DEF DetailPanelsFollow, Detail!Wanted, Detail!Current
    <3>1. CASE q = t
      <4>1. detailPanel'[q] = o
        BY <2>1, <3>1 DEF DetailIInv, DetailTypes
      <4>2. \A d \in detailCalls : d.step = q => d.id \in Nat /\ d.id <= detailPanel[q].id
        BY DetailCallFacts DEF DetailIInv, DetailPanelsFollow
      <4> QED BY <2>1, <2>2, <2>3, <3>1, <4>1, <4>2
    <3>2. CASE q # t
      <4>1. detailPanel'[q] = detailPanel[q]
        BY <2>1, <3>2 DEF DetailIInv, DetailTypes
      <4>2. \A d \in detailCalls' : d.step = q => d \in detailCalls
        BY <2>1, <2>3, <3>2
      <4>3. Detail!Wanted(q, detailFilters, detailChampion, t) => Detail!Wanted(q, detailFilters, detailChampion, detailTab)
        BY <3>2 DEF Detail!Wanted
      <4>4. \A d \in detailCalls : d \in detailCalls'
        BY <2>1
      <4> QED BY <4>1, <4>2, <4>3, <4>4 DEF DetailIInv, DetailPanelsFollow, Detail!Current
    <3> QED BY <3>1, <3>2
  <2> QED BY <2>4, <2>5, <2>6 DEF DetailIInv
<1>4. CASE ~(t \in Detail!Panels /\ Detail!Wanted(t, detailFilters, detailChampion, t))
  <2>1. detailPanel' = detailPanel /\ detailCalls' = detailCalls
    BY <1>4 DEF Detail!SelectTab
  <2>2. DetailTypes'
    BY <1>1, <2>1 DEF DetailIInv, DetailTypes
  <2>3. DetailLoading' /\ DetailUrlFollows' /\ DetailStatsFollow'
    BY <1>1, <2>1, DetailOthersFollow DEF DetailIInv, DetailLoading
  <2>4. \A q \in Detail!Panels : Detail!Wanted(q, detailFilters, detailChampion, t) => Detail!Wanted(q, detailFilters, detailChampion, detailTab)
    BY <1>4 DEF Detail!Wanted
  <2>5. DetailPanelsFollow'
    BY <1>1, <2>1, <2>4 DEF DetailIInv, DetailPanelsFollow, Detail!Wanted, Detail!Current
  <2> QED BY <2>2, <2>3, <2>5 DEF DetailIInv
<1> QED BY <1>3, <1>4

-----------------------------------------------------------------------------
(* The controller.                                                         *)

LEMMA DetailFiltersArriveStep ==
  ASSUME DetailIInv, NEW c \in detailCalls, Detail!FiltersArrive(c)
  PROVE  DetailIInv'
<1>1. /\ c.step = "filters" /\ c \in DetailCallType
      /\ UNCHANGED <<detailRoute, detailUrl, detailNotFound, detailChampion, detailGeneration, detailStatsId, detailStats, detailStatsPending, detailNavigation, detailTab, detailActions>>
  BY DetailCallFacts DEF Detail!FiltersArrive, Detail!statsVars, DetailIInv
<1>2. "filters" \notin Detail!Panels /\ "metadata" \notin Detail!Panels
  BY DEF Detail!Panels
<1>3. CASE ~Detail!Current(c)
  <2>1. detailCalls' = detailCalls \ {c} /\ UNCHANGED <<detailFilters, detailReady, detailPanel>>
    BY <1>3 DEF Detail!FiltersArrive
  <2>2. DetailTypes' /\ DetailLoading'
    BY <1>1, <2>1 DEF DetailIInv, DetailTypes, DetailLoading, Detail!Current
  <2>3. DetailUrlFollows' /\ DetailStatsFollow'
    BY <1>1, <2>1 DEF DetailIInv, DetailUrlFollows, DetailStatsFollow, Detail!Current, DetailShown
  <2>4. DetailPanelsFollow'
    BY <1>1, <1>2, <2>1, DetailPanelsStay
  <2> QED BY <2>2, <2>3, <2>4 DEF DetailIInv
<1>4. CASE Detail!Current(c)
  <2> DEFINE call == Detail!Call("metadata", c.id, c.key, detailUrl)
  <2>1. /\ detailFilters' = detailUrl /\ detailReady' = TRUE /\ detailCalls' = (detailCalls \ {c}) \cup {call} /\ detailPanel' = Detail!Watched(detailUrl, detailChampion)
    BY <1>4 DEF Detail!FiltersArrive
  <2>2. c.id = 0 /\ c.key = detailRoute /\ c.filters = None /\ detailChampion = None /\ ~detailNotFound /\ ~detailReady
    BY <1>1, <1>4 DEF DetailIInv, DetailLoading
  <2>3. /\ call \in DetailCallType /\ call.step = "metadata" /\ call.generation = detailGeneration
        /\ call.id = 0 /\ call.key = detailRoute /\ call.filters = detailUrl
    <3>1. /\ DetailTypes /\ "metadata" \in {"filters", "metadata", "sync", "stats"} \cup Detail!Panels
          /\ c.id \in Nat /\ c.key \in DetailKeys \cup {None} /\ detailUrl \in DetailFilters \cup {None}
      BY <1>1, <2>2 DEF DetailIInv, DetailTypes
    <3>2. DetailIsCallOf(call, "metadata", c.id, c.key, detailUrl)
      BY <3>1, DetailNewCall
    <3> QED BY <2>2, <3>2 DEF DetailIsCallOf
  <2> HIDE DEF call
  <2>4. detailUrl \in DetailFilters /\ detailUrl \in DetailFilters \cup {None} /\ detailChampion \in DetailKeys \cup {None}
    BY DEF DetailIInv, DetailTypes
  <2>5. DetailTypes'
    <3>1. detailPanel' \in [Detail!Panels -> DetailPanelType]
      BY <2>1, DetailWatchedFacts DEF DetailIInv
    <3> QED BY <1>1, <2>1, <2>3, <2>4, <3>1 DEF DetailIInv, DetailTypes
  <2>6. \A d \in detailCalls : d.generation = detailGeneration => d.step # "metadata" /\ (d.step = "filters" => d = c)
    <3> SUFFICES ASSUME NEW d \in detailCalls, d.generation = detailGeneration
                 PROVE  d.step # "metadata" /\ (d.step = "filters" => d = c)
      OBVIOUS
    <3>1. d.step # "metadata"
      BY <2>2 DEF DetailIInv, DetailLoading, Detail!Current
    <3>2. ASSUME d.step = "filters" PROVE d = c
      <4>1. d.id = 0 /\ d.key = detailRoute /\ d.filters = None /\ d \in DetailCallType
        BY <3>2 DEF DetailIInv, DetailTypes, DetailLoading, Detail!Current
      <4> QED BY <1>1, <1>4, <2>2, <3>2, <4>1 DEF DetailCallType, Detail!Current
    <3> QED BY <3>1, <3>2
  <2>7. DetailLoading'
    <3>1. \A d \in detailCalls' : d.generation <= detailGeneration
      BY <2>1, <2>3 DEF DetailIInv, DetailLoading, DetailTypes
    <3>2. ASSUME NEW d \in detailCalls', d.generation = detailGeneration
          PROVE  /\ d.step # "filters" /\ d.step # "sync"
                 /\ d.step = "metadata" => d.id = 0 /\ d.key = detailRoute /\ d.filters = detailUrl
      BY <2>1, <2>2, <2>3, <2>6, <3>2 DEF DetailIInv, DetailLoading, Detail!Current
    <3> QED BY <1>1, <2>1, <2>2, <2>4, <3>1, <3>2 DEF DetailLoading, Detail!Current
  <2>8. DetailUrlFollows'
    BY <1>1, <2>1, <2>2, <2>3 DEF DetailIInv, DetailUrlFollows
  <2>9. DetailStatsFollow'
    BY <1>1, <2>1, <2>2, <2>3 DEF DetailIInv, DetailStatsFollow
  <2>10. DetailPanelsFollow'
    <3>1. Detail!PanelCalls(detailUrl, detailChampion) = {}
      BY <2>2 DEF Detail!PanelCalls, Detail!Wanted
    <3>2. \A d \in detailCalls' : d.step \in Detail!Panels => d \in detailCalls
      BY <1>2, <2>1, <2>3
    <3> QED BY <1>1, <2>1, <2>4, <3>1, <3>2, DetailWatchedFollows
  <2> QED BY <2>5, <2>7, <2>8, <2>9, <2>10 DEF DetailIInv
<1> QED BY <1>3, <1>4

LEMMA DetailLoadFailsStep ==
  ASSUME DetailIInv, NEW c \in detailCalls, Detail!LoadFails(c)
  PROVE  DetailIInv'
<1>1. /\ c.step \in {"filters", "metadata"} /\ detailCalls' = detailCalls \ {c}
      /\ UNCHANGED <<detailRoute, detailUrl, detailFilters, detailNotFound, detailChampion, detailGeneration, detailStatsId, detailStats, detailStatsPending,
                     detailNavigation, detailTab, detailPanel, detailActions>>
  BY DEF Detail!LoadFails, Detail!statsVars
<1>2. "filters" \notin Detail!Panels /\ "metadata" \notin Detail!Panels
  BY DEF Detail!Panels
<1>3. detailReady' = detailReady
  <2>1. detailReady' = IF Detail!Current(c) /\ c.step = "filters" THEN FALSE ELSE detailReady
    BY DEF Detail!LoadFails
  <2> QED BY <2>1 DEF DetailIInv, DetailTypes, DetailLoading
<1>4. DetailTypes'
  BY <1>1, <1>3 DEF DetailIInv, DetailTypes
<1>7. DetailLoading'
  BY <1>1, <1>3 DEF DetailIInv, DetailLoading, Detail!Current
<1>5. DetailUrlFollows' /\ DetailStatsFollow'
  BY <1>1 DEF DetailIInv, DetailUrlFollows, DetailStatsFollow, Detail!Current, DetailShown
<1>6. DetailPanelsFollow'
  BY <1>1, <1>2, DetailPanelsStay
<1> QED BY <1>4, <1>5, <1>6, <1>7 DEF DetailIInv

LEMMA DetailMetadataArrivesStep ==
  ASSUME DetailIInv, None \notin DetailKeys, NEW c \in detailCalls, Detail!MetadataArrives(c)
  PROVE  DetailIInv'
<1>1. /\ c.step = "metadata" /\ c \in DetailCallType
      /\ UNCHANGED <<detailRoute, detailFilters, detailReady, detailGeneration, detailStatsId, detailStats, detailStatsPending, detailUrl, detailTab, detailActions>>
  BY DetailCallFacts DEF Detail!MetadataArrives, Detail!statsVars, DetailIInv
<1>2. "metadata" \notin Detail!Panels /\ "sync" \notin Detail!Panels
  BY DEF Detail!Panels
<1>3. PICK known \in BOOLEAN :
       IF ~Detail!Current(c)
       THEN detailCalls' = detailCalls \ {c} /\ UNCHANGED <<detailChampion, detailNotFound, detailNavigation, detailPanel>>
       ELSE IF known
       THEN /\ detailChampion' = c.key /\ detailNavigation' = detailNavigation + 1
            /\ detailCalls' = (detailCalls \ {c}) \cup {Detail!Call("sync", detailNavigation + 1, c.key, c.filters)}
                                     \cup Detail!PanelCalls(detailFilters, c.key)
            /\ detailPanel' = Detail!Watched(detailFilters, c.key) /\ detailNotFound' = detailNotFound
       ELSE /\ detailNotFound' = TRUE /\ detailCalls' = detailCalls \ {c} /\ UNCHANGED <<detailChampion, detailNavigation, detailPanel>>
  BY DEF Detail!MetadataArrives
<1>4. CASE ~Detail!Current(c)
  <2>1. detailCalls' = detailCalls \ {c} /\ UNCHANGED <<detailChampion, detailNotFound, detailNavigation, detailPanel>>
    BY <1>3, <1>4
  <2>2. DetailTypes' /\ DetailLoading'
    BY <1>1, <2>1 DEF DetailIInv, DetailTypes, DetailLoading, Detail!Current
  <2>3. DetailUrlFollows' /\ DetailStatsFollow'
    BY <1>1, <2>1 DEF DetailIInv, DetailUrlFollows, DetailStatsFollow, Detail!Current, DetailShown
  <2>4. DetailPanelsFollow'
    BY <1>1, <1>2, <2>1, DetailPanelsStay
  <2> QED BY <2>2, <2>3, <2>4 DEF DetailIInv
<1>5. ASSUME Detail!Current(c)
      PROVE  /\ c.generation = detailGeneration /\ c.id = 0 /\ c.key = detailRoute /\ c.filters = detailFilters
             /\ detailChampion = None /\ ~detailNotFound /\ detailReady /\ detailFilters \in DetailFilters /\ detailRoute \in DetailKeys
             /\ \A d \in detailCalls : d.generation = detailGeneration =>
                  d.step # "filters" /\ d.step # "sync" /\ (d.step = "metadata" => d = c)
  <2>1. /\ c.generation = detailGeneration /\ c.id = 0 /\ c.key = detailRoute /\ c.filters = detailFilters
        /\ detailChampion = None /\ ~detailNotFound /\ detailReady /\ detailFilters \in DetailFilters /\ detailRoute \in DetailKeys
    BY <1>1, <1>5 DEF DetailIInv, DetailTypes, DetailLoading, Detail!Current
  <2>2. ASSUME NEW d \in detailCalls, d.generation = detailGeneration
        PROVE  d.step # "filters" /\ d.step # "sync" /\ (d.step = "metadata" => d = c)
    <3>1. d.step # "filters" /\ d.step # "sync"
      BY <2>1, <2>2 DEF DetailIInv, DetailLoading, Detail!Current
    <3>2. ASSUME d.step = "metadata" PROVE d = c
      <4>1. d.id = 0 /\ d.key = detailRoute /\ d.filters = detailFilters /\ d \in DetailCallType
        BY <2>2, <3>2 DEF DetailIInv, DetailTypes, DetailLoading, Detail!Current
      <4> QED BY <1>1, <2>1, <2>2, <3>2, <4>1 DEF DetailCallType
    <3> QED BY <3>1, <3>2
  <2> QED BY <2>1, <2>2
<1>6. CASE Detail!Current(c) /\ known
  <2> DEFINE call == Detail!Call("sync", detailNavigation + 1, c.key, c.filters)
  <2>1. /\ detailChampion' = detailRoute /\ detailNavigation' = detailNavigation + 1 /\ detailNotFound' = detailNotFound
        /\ detailCalls' = (detailCalls \ {c}) \cup {call} \cup Detail!PanelCalls(detailFilters, detailRoute)
        /\ detailPanel' = Detail!Watched(detailFilters, detailRoute)
    BY <1>3, <1>5, <1>6
  <2>2. /\ call \in DetailCallType /\ call.step = "sync" /\ call.generation = detailGeneration
        /\ call.id = detailNavigation + 1 /\ call.key = detailRoute /\ call.filters = detailFilters
    <3>1. /\ DetailTypes /\ "sync" \in {"filters", "metadata", "sync", "stats"} \cup Detail!Panels
          /\ detailNavigation + 1 \in Nat /\ c.key \in DetailKeys \cup {None} /\ c.filters \in DetailFilters \cup {None}
      BY <1>5, <1>6 DEF DetailIInv, DetailTypes
    <3>2. DetailIsCallOf(call, "sync", detailNavigation + 1, c.key, c.filters)
      BY <3>1, DetailNewCall
    <3> QED BY <1>5, <1>6, <3>2 DEF DetailIsCallOf
  <2> HIDE DEF call
  <2>3. /\ detailFilters \in DetailFilters \cup {None} /\ detailRoute \in DetailKeys \cup {None} /\ detailRoute # None
        /\ detailNavigation \in Nat
    BY <1>5, <1>6 DEF DetailIInv, DetailTypes
  <2>4. /\ Detail!PanelCalls(detailFilters, detailRoute) \subseteq DetailCallType
        /\ \A d \in Detail!PanelCalls(detailFilters, detailRoute) : d.step \in Detail!Panels /\ d.generation = detailGeneration
    BY <2>3, DetailPanelCallsTyped DEF DetailIInv
  <2>5. DetailTypes'
    <3>1. detailPanel' \in [Detail!Panels -> DetailPanelType]
      BY <2>1, DetailWatchedFacts DEF DetailIInv
    <3>2. detailCalls' \subseteq DetailCallType
      BY <2>1, <2>2, <2>4 DEF DetailIInv, DetailTypes
    <3> QED BY <1>1, <2>1, <2>3, <3>1, <3>2 DEF DetailIInv, DetailTypes
  <2>6. \A d \in detailCalls' : d.step \notin Detail!Panels => d = call \/ (d \in detailCalls /\ d # c)
    BY <2>1, <2>4
  <2>7. DetailLoading'
    <3>1. \A d \in detailCalls' : d.generation <= detailGeneration
      BY <2>1, <2>2, <2>4 DEF DetailIInv, DetailLoading, DetailTypes
    <3>2. ASSUME NEW d \in detailCalls', d.generation = detailGeneration
          PROVE  d.step # "filters" /\ d.step # "metadata"
      <4>1. "filters" \notin Detail!Panels /\ "metadata" \notin Detail!Panels
        BY DEF Detail!Panels
      <4> QED BY <1>5, <1>6, <2>2, <2>6, <3>2, <4>1
    <3> QED BY <1>1, <1>5, <1>6, <2>1, <2>3, <3>1, <3>2 DEF DetailLoading, Detail!Current
  <2>8. DetailUrlFollows'
    <3>1. \A d \in detailCalls : d.step = "sync" => d.id \in Nat /\ d.id <= detailNavigation
      BY DetailCallFacts DEF DetailIInv, DetailUrlFollows
    <3>2. call \in detailCalls'
      BY <2>1
    <3>3. \A d \in detailCalls' : d.step = "sync" => d = call \/ d \in detailCalls
      BY <1>2, <2>6
    <3>4. \A d \in detailCalls' : d.step = "sync" =>
            d.id <= detailNavigation' /\ (d.id = detailNavigation' => d.generation = detailGeneration /\ d.filters = detailFilters)
      BY <2>1, <2>2, <2>3, <3>1, <3>3
    <3> QED BY <1>1, <2>1, <2>2, <2>3, <3>2, <3>4 DEF DetailUrlFollows, Detail!Current
  <2>9. DetailStatsFollow'
    <3>1. call \in detailCalls' /\ "stats" \notin Detail!Panels
      BY <2>1 DEF Detail!Panels
    <3>2. \A d \in detailCalls' : d.step = "stats" => d \in detailCalls
      BY <2>2, <2>6, <3>1
    <3> QED BY <1>1, <2>2, <3>1, <3>2 DEF DetailIInv, DetailStatsFollow, Detail!Current
  <2>10. DetailPanelsFollow'
    <3>1. \A d \in detailCalls' : d.step \in Detail!Panels => d \in detailCalls \/ d \in Detail!PanelCalls(detailFilters, detailRoute)
      BY <1>2, <2>1, <2>2
    <3> QED BY <1>1, <2>1, <2>3, <3>1, DetailWatchedFollows
  <2> QED BY <2>5, <2>7, <2>8, <2>9, <2>10 DEF DetailIInv
<1>7. CASE Detail!Current(c) /\ ~known
  <2>1. detailNotFound' = TRUE /\ detailCalls' = detailCalls \ {c} /\ UNCHANGED <<detailChampion, detailNavigation, detailPanel>>
    BY <1>3, <1>7
  <2>2. DetailTypes'
    BY <1>1, <2>1 DEF DetailIInv, DetailTypes
  <2>3. DetailLoading'
    BY <1>1, <1>5, <1>7, <2>1 DEF DetailIInv, DetailLoading, Detail!Current
  <2>4. DetailUrlFollows' /\ DetailStatsFollow'
    BY <1>1, <2>1 DEF DetailIInv, DetailUrlFollows, DetailStatsFollow, Detail!Current, DetailShown
  <2>5. DetailPanelsFollow'
    BY <1>1, <1>2, <2>1, DetailPanelsStay
  <2> QED BY <2>2, <2>3, <2>4, <2>5 DEF DetailIInv
<1> QED BY <1>4, <1>6, <1>7

LEMMA DetailSyncDoneStep ==
  ASSUME DetailIInv, NEW c \in detailCalls, Detail!SyncDone(c)
  PROVE  DetailIInv'
<1>1. /\ c.step = "sync" /\ c \in DetailCallType /\ detailUrl' = (IF c.id = detailNavigation THEN c.filters ELSE detailUrl)
      /\ UNCHANGED <<detailRoute, detailFilters, detailReady, detailNotFound, detailChampion, detailGeneration, detailNavigation, detailTab, detailPanel, detailActions>>
  BY DetailCallFacts DEF Detail!SyncDone, Detail!headVars, DetailIInv
<1>2. "sync" \notin Detail!Panels /\ "stats" \notin Detail!Panels
  BY DEF Detail!Panels
<1>3. /\ detailUrl' \in DetailFilters /\ (c.id = detailNavigation => detailUrl' = detailFilters) /\ (c.id # detailNavigation => detailUrl' = detailUrl)
      /\ (c.id = detailNavigation => Detail!Current(c))
  BY <1>1 DEF DetailIInv, DetailTypes, DetailLoading, DetailUrlFollows
<1>4. CASE ~Detail!Current(c)
  <2>1. detailCalls' = detailCalls \ {c} /\ UNCHANGED <<detailStatsId, detailStats, detailStatsPending>> /\ detailUrl' = detailUrl
    BY <1>3, <1>4 DEF Detail!SyncDone, Detail!statsVars
  <2>2. DetailTypes' /\ DetailLoading'
    BY <1>1, <1>3, <2>1 DEF DetailIInv, DetailTypes, DetailLoading, Detail!Current
  <2>3. DetailUrlFollows'
    BY <1>1, <1>3, <1>4, <2>1 DEF DetailIInv, DetailUrlFollows, Detail!Current
  <2>4. DetailStatsFollow'
    BY <1>1, <1>4, <2>1 DEF DetailIInv, DetailStatsFollow, Detail!Current, DetailShown
  <2>5. DetailPanelsFollow'
    BY <1>1, <1>2, <2>1, DetailPanelsStay
  <2> QED BY <2>2, <2>3, <2>4, <2>5 DEF DetailIInv
<1>5. CASE Detail!Current(c)
  <2>1. detailChampion # None /\ detailReady /\ ~detailNotFound /\ detailChampion = detailRoute /\ detailFilters \in DetailFilters /\ detailRoute \in DetailKeys
    BY <1>1, <1>5 DEF DetailIInv, DetailTypes, DetailLoading
  <2> DEFINE call == Detail!Call("stats", detailStatsId + 1, detailChampion, detailFilters)
  <2>2. /\ detailStatsId' = detailStatsId + 1 /\ detailStats' = None /\ detailStatsPending' = TRUE
        /\ detailCalls' = (detailCalls \ {c}) \cup {call}
    BY <1>5, <2>1 DEF Detail!SyncDone, Detail!FetchStats
  <2>3. /\ call \in DetailCallType /\ call.step = "stats" /\ call.generation = detailGeneration
        /\ call.id = detailStatsId + 1 /\ call.key = detailRoute /\ call.filters = detailFilters
    <3>1. /\ DetailTypes /\ "stats" \in {"filters", "metadata", "sync", "stats"} \cup Detail!Panels
          /\ detailStatsId + 1 \in Nat /\ detailChampion \in DetailKeys \cup {None} /\ detailFilters \in DetailFilters \cup {None}
      BY <2>1 DEF DetailIInv, DetailTypes
    <3>2. DetailIsCallOf(call, "stats", detailStatsId + 1, detailChampion, detailFilters)
      BY <3>1, DetailNewCall
    <3> QED BY <2>1, <3>2 DEF DetailIsCallOf
  <2> HIDE DEF call
  <2>4. DetailTypes'
    <3>1. detailStats' \in DetailResponseType /\ detailStatsId' \in Nat
      BY <2>2 DEF DetailIInv, DetailTypes, DetailResponseType
    <3> QED BY <1>1, <1>3, <2>2, <2>3, <3>1 DEF DetailIInv, DetailTypes
  <2>5. DetailLoading'
    <3>1. \A d \in detailCalls' : d = call \/ d \in detailCalls
      BY <2>2
    <3> QED BY <1>1, <2>3, <3>1 DEF DetailIInv, DetailTypes, DetailLoading, Detail!Current
  <2>6. DetailUrlFollows'
    <3>1. \A d \in detailCalls' : d.step = "sync" => d \in detailCalls
      BY <2>2, <2>3
    <3>2. \A d \in detailCalls : d # c => d \in detailCalls'
      BY <2>2
    <3>3. \A d \in detailCalls' : d.step = "sync" =>
            d.id <= detailNavigation /\ (d.id = detailNavigation => d.generation = detailGeneration /\ d.filters = detailFilters)
      BY <3>1 DEF DetailIInv, DetailUrlFollows, Detail!Current
    <3>4. detailUrl' = detailFilters \/ \E d \in detailCalls' : d.step = "sync" /\ d.id = detailNavigation
      <4>1. CASE c.id = detailNavigation
        BY <1>3, <4>1
      <4>2. CASE c.id # detailNavigation
        BY <1>3, <2>1, <3>2, <4>2 DEF DetailIInv, DetailUrlFollows
      <4> QED BY <4>1, <4>2
    <3> QED BY <1>1, <2>1, <3>3, <3>4 DEF DetailUrlFollows, Detail!Current
  <2>7. DetailStatsFollow'
    <3>1. \A d \in detailCalls : d.step = "stats" => d.id \in Nat /\ detailStatsId \in Nat /\ d.id <= detailStatsId
      BY DetailCallFacts DEF DetailIInv, DetailTypes, DetailStatsFollow
    <3>2. call \in detailCalls' /\ \A d \in detailCalls' : d = call \/ d \in detailCalls
      BY <2>2
    <3>3. detailStatsId \in Nat
      BY DEF DetailIInv, DetailTypes
    <3>4. \A d \in detailCalls' : d.step = "stats" => d.id <= detailStatsId' /\ (d.id = detailStatsId' => d = call)
      BY <2>2, <2>3, <3>1, <3>2, <3>3
    <3> QED BY <1>1, <2>2, <2>3, <3>2, <3>4 DEF DetailStatsFollow, Detail!Current
  <2>8. DetailPanelsFollow'
    BY <1>1, <1>2, <2>2, <2>3, DetailPanelsStay
  <2> QED BY <2>4, <2>5, <2>6, <2>7, <2>8 DEF DetailIInv
<1> QED BY <1>4, <1>5

LEMMA DetailStatsArriveStep ==
  ASSUME DetailIInv, NEW c \in detailCalls, Detail!StatsArrive(c)
  PROVE  DetailIInv'
<1>1. /\ c.step = "stats" /\ c \in DetailCallType /\ detailCalls' = detailCalls \ {c}
      /\ UNCHANGED <<detailRoute, detailUrl, detailFilters, detailReady, detailNotFound, detailChampion, detailGeneration, detailStatsId, detailNavigation,
                     detailTab, detailPanel, detailActions>>
  BY DetailCallFacts DEF Detail!StatsArrive, Detail!headVars, DetailIInv
<1>2. "stats" \notin Detail!Panels
  BY DEF Detail!Panels
<1>3. DetailLoading'
  BY <1>1 DEF DetailIInv, DetailLoading, Detail!Current
<1>4. DetailUrlFollows'
  BY <1>1 DEF DetailIInv, DetailUrlFollows, Detail!Current
<1>5. DetailPanelsFollow'
  BY <1>1, <1>2, DetailPanelsStay
<1>6. CASE ~Detail!StatsLatest(c)
  <2>1. detailStats' = detailStats /\ detailStatsPending' = detailStatsPending
    BY <1>6 DEF Detail!StatsArrive
  <2>2. DetailTypes'
    BY <1>1, <2>1 DEF DetailIInv, DetailTypes
  <2>3. DetailStatsFollow'
    BY <1>1, <1>6, <2>1 DEF DetailIInv, DetailStatsFollow, Detail!StatsLatest, Detail!Current, DetailShown
  <2> QED BY <1>3, <1>4, <1>5, <2>2, <2>3 DEF DetailIInv
<1>7. CASE Detail!StatsLatest(c)
  <2>1. ~detailStatsPending' /\ detailStatsPending' \in BOOLEAN /\ detailStats' \in {detailStats, [key |-> c.key, filters |-> c.filters]}
    BY <1>7 DEF Detail!StatsArrive
  <2>2. DetailTypes'
    <3>1. [key |-> c.key, filters |-> c.filters] \in DetailResponseType
      BY <1>1 DEF DetailCallType, DetailResponseType
    <3> QED BY <1>1, <2>1, <3>1 DEF DetailIInv, DetailTypes
  <2>3. DetailStatsFollow'
    <3>1. \A d \in detailCalls' : d.step = "stats" => d.id <= detailStatsId
      BY <1>1 DEF DetailIInv, DetailStatsFollow
    <3> SUFFICES ASSUME detailChampion # None, \A d \in detailCalls : ~(Detail!Current(d) /\ d.step = "sync")
                 PROVE  /\ detailStats' \in {None, DetailShown}
                        /\ \A d \in detailCalls : d.step = "stats" /\ Detail!Current(d) /\ d.id = detailStatsId =>
                             d.key = detailRoute /\ d.filters = detailFilters
      BY <1>1, <2>1, <3>1 DEF DetailStatsFollow, Detail!Current, DetailShown
    <3>2. /\ detailStats \in {None, DetailShown}
          /\ \A d \in detailCalls : d.step = "stats" /\ Detail!Current(d) /\ d.id = detailStatsId =>
               d.key = detailRoute /\ d.filters = detailFilters
      BY DEF DetailIInv, DetailStatsFollow
    <3> QED BY <1>1, <1>7, <2>1, <3>2 DEF Detail!StatsLatest, DetailShown
  <2> QED BY <1>3, <1>4, <1>5, <2>2, <2>3 DEF DetailIInv
<1> QED BY <1>6, <1>7

LEMMA DetailSetFiltersStep ==
  ASSUME DetailIInv, NEW f \in DetailFilters, Detail!SetFilters(f)
  PROVE  DetailIInv'
<1> DEFINE call == Detail!Call("sync", detailNavigation + 1, detailChampion, f)
<1>1. /\ detailActions' = detailActions + 1 /\ detailReady /\ ~detailNotFound /\ detailChampion # None /\ f # detailFilters
      /\ detailFilters' = f /\ detailStats' = None /\ detailStatsPending' = TRUE /\ detailNavigation' = detailNavigation + 1
      /\ detailCalls' = detailCalls \cup {call} \cup Detail!PanelCalls(f, detailChampion) /\ detailPanel' = Detail!Watched(f, detailChampion)
      /\ UNCHANGED <<detailRoute, detailReady, detailNotFound, detailChampion, detailGeneration, detailStatsId, detailUrl, detailTab>>
  BY DEF Detail!SetFilters
<1>2. detailChampion \in DetailKeys \cup {None} /\ f \in DetailFilters \cup {None} /\ detailNavigation \in Nat /\ detailNavigation + 1 \in Nat
  BY DEF DetailIInv, DetailTypes
<1>3. /\ call \in DetailCallType /\ call.step = "sync" /\ call.generation = detailGeneration
      /\ call.id = detailNavigation + 1 /\ call.filters = f
  <2>1. /\ DetailTypes /\ "sync" \in {"filters", "metadata", "sync", "stats"} \cup Detail!Panels
        /\ detailNavigation + 1 \in Nat /\ detailChampion \in DetailKeys \cup {None} /\ f \in DetailFilters \cup {None}
    BY <1>2 DEF DetailIInv
  <2>2. DetailIsCallOf(call, "sync", detailNavigation + 1, detailChampion, f)
    BY <2>1, DetailNewCall
  <2> QED BY <2>2 DEF DetailIsCallOf
<1> HIDE DEF call
<1>4. /\ Detail!PanelCalls(f, detailChampion) \subseteq DetailCallType
      /\ \A d \in Detail!PanelCalls(f, detailChampion) : d.step \in Detail!Panels /\ d.generation = detailGeneration
  BY <1>2, DetailPanelCallsTyped DEF DetailIInv
<1>5. /\ call \in detailCalls' /\ \A d \in detailCalls : d \in detailCalls'
      /\ \A d \in detailCalls' : d.step \notin Detail!Panels => d = call \/ d \in detailCalls
  BY <1>1, <1>4
<1>6. {"filters", "metadata", "sync", "stats"} \cap Detail!Panels = {}
  BY DEF Detail!Panels
<1>7. DetailTypes'
  <2>1. detailPanel' \in [Detail!Panels -> DetailPanelType]
    BY <1>1, DetailWatchedFacts DEF DetailIInv
  <2>2. detailCalls' \subseteq DetailCallType
    BY <1>1, <1>3, <1>4 DEF DetailIInv, DetailTypes
  <2> QED BY <1>1, <1>2, <2>1, <2>2 DEF DetailIInv, DetailTypes, DetailResponseType
<1>8. DetailLoading'
  <2>1. \A d \in detailCalls' : d.generation <= detailGeneration
    BY <1>1, <1>3, <1>4 DEF DetailIInv, DetailTypes, DetailLoading
  <2>2. ASSUME NEW d \in detailCalls', d.generation = detailGeneration
        PROVE  d.step # "filters" /\ d.step # "metadata"
    BY <1>1, <1>3, <1>5, <1>6, <2>2 DEF DetailIInv, DetailLoading, Detail!Current
  <2> QED BY <1>1, <2>1, <2>2 DEF DetailLoading, Detail!Current
<1>9. DetailUrlFollows'
  <2>1. \A d \in detailCalls : d.step = "sync" => d.id \in Nat /\ d.id <= detailNavigation
    BY DetailCallFacts DEF DetailIInv, DetailUrlFollows
  <2>2. \A d \in detailCalls' : d.step = "sync" => d = call \/ d \in detailCalls
    BY <1>5, <1>6
  <2>3. \A d \in detailCalls' : d.step = "sync" =>
          d.id <= detailNavigation' /\ (d.id = detailNavigation' => d.generation = detailGeneration /\ d.filters = f)
    BY <1>1, <1>2, <1>3, <2>1, <2>2
  <2> QED BY <1>1, <1>3, <1>5, <2>3 DEF DetailUrlFollows, Detail!Current
<1>10. DetailStatsFollow'
  <2>1. \A d \in detailCalls' : d.step = "stats" => d \in detailCalls
    BY <1>3, <1>5, <1>6
  <2> QED BY <1>1, <1>3, <1>5, <2>1 DEF DetailIInv, DetailStatsFollow, Detail!Current
<1>11. DetailPanelsFollow'
  <2>1. /\ \A d \in detailCalls' : d.step \in Detail!Panels => d \in detailCalls \/ d \in Detail!PanelCalls(f, detailChampion)
        /\ Detail!PanelCalls(f, detailChampion) \subseteq detailCalls'
    BY <1>1, <1>3, <1>6
  <2> QED BY <1>1, <1>2, <2>1, DetailWatchedFollows
<1> QED BY <1>7, <1>8, <1>9, <1>10, <1>11 DEF DetailIInv

LEMMA DetailVisitStep ==
  ASSUME DetailIInv, None \notin DetailKeys, NEW key \in DetailKeys, NEW f \in DetailFilters, Detail!Visit(key, f)
  PROVE  DetailIInv'
<1> DEFINE call == [step |-> "filters", generation |-> detailGeneration + 1, id |-> 0, key |-> key, filters |-> None]
<1>1. /\ detailActions' = detailActions + 1 /\ detailRoute' = key /\ detailUrl' = f /\ detailNavigation' = detailNavigation + 1
      /\ detailGeneration' = detailGeneration + 1 /\ detailStatsId' = detailStatsId + 1
      /\ detailNotFound' = FALSE /\ detailChampion' = None /\ detailReady' = FALSE
      /\ detailStats' = None /\ detailStatsPending' = FALSE
      /\ detailCalls' = detailCalls \cup {call} /\ detailPanel' = Detail!Watched(detailFilters, None)
      /\ UNCHANGED <<detailFilters, detailTab>>
  BY DEF Detail!Visit
<1>2. /\ detailGeneration \in Nat /\ detailGeneration' \in Nat /\ detailNavigation \in Nat /\ detailStatsId \in Nat
      /\ \A d \in detailCalls : d.generation \in Nat /\ d.generation < detailGeneration'
  BY <1>1, DetailCallFacts DEF DetailIInv, DetailTypes, DetailLoading
<1>3. /\ call \in DetailCallType /\ call.step = "filters" /\ call.generation = detailGeneration'
      /\ call.id = 0 /\ call.key = key /\ call.filters = None
  BY <1>1, <1>2 DEF DetailCallType
<1> HIDE DEF call
<1>4. \A d \in detailCalls' : d.generation <= detailGeneration' /\ (d.generation = detailGeneration' => d = call)
  BY <1>1, <1>2, <1>3
<1>5. DetailTypes'
  <2>1. detailPanel' \in [Detail!Panels -> DetailPanelType]
    BY <1>1, DetailWatchedFacts DEF DetailIInv
  <2>2. detailCalls' \subseteq DetailCallType
    BY <1>1, <1>3 DEF DetailIInv, DetailTypes
  <2>3. detailStats' \in DetailResponseType
    BY <1>1 DEF DetailResponseType
  <2>4. detailActions' \in Nat /\ detailStatsId' \in Nat /\ detailNavigation' \in Nat
    BY <1>1, <1>2 DEF DetailIInv, DetailTypes
  <2>5. /\ detailRoute' \in DetailKeys /\ detailFilters' \in DetailFilters \cup {None} /\ detailUrl' \in DetailFilters
        /\ detailChampion' = None /\ detailTab' \in Detail!Tabs
    BY <1>1 DEF DetailIInv, DetailTypes
  <2>6. detailReady' = FALSE /\ detailNotFound' = FALSE /\ detailStatsPending' = FALSE
    BY <1>1
  <2> QED BY <1>2, <2>1, <2>2, <2>3, <2>4, <2>5, <2>6 DEF DetailTypes
<1>6. DetailLoading'
  BY <1>1, <1>3, <1>4 DEF DetailLoading, Detail!Current
<1>7. DetailUrlFollows'
  <2>1. \A d \in detailCalls : d.step = "sync" => d.id \in Nat /\ d.id <= detailNavigation
    BY DetailCallFacts DEF DetailIInv, DetailUrlFollows
  <2>2. \A d \in detailCalls' : d.step = "sync" => d.id <= detailNavigation' /\ d.id # detailNavigation'
    BY <1>1, <1>2, <1>3, <2>1
  <2> QED BY <1>1, <2>2 DEF DetailUrlFollows
<1>8. DetailStatsFollow'
  <2>1. \A d \in detailCalls : d.step = "stats" => d.id \in Nat /\ d.id <= detailStatsId
    BY DetailCallFacts DEF DetailIInv, DetailStatsFollow
  <2>2. \A d \in detailCalls' : d.step = "stats" => d.id <= detailStatsId'
    BY <1>1, <1>2, <1>3, <2>1
  <2> QED BY <1>1, <2>2 DEF DetailStatsFollow
<1>9. DetailPanelsFollow'
  <2> SUFFICES ASSUME NEW p \in Detail!Panels, NEW c \in detailCalls', c.step = p
               PROVE  c.id <= detailPanel'[p].id
    BY <1>1 DEF DetailPanelsFollow, Detail!Wanted
  <2>1. c \in detailCalls
    BY <1>1, <1>3 DEF Detail!Panels
  <2>2. detailPanel[p].id \in Nat /\ detailPanel'[p].id \in Nat /\ detailPanel[p].id <= detailPanel'[p].id
    BY <1>1, DetailWatchedFacts DEF DetailIInv
  <2>3. c.id \in Nat /\ c.id <= detailPanel[p].id
    BY <2>1, DetailCallFacts DEF DetailIInv, DetailPanelsFollow
  <2> QED BY <2>2, <2>3
<1> QED BY <1>5, <1>6, <1>7, <1>8, <1>9 DEF DetailIInv

LEMMA DetailInitIInv == ASSUME Detail!Init PROVE DetailIInv
<1> DEFINE call == [step |-> "filters", generation |-> 0, id |-> 0, key |-> detailRoute, filters |-> None]
           none == [response |-> None, pending |-> FALSE, id |-> 0]
<1>1. /\ detailRoute \in DetailKeys /\ detailUrl \in DetailFilters /\ detailFilters = None /\ detailReady = FALSE /\ detailNotFound = FALSE
      /\ detailChampion = None /\ detailGeneration = 0 /\ detailStatsId = 0 /\ detailStats = None /\ detailStatsPending = FALSE
      /\ detailTab = "overview" /\ detailPanel = [p \in Detail!Panels |-> none] /\ detailNavigation = 0
      /\ detailCalls = {call} /\ detailActions = 0
  BY DEF Detail!Init
<1>2. /\ call \in DetailCallType /\ call.step = "filters" /\ call.generation = 0 /\ call.id = 0
      /\ call.key = detailRoute /\ call.filters = None
  BY <1>1 DEF DetailCallType
<1>3. none \in DetailPanelType
  BY DEF DetailPanelType, DetailResponseType
<1> HIDE DEF call, none
<1>4. DetailTypes
  BY <1>1, <1>2, <1>3 DEF DetailTypes, Detail!Tabs, DetailResponseType
<1>5. DetailLoading /\ DetailUrlFollows /\ DetailStatsFollow
  BY <1>1, <1>2 DEF DetailLoading, DetailUrlFollows, DetailStatsFollow, Detail!Current
<1>6. DetailPanelsFollow
  BY <1>1, <1>2 DEF DetailPanelsFollow, Detail!Wanted, Detail!Panels
<1> QED BY <1>4, <1>5, <1>6 DEF DetailIInv

LEMMA DetailNextIInv == ASSUME DetailIInv, Detail!ConstantsAssumption, [Detail!Next]_(Detail!vars) PROVE DetailIInv'
<1>1. CASE UNCHANGED Detail!vars
  <2>1. UNCHANGED <<detailRoute, detailUrl, detailFilters, detailReady, detailNotFound, detailChampion, detailGeneration, detailStatsId, detailStats,
                    detailStatsPending, detailTab, detailPanel, detailNavigation, detailCalls, detailActions>>
    BY <1>1 DEF Detail!vars
  <2>2. DetailTypes'
    BY <2>1 DEF DetailIInv, DetailTypes
  <2>3. DetailLoading' /\ DetailUrlFollows' /\ DetailStatsFollow'
    BY <2>1, DetailOthersFollow DEF DetailIInv, DetailLoading
  <2>4. DetailPanelsFollow'
    BY <2>1, DetailPanelsStay
  <2> QED BY <2>2, <2>3, <2>4 DEF DetailIInv
<1>2. CASE Detail!Next
  <2>1. ASSUME NEW c \in detailCalls,
               \/ Detail!FiltersArrive(c) \/ Detail!MetadataArrives(c) \/ Detail!LoadFails(c) \/ Detail!SyncDone(c) \/ Detail!StatsArrive(c)
               \/ Detail!PanelArrives(c) \/ Detail!InsightPending(c)
        PROVE  DetailIInv'
    BY <2>1, DetailFiltersArriveStep, DetailMetadataArrivesStep, DetailLoadFailsStep, DetailSyncDoneStep, DetailStatsArriveStep,
       DetailPanelArrivesStep, DetailInsightPendingStep DEF Detail!ConstantsAssumption
  <2> QED BY <1>2, <2>1, DetailSelectTabStep, DetailSetFiltersStep, DetailVisitStep DEF Detail!Next, Detail!ConstantsAssumption
<1> QED BY <1>1, <1>2

LEMMA DetailIInvSuffices == ASSUME DetailIInv PROVE Detail!SettledPageIsConsistent
<1> SUFFICES ASSUME detailReady, detailChampion # None,
                    \A c \in detailCalls : ~(Detail!Current(c) /\ c.step \in {"filters", "metadata", "sync"})
             PROVE  /\ detailUrl = detailFilters
                    /\ (\A c \in detailCalls : ~(Detail!Current(c) /\ c.step \in {"stats"})) =>
                         ~detailStatsPending /\ detailStats \in {None, DetailShown}
                    /\ \A p \in Detail!Panels :
                         Detail!Wanted(p, detailFilters, detailChampion, detailTab) /\ (\A c \in detailCalls : ~(Detail!Current(c) /\ c.step \in {p})) =>
                           ~detailPanel[p].pending /\ detailPanel[p].response \in {None, DetailShown}
  BY DEF Detail!SettledPageIsConsistent, DetailShown
<1>1. detailUrl = detailFilters
  BY DEF DetailIInv, DetailUrlFollows
<1>2. detailChampion = detailRoute
  BY DEF DetailIInv, DetailTypes
<1>3. (\A c \in detailCalls : ~(Detail!Current(c) /\ c.step \in {"stats"})) => ~detailStatsPending /\ detailStats \in {None, DetailShown}
  BY DEF DetailIInv, DetailStatsFollow
<1>4. ASSUME NEW p \in Detail!Panels, Detail!Wanted(p, detailFilters, detailChampion, detailTab),
             \A c \in detailCalls : ~(Detail!Current(c) /\ c.step \in {p})
      PROVE  ~detailPanel[p].pending /\ detailPanel[p].response \in {None, DetailShown}
  <2>1. \A c \in detailCalls : ~(c.step = p /\ c.id = detailPanel[p].id)
    BY <1>4 DEF DetailIInv, DetailPanelsFollow
  <2> QED BY <1>2, <1>4, <2>1 DEF DetailIInv, DetailPanelsFollow, DetailShown
<1> QED BY <1>1, <1>3, <1>4

(* The inductive invariant of the page: the latest call of each kind is about
   the champion and the filters shown, or a call that will replace it is under
   way. *)
THEOREM DetailInductive == ASSUME Detail!ConstantsAssumption PROVE Detail!Spec => []DetailIInv
<1>1. Detail!Init => DetailIInv
  BY DetailInitIInv
<1>2. DetailIInv /\ [Detail!Next]_(Detail!vars) => DetailIInv'
  BY DetailNextIInv
<1> QED BY <1>1, <1>2, PTL DEF Detail!Spec

(* A page at rest shows one thing, for any number of champions, filters and
   actions of the user. *)
THEOREM DetailSettles == ASSUME Detail!ConstantsAssumption PROVE Detail!Spec => [](Detail!SettledPageIsConsistent)
<1>1. DetailIInv => Detail!SettledPageIsConsistent
  BY DetailIInvSuffices
<1> QED BY <1>1, DetailInductive, PTL

HIDE DEF detailRoute, detailUrl, detailFilters, detailReady, detailNotFound,
         detailChampion, detailGeneration, detailStatsId, detailStats,
         detailStatsPending, detailTab, detailPanel, detailNavigation,
         detailCalls, detailActions

-----------------------------------------------------------------------------
(***************************************************************************)
(* The page of a match.                                                    *)
(***************************************************************************)
USE DEF pageRoute, pageDetail, pageTab, pageTimeline, pageCached,
        pageInFlight, pageCalls, pageActions

-----------------------------------------------------------------------------
LEMMA PageDetailArrivesStep ==
  ASSUME PageIInv, NEW c \in pageCalls, Page!DetailArrives(c)
  PROVE  PageIInv'
<1>1. /\ c.step = "detail" /\ pageCalls' = pageCalls \ {c}
      /\ UNCHANGED <<pageRoute, pageTab, pageTimeline, pageCached, pageInFlight, pageActions>>
      /\ c \in [step : {"detail", "timeline"}, id : Nat, match : PageMatches]
  BY DEF Page!DetailArrives, PageIInv, PageTypes
<1>2. PageTimelineIsCached'
  BY <1>1 DEF PageIInv, PageTimelineIsCached
<1>3. CASE ~Page!DetailLatest(c)
  <2>1. pageDetail' = pageDetail
    BY <1>3 DEF Page!DetailArrives
  <2> QED BY <1>1, <1>2, <1>3, <2>1 DEF PageIInv, PageTypes, PageDetailIsOfRoute, Page!DetailLatest
<1>4. CASE Page!DetailLatest(c)
  <2>1. PICK answered \in BOOLEAN :
          pageDetail' = [pageDetail EXCEPT !.shown = IF answered THEN c.match ELSE None,
                                   !.failed = ~answered, !.pending = FALSE]
    BY <1>4 DEF Page!DetailArrives
  <2>2. c.match = pageRoute
    BY <1>1, <1>4 DEF PageIInv, PageDetailIsOfRoute, Page!DetailLatest
  <2>3. /\ pageDetail' \in [shown : PageMatches \cup {None}, pending : BOOLEAN, failed : BOOLEAN, id : Nat]
        /\ pageDetail'.id = pageDetail.id /\ ~pageDetail'.pending
        /\ pageDetail'.shown = (IF pageDetail'.failed THEN None ELSE pageRoute)
    <3>1. CASE answered
      BY <1>1, <2>1, <2>2, <3>1 DEF PageIInv, PageTypes
    <3>2. CASE ~answered
      BY <1>1, <2>1, <2>2, <3>2 DEF PageIInv, PageTypes
    <3> QED BY <3>1, <3>2
  <2> QED BY <1>1, <1>2, <2>3 DEF PageIInv, PageTypes, PageDetailIsOfRoute
<1> QED BY <1>3, <1>4

LEMMA PageTimelineArrivesStep ==
  ASSUME PageIInv, NEW c \in pageCalls, Page!TimelineArrives(c)
  PROVE  PageIInv'
<1>1. /\ c.step = "timeline" /\ pageCalls' = pageCalls \ {c} /\ pageInFlight' = FALSE
      /\ UNCHANGED <<pageRoute, pageDetail, pageTab, pageCached, pageActions>>
      /\ c \in [step : {"detail", "timeline"}, id : Nat, match : PageMatches]
  BY DEF Page!TimelineArrives, PageIInv, PageTypes
<1>2. PageDetailIsOfRoute'
  BY <1>1 DEF PageIInv, PageDetailIsOfRoute
<1>3. CASE ~Page!TimelineOfMatch(c)
  <2>1. pageTimeline' = pageTimeline
    BY <1>3 DEF Page!TimelineArrives
  <2> QED BY <1>1, <1>2, <1>3, <2>1 DEF PageIInv, PageTypes, PageTimelineIsCached, Page!TimelineOfMatch
<1>4. CASE Page!TimelineOfMatch(c)
  <2>1. pageTimeline' \in {[pageTimeline EXCEPT !.shown = c.match, !.pending = FALSE],
                       [shown |-> None, pending |-> FALSE, failed |-> TRUE]}
    BY <1>4 DEF Page!TimelineArrives
  <2>2. /\ pageTimeline' \in [shown : PageMatches \cup {None}, pending : BOOLEAN, failed : BOOLEAN]
        /\ ~pageTimeline'.pending
        /\ pageTimeline'.shown = pageCached \/ (pageTimeline'.failed /\ pageTimeline'.shown = None)
    <3>1. /\ pageTimeline \in [shown : PageMatches \cup {None}, pending : BOOLEAN, failed : BOOLEAN]
          /\ pageCached = c.match /\ c.match \in PageMatches
      BY <1>1, <1>4 DEF PageIInv, PageTypes, Page!TimelineOfMatch
    <3>2. CASE pageTimeline' = [pageTimeline EXCEPT !.shown = c.match, !.pending = FALSE]
      BY <3>1, <3>2
    <3>3. CASE pageTimeline' = [shown |-> None, pending |-> FALSE, failed |-> TRUE]
      BY <3>3
    <3> QED BY <2>1, <3>2, <3>3
  <2> QED BY <1>1, <1>2, <2>2 DEF PageIInv, PageTypes, PageTimelineIsCached
<1> QED BY <1>3, <1>4

LEMMA PageSelectTabStep ==
  ASSUME PageIInv, NEW t \in BOOLEAN, Page!SelectTab(t)
  PROVE  PageIInv'
<1>1. /\ pageActions' = pageActions + 1 /\ pageTab' = t /\ UNCHANGED <<pageRoute, pageDetail>>
  BY DEF Page!SelectTab
<1>2. CASE ~t \/ Page!Cached(pageRoute) \/ (pageInFlight /\ pageCached = pageRoute)
  <2>1. UNCHANGED <<pageTimeline, pageCached, pageInFlight>> /\ pageCalls' = pageCalls
    BY <1>2 DEF Page!SelectTab, Page!LoadTimeline, Page!TimelineCalls
  <2>2. t => pageCached = pageRoute
    BY <1>2 DEF Page!Cached
  <2> QED BY <1>1, <2>1, <2>2 DEF PageIInv, PageTypes, PageDetailIsOfRoute, PageTimelineIsCached
<1>3. CASE t /\ ~Page!Cached(pageRoute) /\ ~(pageInFlight /\ pageCached = pageRoute)
  <2> DEFINE call == [step |-> "timeline", id |-> pageActions', match |-> pageRoute]
  <2>1. /\ pageCached' = pageRoute /\ pageInFlight' = TRUE /\ pageCalls' = pageCalls \cup {call}
        /\ pageTimeline' = [pageTimeline EXCEPT !.pending = TRUE, !.failed = FALSE]
    BY <1>3 DEF Page!SelectTab, Page!LoadTimeline, Page!TimelineCalls
  <2>2. call.step = "timeline" /\ call.match = pageRoute
        /\ call \in [step : {"detail", "timeline"}, id : Nat, match : PageMatches]
    BY <1>1 DEF PageIInv, PageTypes
  <2>3. /\ pageTimeline' \in [shown : PageMatches \cup {None}, pending : BOOLEAN, failed : BOOLEAN]
        /\ pageTimeline'.pending /\ pageTimeline'.shown \in {None, pageCached'}
    BY <2>1 DEF PageIInv, PageTypes, PageTimelineIsCached
  <2> HIDE DEF call
  <2> QED BY <1>1, <2>1, <2>2, <2>3 DEF PageIInv, PageTypes, PageDetailIsOfRoute, PageTimelineIsCached
<1> QED BY <1>2, <1>3

LEMMA PageAskedAgain ==
  ASSUME PageIInv
  PROVE  /\ Page!DetailAsked \in [shown : PageMatches \cup {None}, pending : BOOLEAN, failed : BOOLEAN, id : Nat]
         /\ Page!DetailAsked.id = pageDetail.id + 1 /\ Page!DetailAsked.pending
<1>1. pageDetail \in [shown : PageMatches \cup {None}, pending : BOOLEAN, failed : BOOLEAN, id : Nat]
  BY DEF PageIInv, PageTypes
<1>2. Page!DetailAsked = [shown |-> pageDetail.shown, pending |-> TRUE, failed |-> FALSE, id |-> pageDetail.id + 1]
  <2>1. /\ DOMAIN Page!DetailAsked = {"shown", "pending", "failed", "id"}
        /\ Page!DetailAsked.shown = pageDetail.shown /\ Page!DetailAsked.pending = TRUE
        /\ Page!DetailAsked.failed = FALSE /\ Page!DetailAsked.id = pageDetail.id + 1
    BY <1>1, Zenon DEF Page!DetailAsked
  <2>2. Page!DetailAsked = [f \in DOMAIN Page!DetailAsked |-> Page!DetailAsked[f]]
    BY DEF Page!DetailAsked
  <2> QED BY <2>1, <2>2
<1> QED BY <1>1, <1>2

LEMMA PageVisitStep ==
  ASSUME PageIInv, None \notin PageMatches, NEW m \in PageMatches, NEW t \in BOOLEAN, Page!Visit(m, t)
  PROVE  PageIInv'
<1> DEFINE left == pageCached # None /\ pageCached # m
           kept == [shown |-> None, failed |-> FALSE, pending |-> pageTimeline.pending]
           asks == t /\ (left \/ pageCached # m \/ (pageTimeline.shown = None /\ ~pageTimeline.failed /\ ~pageInFlight))
           asked == Page!DetailCall(m)
           call == [step |-> "timeline", id |-> pageActions', match |-> m]
<1>1. /\ pageActions' = pageActions + 1 /\ m # pageRoute /\ pageRoute' = m /\ pageTab' = t /\ pageDetail' = Page!DetailAsked
      /\ IF asks THEN /\ pageCached' = m /\ pageInFlight' = TRUE
                      /\ pageTimeline' = [(IF left THEN kept ELSE pageTimeline) EXCEPT !.pending = TRUE, !.failed = FALSE]
         ELSE /\ pageCached' = (IF left THEN None ELSE pageCached)
              /\ pageTimeline' = (IF left THEN kept ELSE pageTimeline) /\ pageInFlight' = pageInFlight
      /\ pageCalls' = pageCalls \cup {asked} \cup (IF asks THEN {call} ELSE {})
  BY DEF Page!Visit
<1>2. /\ pageDetail' \in [shown : PageMatches \cup {None}, pending : BOOLEAN, failed : BOOLEAN, id : Nat]
      /\ pageDetail'.id = pageDetail.id + 1 /\ pageDetail'.pending
  BY <1>1, PageAskedAgain
<1>3. /\ asked \in [step : {"detail", "timeline"}, id : Nat, match : PageMatches]
      /\ call \in [step : {"detail", "timeline"}, id : Nat, match : PageMatches]
      /\ asked.step = "detail" /\ asked.id = pageDetail'.id /\ asked.match = m
      /\ call.step = "timeline" /\ call.match = m
  BY <1>1, <1>2 DEF Page!DetailCall, PageIInv, PageTypes
<1>4. /\ kept \in [shown : PageMatches \cup {None}, pending : BOOLEAN, failed : BOOLEAN] /\ kept.shown = None
      /\ pageActions' \in Nat
  BY <1>1 DEF PageIInv, PageTypes
<1> HIDE DEF asked, call, kept
<1>5. PageDetailIsOfRoute'
  <2>1. \A c \in pageCalls : c.step = "detail" => c.id \in Nat /\ c.id < pageDetail'.id
    BY <1>2 DEF PageIInv, PageTypes, PageDetailIsOfRoute
  <2>2. pageDetail'.id \in Nat /\ \A c \in pageCalls' : c \in pageCalls \/ c = asked \/ c = call
    BY <1>1, <1>2
  <2> QED BY <1>1, <1>2, <1>3, <2>1, <2>2 DEF PageDetailIsOfRoute
<1>6. CASE asks
  <2> DEFINE base == IF left THEN kept ELSE pageTimeline
  <2>1. /\ pageCached' = m /\ pageInFlight' = TRUE /\ pageTimeline' = [base EXCEPT !.pending = TRUE, !.failed = FALSE]
        /\ call \in pageCalls' /\ pageCalls' = pageCalls \cup {asked, call}
    BY <1>1, <1>6
  <2>2. /\ base \in [shown : PageMatches \cup {None}, pending : BOOLEAN, failed : BOOLEAN]
        /\ base.shown = None
    BY <1>4, <1>6 DEF PageIInv, PageTypes, PageTimelineIsCached
  <2> HIDE DEF base
  <2>3. /\ pageTimeline' \in [shown : PageMatches \cup {None}, pending : BOOLEAN, failed : BOOLEAN]
        /\ pageTimeline'.pending /\ pageTimeline'.shown = None
    BY <2>1, <2>2
  <2> QED BY <1>1, <1>2, <1>3, <1>4, <1>5, <2>1, <2>3 DEF PageIInv, PageTypes, PageTimelineIsCached
<1>7. CASE ~asks
  <2>1. pageInFlight' = pageInFlight /\ pageCalls' = pageCalls \cup {asked}
    BY <1>1, <1>7
  <2>2. CASE left
    <3>1. pageCached' = None /\ pageTimeline' = kept /\ ~t
      BY <1>1, <1>7, <2>2
    <3> QED BY <1>1, <1>2, <1>3, <1>4, <1>5, <2>1, <3>1 DEF PageIInv, PageTypes, PageTimelineIsCached
  <2>3. CASE ~left
    <3>1. pageCached' = pageCached /\ pageTimeline' = pageTimeline /\ pageCached \in {None, m} /\ (t => pageCached = m)
      BY <1>1, <1>7, <2>3
    <3> QED BY <1>1, <1>2, <1>3, <1>4, <1>5, <2>1, <3>1 DEF PageIInv, PageTypes, PageTimelineIsCached
  <2> QED BY <2>2, <2>3
<1> QED BY <1>6, <1>7

LEMMA PageInitIInv == ASSUME None \notin PageMatches, Page!Init PROVE PageIInv
<1> DEFINE d == [step |-> "detail", id |-> 1, match |-> pageRoute]
           c == [step |-> "timeline", id |-> 0, match |-> pageRoute]
<1>1. /\ pageRoute \in PageMatches /\ pageTab \in BOOLEAN /\ pageInFlight = pageTab /\ pageActions = 0
      /\ pageDetail = [shown |-> None, pending |-> TRUE, failed |-> FALSE, id |-> 1]
      /\ pageTimeline = [shown |-> None, pending |-> pageTab, failed |-> FALSE]
      /\ pageCached = (IF pageTab THEN pageRoute ELSE None) /\ pageCalls = {d} \cup (IF pageTab THEN {c} ELSE {})
  BY DEF Page!Init
<1>2. /\ d \in [step : {"detail", "timeline"}, id : Nat, match : PageMatches]
      /\ c \in [step : {"detail", "timeline"}, id : Nat, match : PageMatches]
      /\ d.step = "detail" /\ d.id = 1 /\ d.match = pageRoute /\ c.step = "timeline" /\ c.match = pageRoute
  BY <1>1
<1> HIDE DEF c, d
<1>3. PageTypes
  BY <1>1, <1>2 DEF PageTypes
<1>4. PageDetailIsOfRoute
  BY <1>1, <1>2 DEF PageDetailIsOfRoute
<1>5. PageTimelineIsCached
  BY <1>1, <1>2 DEF PageTimelineIsCached
<1> QED BY <1>3, <1>4, <1>5 DEF PageIInv

LEMMA PageNextIInv == ASSUME PageIInv, Page!ConstantsAssumption, [Page!Next]_(Page!vars) PROVE PageIInv'
<1>1. CASE UNCHANGED Page!vars
  BY <1>1 DEF Page!vars, PageIInv, PageTypes, PageDetailIsOfRoute, PageTimelineIsCached
<1>2. CASE Page!Next
  BY <1>2, PageDetailArrivesStep, PageTimelineArrivesStep, PageSelectTabStep, PageVisitStep DEF Page!Next, Page!ConstantsAssumption
<1> QED BY <1>1, <1>2

LEMMA PageIInvSuffices == ASSUME PageIInv, Page!ConstantsAssumption PROVE Page!SettledMatchIsConsistent
<1> SUFFICES ASSUME pageCalls = {}
             PROVE /\ ~pageDetail.pending /\ pageDetail.shown = (IF pageDetail.failed THEN None ELSE pageRoute)
                   /\ pageTab => /\ ~pageTimeline.pending
                                 /\ pageTimeline.shown = pageRoute \/ (pageTimeline.failed /\ pageTimeline.shown = None)
  BY DEF Page!SettledMatchIsConsistent
<1>1. ~pageDetail.pending /\ pageDetail.shown = (IF pageDetail.failed THEN None ELSE pageRoute)
  BY DEF PageIInv, PageDetailIsOfRoute
<1>2. ASSUME pageTab
      PROVE ~pageTimeline.pending /\ (pageTimeline.shown = pageRoute \/ (pageTimeline.failed /\ pageTimeline.shown = None))
  <2>1. pageCached = pageRoute /\ pageRoute # None
    BY <1>2 DEF PageIInv, PageTypes, PageTimelineIsCached, Page!ConstantsAssumption
  <2> QED BY <2>1 DEF PageIInv, PageTimelineIsCached
<1> QED BY <1>1, <1>2

(* The inductive invariant of the match page: the latest request of the detail
   is about the route, and the cached timeline is the one of the route. *)
THEOREM PageInductive == ASSUME Page!ConstantsAssumption PROVE Page!Spec => []PageIInv
<1>1. Page!Init => PageIInv
  BY PageInitIInv DEF Page!ConstantsAssumption
<1>2. PageIInv /\ [Page!Next]_(Page!vars) => PageIInv'
  BY PageNextIInv
<1> QED BY <1>1, <1>2, PTL DEF Page!Spec

(* A match page at rest shows the match of the route, for any number of matches
   and actions. *)
THEOREM PageSettles == ASSUME Page!ConstantsAssumption PROVE Page!Spec => [](Page!SettledMatchIsConsistent)
<1>1. PageIInv => Page!SettledMatchIsConsistent
  BY PageIInvSuffices
<1> QED BY <1>1, PageInductive, PTL

HIDE DEF pageRoute, pageDetail, pageTab, pageTimeline, pageCached,
         pageInFlight, pageCalls, pageActions

-----------------------------------------------------------------------------
(***************************************************************************)
(* The ranks of the participants.                                          *)
(***************************************************************************)
USE DEF ranksStatus, ranksObs, ranksJob, ranksWork, ranksCall, ranksPage,
        ranksTodo, ranksCursor, ranksExcused

(* The finite sets of the instance are those of the library, and so are    *)
(* their cardinalities.                                                    *)
LEMMA RanksSameFiniteSets ==
  ASSUME NEW S
  PROVE  Ranks!IsFiniteSet(S) <=> IsFiniteSet(S)
BY DEF Ranks!IsFiniteSet, IsFiniteSet

LEMMA RanksSameCardinality ==
  ASSUME NEW S
  PROVE  Ranks!Cardinality(S) = Cardinality(S)
BY Zenon DEF Ranks!Cardinality, Cardinality

-----------------------------------------------------------------------------
(* The steps of an enqueue.                                                *)

LEMMA RanksEnqueueKeeps ==
  ASSUME RanksRunsInv, UNCHANGED <<ranksStatus, ranksObs, ranksWork>>,
         ranksJob' \in [RanksAccounts -> {"none", "done", "failed"} \cup Ranks!LiveStates],
         DOMAIN ranksCall' = Ranks!Callers,
         \A c \in Ranks!Callers : ranksCall'[c] = Ranks!NoCall \/ ranksCall'[c] \in [pc : {"look", "remove", "add"}, account : RanksAccounts],
         \A a \in RanksAccounts : ranksJob'[a] = "active" <=> ranksJob[a] = "active",
         \A a \in RanksAccounts : RanksCovered(a) => RanksCovered(a)' \/ ranksJob'[a] \in {"waiting", "delayed"},
         \A a \in RanksAccounts : RanksPursued(a) => RanksPursued(a)',
         \A a \in RanksAccounts : a \in ranksExcused => a \in ranksExcused' \/ ranksJob'[a] \in {"waiting", "delayed"},
         RanksAccount \in [RanksRows -> RanksAccounts]
  PROVE  RanksRunsInv'
<1>1. RanksTypes'
  BY DEF RanksRunsInv, RanksTypes
<1>2. \A w \in RanksWorkers : (RanksBusy(w)' <=> RanksBusy(w)) /\ (RanksOwns(w)' <=> RanksOwns(w)) /\ (RanksBusy(w) => ranksWork[w] \in RanksRunType)
  BY DEF RanksBusy, RanksOwns, RanksRunsInv, RanksTypes, Ranks!Idle
<1>3. \A w \in RanksWorkers : RanksOwns(w) => ranksWork[w].account \in RanksAccounts /\ ranksJob'[ranksWork[w].account] = "active"
  BY <1>2 DEF RanksRunsInv, RanksOneOwner, RanksRunType, RanksOwns
<1>4. RanksOneOwner'
  BY <1>2, <1>3 DEF RanksRunsInv, RanksOneOwner
<1>5. RanksRunsKnowTheirRows'
  BY <1>2, <1>3 DEF RanksRunsInv, RanksRunsKnowTheirRows
<1>6. RanksAsksAreNeeded'
  BY <1>2, <1>3 DEF RanksRunsInv, RanksAsksAreNeeded, Ranks!Reusable
<1>7. RanksRowsFollow'
  BY DEF RanksRunsInv, RanksRowsFollow
<1> QED BY <1>1, <1>4, <1>5, <1>6, <1>7 DEF RanksRunsInv

\* Where an enqueue is, and what becomes of it.
LEMMA RanksCallFacts ==
  ASSUME RanksTypes, NEW c \in Ranks!Callers, ranksCall[c].pc # "idle"
  PROVE  /\ ranksCall[c].account \in RanksAccounts /\ ranksCall[c].pc \in {"look", "remove", "add"}
         /\ RanksCalling(ranksCall[c].account)
         /\ \A pc \in {"look", "remove", "add"} :
              /\ [ranksCall EXCEPT ![c].pc = pc][c] = [pc |-> pc, account |-> ranksCall[c].account]
              /\ \A d \in Ranks!Callers : d # c => [ranksCall EXCEPT ![c].pc = pc][d] = ranksCall[d]
              /\ DOMAIN [ranksCall EXCEPT ![c].pc = pc] = Ranks!Callers
         /\ [ranksCall EXCEPT ![c] = Ranks!NoCall][c] = Ranks!NoCall
         /\ \A d \in Ranks!Callers : d # c => [ranksCall EXCEPT ![c] = Ranks!NoCall][d] = ranksCall[d]
         /\ DOMAIN [ranksCall EXCEPT ![c] = Ranks!NoCall] = Ranks!Callers
<1>1. ranksCall[c] \in [pc : {"look", "remove", "add"}, account : RanksAccounts]
  BY DEF RanksTypes, Ranks!NoCall
<1>2. DOMAIN ranksCall = Ranks!Callers
  BY DEF RanksTypes
<1> QED BY <1>1, <1>2 DEF RanksCalling

\* It goes on.
LEMMA RanksCallGoesOn ==
  ASSUME RanksTypes, NEW c \in Ranks!Callers, ranksCall[c].pc # "idle", NEW pc \in {"look", "remove", "add"},
         ranksCall' = [ranksCall EXCEPT ![c].pc = pc]
  PROVE  /\ DOMAIN ranksCall' = Ranks!Callers
         /\ \A d \in Ranks!Callers : ranksCall'[d] = Ranks!NoCall \/ ranksCall'[d] \in [pc : {"look", "remove", "add"}, account : RanksAccounts]
         /\ \A a \in RanksAccounts : RanksCalling(a) => RanksCalling(a)'
         /\ \A a \in RanksAccounts : a = ranksCall[c].account => RanksCalling(a)'
<1>1. /\ ranksCall'[c] = [pc |-> pc, account |-> ranksCall[c].account] /\ ranksCall[c].account \in RanksAccounts
      /\ \A d \in Ranks!Callers : d # c => ranksCall'[d] = ranksCall[d]
      /\ DOMAIN ranksCall' = Ranks!Callers
  BY RanksCallFacts
<1> QED BY <1>1 DEF RanksTypes, RanksCalling

\* It ends.
LEMMA RanksCallEnds ==
  ASSUME RanksTypes, NEW c \in Ranks!Callers, ranksCall[c].pc # "idle", ranksCall' = [ranksCall EXCEPT ![c] = Ranks!NoCall]
  PROVE  /\ DOMAIN ranksCall' = Ranks!Callers
         /\ \A d \in Ranks!Callers : ranksCall'[d] = Ranks!NoCall \/ ranksCall'[d] \in [pc : {"look", "remove", "add"}, account : RanksAccounts]
         /\ \A a \in RanksAccounts : a # ranksCall[c].account /\ RanksCalling(a) => RanksCalling(a)'
<1>1. /\ ranksCall'[c] = Ranks!NoCall /\ \A d \in Ranks!Callers : d # c => ranksCall'[d] = ranksCall[d]
      /\ DOMAIN ranksCall' = Ranks!Callers
  BY RanksCallFacts
<1> QED BY <1>1 DEF RanksTypes, RanksCalling

LEMMA RanksEnqueueSteps ==
  ASSUME RanksRunsInv, Ranks!ConstantsAssumption, NEW c \in Ranks!Callers, Ranks!Look(c) \/ Ranks!RemoveOld(c) \/ Ranks!Add(c) \/ Ranks!LoseEnqueue(c)
  PROVE  RanksRunsInv'
<1> DEFINE a == ranksCall[c].account
<1>1. /\ RanksAccount \in [RanksRows -> RanksAccounts] /\ UNCHANGED <<ranksStatus, ranksObs, ranksWork>> /\ RanksTypes
      /\ ranksCall[c].pc # "idle"
  BY DEF Ranks!ConstantsAssumption, Ranks!Look, Ranks!RemoveOld, Ranks!Add, Ranks!LoseEnqueue, RanksRunsInv
<1>2. a \in RanksAccounts /\ ranksCall[c].pc \in {"look", "remove", "add"}
  BY <1>1, RanksCallFacts
<1>3. CASE ranksCall' = [ranksCall EXCEPT ![c] = Ranks!NoCall] /\ UNCHANGED ranksJob /\ Ranks!Promise(a)
  <2>1. \A b \in RanksAccounts : b # a => (b \in ranksExcused => b \in ranksExcused') /\ ranksJob'[b] = ranksJob[b]
    BY <1>3 DEF Ranks!Promise
  <2>2. a \in ranksExcused' \/ ranksJob'[a] \in {"waiting", "delayed"}
    BY <1>3 DEF Ranks!Promise
  <2>3. \A b \in RanksAccounts : RanksCovered(b) => RanksCovered(b)' \/ ranksJob'[b] \in {"waiting", "delayed"}
    BY <1>1, <1>3, <2>1, <2>2, RanksCallEnds DEF RanksCovered
  <2>4. \A b \in RanksAccounts : RanksPursued(b) => RanksPursued(b)'
    BY <2>1, <2>2, <2>3, <1>3 DEF RanksPursued, Ranks!LiveStates
  <2> HIDE DEF a
  <2> QED BY <1>1, <1>3, <2>1, <2>2, <2>3, <2>4, RanksCallEnds, RanksEnqueueKeeps DEF RanksTypes
<1>4. CASE Ranks!Look(c) /\ ranksJob[a] \notin Ranks!LiveStates
  <2>1. PICK pc \in {"remove", "add"} : ranksCall' = [ranksCall EXCEPT ![c].pc = pc] /\ UNCHANGED <<ranksJob, ranksExcused>>
    BY <1>4 DEF Ranks!Look
  <2>2. \A b \in RanksAccounts : (RanksCovered(b) => RanksCovered(b)') /\ (RanksPursued(b) => RanksPursued(b)')
    BY <1>1, <2>1, RanksCallGoesOn DEF RanksCovered, RanksPursued
  <2> HIDE DEF a
  <2> QED BY <1>1, <2>1, <2>2, RanksCallGoesOn, RanksEnqueueKeeps DEF RanksTypes
<1>5. CASE Ranks!RemoveOld(c) /\ ranksJob[a] # "active"
  <2>1. /\ ranksCall' = [ranksCall EXCEPT ![c].pc = "add"] /\ UNCHANGED ranksExcused
        /\ ranksJob' = [ranksJob EXCEPT ![a] = "none"]
    BY <1>5 DEF Ranks!RemoveOld
  <2>2. \A b \in RanksAccounts : b # a => ranksJob'[b] = ranksJob[b]
    BY <2>1 DEF RanksTypes
  <2>3. ranksJob'[a] = "none" /\ ranksJob' \in [RanksAccounts -> {"none", "done", "failed"} \cup Ranks!LiveStates]
    BY <1>1, <1>2, <2>1 DEF RanksTypes
  <2>4. \A b \in RanksAccounts : (RanksCovered(b) => RanksCovered(b)') /\ (RanksPursued(b) => RanksPursued(b)')
    BY <1>1, <2>1, <2>2, RanksCallGoesOn DEF RanksCovered, RanksPursued
  <2> HIDE DEF a
  <2> QED BY <1>1, <1>5, <2>1, <2>2, <2>3, <2>4, RanksCallGoesOn, RanksEnqueueKeeps
<1>6. CASE Ranks!Add(c)
  <2>1. /\ ranksCall' = [ranksCall EXCEPT ![c] = Ranks!NoCall] /\ Ranks!Promise(a)
        /\ ranksJob' = IF ranksJob[a] = "none" THEN [ranksJob EXCEPT ![a] = "waiting"] ELSE ranksJob
    BY <1>6 DEF Ranks!Add
  <2>2. /\ \A b \in RanksAccounts : b # a => (b \in ranksExcused => b \in ranksExcused') /\ ranksJob'[b] = ranksJob[b]
        /\ ranksJob' \in [RanksAccounts -> {"none", "done", "failed"} \cup Ranks!LiveStates]
        /\ ranksJob[a] # "none" => ranksJob'[a] = ranksJob[a]
        /\ ranksJob[a] = "none" => ranksJob'[a] = "waiting"
    BY <1>1, <1>2, <2>1 DEF Ranks!Promise, RanksTypes, Ranks!LiveStates
  <2>3. a \in ranksExcused' \/ ranksJob'[a] \in {"waiting", "delayed"}
    BY <2>1 DEF Ranks!Promise
  <2>4. \A b \in RanksAccounts : RanksCovered(b) => RanksCovered(b)' \/ ranksJob'[b] \in {"waiting", "delayed"}
    BY <1>1, <2>1, <2>2, <2>3, RanksCallEnds DEF RanksCovered
  <2>5. \A b \in RanksAccounts : RanksPursued(b) => RanksPursued(b)'
    BY <2>2, <2>3, <2>4 DEF RanksPursued, Ranks!LiveStates, RanksCovered
  <2> HIDE DEF a
  <2> QED BY <1>1, <2>1, <2>2, <2>3, <2>4, <2>5, RanksCallEnds, RanksEnqueueKeeps
<1>7. CASE Ranks!LoseEnqueue(c)
  <2>1. /\ ranksCall' = [ranksCall EXCEPT ![c] = Ranks!NoCall] /\ ranksExcused' = ranksExcused \cup {a} /\ UNCHANGED ranksJob
    BY <1>7 DEF Ranks!LoseEnqueue
  <2>2. \A b \in RanksAccounts : (RanksCovered(b) => RanksCovered(b)') /\ (RanksPursued(b) => RanksPursued(b)')
    BY <1>1, <2>1, RanksCallEnds DEF RanksCovered, RanksPursued
  <2> HIDE DEF a
  <2> QED BY <1>1, <2>1, <2>2, RanksCallEnds, RanksEnqueueKeeps DEF RanksTypes
<1>8. \/ ranksCall' = [ranksCall EXCEPT ![c] = Ranks!NoCall] /\ UNCHANGED ranksJob /\ Ranks!Promise(a)
      \/ Ranks!Look(c) /\ ranksJob[a] \notin Ranks!LiveStates
      \/ Ranks!RemoveOld(c) /\ ranksJob[a] # "active"
      \/ Ranks!Add(c) \/ Ranks!LoseEnqueue(c)
  BY DEF Ranks!Look, Ranks!RemoveOld
<1> QED BY <1>3, <1>4, <1>5, <1>6, <1>7, <1>8

LEMMA RanksCommits ==
  ASSUME RanksRunsInv, Ranks!ConstantsAssumption, NEW r \in RanksRows, Ranks!Commit(r)
  PROVE  RanksRunsInv'
<1> DEFINE a == RanksAccount[r]
<1>1. a \in RanksAccounts /\ "hook" \in Ranks!Callers
  BY DEF Ranks!ConstantsAssumption, Ranks!Callers
<1>2. /\ ranksStatus' = [ranksStatus EXCEPT ![r] = "PENDING"] /\ ranksStatus[r] = "absent"
      /\ ranksCall["hook"] = Ranks!NoCall /\ ranksCall' = [ranksCall EXCEPT !["hook"] = [pc |-> "look", account |-> a]]
      /\ UNCHANGED <<ranksObs, ranksJob, ranksWork, ranksExcused>>
  BY DEF Ranks!Commit
<1> HIDE DEF a
<1>3. /\ ranksCall'["hook"] = [pc |-> "look", account |-> a] /\ DOMAIN ranksCall' = Ranks!Callers
      /\ \A c \in Ranks!Callers : c # "hook" => ranksCall'[c] = ranksCall[c]
      /\ \A q \in RanksRows : q # r => ranksStatus'[q] = ranksStatus[q]
      /\ ranksStatus' \in [RanksRows -> {"absent", "RESOLVED_RANKED", "RESOLVED_UNRANKED"} \cup Ranks!Unresolved]
  BY <1>1, <1>2 DEF RanksRunsInv, RanksTypes, Ranks!Unresolved
<1>4. RanksTypes'
  BY <1>1, <1>2, <1>3 DEF RanksRunsInv, RanksTypes
<1>5. \A b \in RanksAccounts : RanksCalling(b) => RanksCalling(b)'
  BY <1>2, <1>3 DEF RanksCalling, Ranks!NoCall
<1>6. \A b \in RanksAccounts : b = a => RanksCalling(b)'
  BY <1>1, <1>3 DEF RanksCalling
<1>7. \A b \in RanksAccounts : /\ RanksCovered(b) => RanksCovered(b)'
                               /\ RanksPursued(b) => RanksPursued(b)'
                               /\ b = a => RanksCovered(b)' /\ RanksPursued(b)'
  BY <1>2, <1>5, <1>6 DEF RanksCovered, RanksPursued
<1>8. \A w \in RanksWorkers : (RanksBusy(w)' <=> RanksBusy(w)) /\ (RanksOwns(w)' <=> RanksOwns(w)) /\ (RanksOwns(w) => ranksWork[w].account \in RanksAccounts)
  BY <1>2 DEF RanksBusy, RanksOwns, RanksRunsInv, RanksTypes, Ranks!Idle, RanksRunType
<1>9. RanksOneOwner'
  BY <1>2, <1>8 DEF RanksRunsInv, RanksOneOwner
<1>10. RanksRunsKnowTheirRows'
  BY <1>2, <1>3, <1>7, <1>8, a = RanksAccount[r] DEF RanksRunsInv, RanksRunsKnowTheirRows, a
<1>11. RanksAsksAreNeeded'
  BY <1>2, <1>8 DEF RanksRunsInv, RanksAsksAreNeeded, Ranks!Reusable
<1>12. RanksRowsFollow'
  BY <1>1, <1>2, <1>3, <1>7 DEF RanksRunsInv, RanksRowsFollow, a, Ranks!ConstantsAssumption
<1> QED BY <1>4, <1>9, <1>10, <1>11, <1>12 DEF RanksRunsInv

LEMMA RanksBackfillSteps ==
  ASSUME RanksRunsInv, Ranks!ConstantsAssumption, NEW a \in RanksAccounts, Ranks!BackfillNext(a)
  PROVE  RanksRunsInv'
<1>1. /\ ranksCall["backfill"] = Ranks!NoCall
      /\ ranksCall' = [ranksCall EXCEPT !["backfill"] = [pc |-> "look", account |-> a]]
      /\ UNCHANGED <<ranksStatus, ranksObs, ranksJob, ranksWork, ranksExcused>> /\ "backfill" \in Ranks!Callers
      /\ RanksAccount \in [RanksRows -> RanksAccounts]
  BY DEF Ranks!BackfillNext, Ranks!Callers, Ranks!ConstantsAssumption
<1>2. /\ DOMAIN ranksCall' = Ranks!Callers
      /\ \A c \in Ranks!Callers : ranksCall'[c] = Ranks!NoCall \/ ranksCall'[c] \in [pc : {"look", "remove", "add"}, account : RanksAccounts]
      /\ \A c \in Ranks!Callers : c # "backfill" => ranksCall'[c] = ranksCall[c]
  BY <1>1 DEF RanksRunsInv, RanksTypes
<1>3. \A b \in RanksAccounts : RanksCalling(b) => RanksCalling(b)'
  BY <1>1, <1>2 DEF RanksCalling, Ranks!NoCall
<1>4. \A b \in RanksAccounts : (RanksCovered(b) => RanksCovered(b)') /\ (RanksPursued(b) => RanksPursued(b)')
  BY <1>1, <1>3 DEF RanksCovered, RanksPursued
<1>5. ranksJob' \in [RanksAccounts -> {"none", "done", "failed"} \cup Ranks!LiveStates]
  BY <1>1 DEF RanksRunsInv, RanksTypes
<1> QED BY <1>1, <1>2, <1>4, <1>5, RanksEnqueueKeeps

-----------------------------------------------------------------------------
(* The steps of a run.                                                     *)

LEMMA RanksRunFacts ==
  ASSUME RanksRunsInv, NEW w \in RanksWorkers, ranksWork[w] # Ranks!Idle
  PROVE  /\ ranksWork[w] \in RanksRunType /\ RanksBusy(w) /\ ranksWork[w].account \in RanksAccounts
         /\ Ranks!Holds(w) <=> RanksOwns(w)
BY DEF RanksRunsInv, RanksTypes, RanksOneOwner, RanksRunType, RanksBusy, RanksOwns, Ranks!Holds

\* A run whose process counter is at a step is under way.
LEMMA RanksNotIdle ==
  ASSUME NEW w \in RanksWorkers, ranksWork[w].pc \in {"load", "ask", "apply"}
  PROVE  ranksWork[w] # Ranks!Idle
BY DEF Ranks!Idle

\* What does not change the lock of a job leaves the owners as they are.
LEMMA RanksRunEnds ==
  ASSUME RanksRunsInv, NEW w \in RanksWorkers, ranksWork[w] # Ranks!Idle, NEW state \in {"done", "failed", "delayed", "waiting"},
         Ranks!End(w, state)
  PROVE  /\ DOMAIN ranksWork' = RanksWorkers /\ \A v \in RanksWorkers : ranksWork'[v] = Ranks!Idle \/ ranksWork'[v] \in RanksRunType
         /\ ranksWork'[w] = Ranks!Idle /\ \A v \in RanksWorkers : v # w => ranksWork'[v] = ranksWork[v]
         /\ ranksJob' \in [RanksAccounts -> {"none", "done", "failed"} \cup Ranks!LiveStates]
         /\ RanksOwns(w) => ranksJob'[ranksWork[w].account] = state
         /\ \A b \in RanksAccounts : ~RanksOwns(w) \/ b # ranksWork[w].account => ranksJob'[b] = ranksJob[b]
         /\ \A v \in RanksWorkers : /\ RanksBusy(v)' => v # w /\ RanksBusy(v) /\ ranksWork'[v] = ranksWork[v]
                                    /\ RanksOwns(v)' => v # w /\ RanksOwns(v) /\ ranksWork'[v] = ranksWork[v]
         /\ RanksOneOwner'
<1>1. /\ ranksWork[w] \in RanksRunType /\ RanksBusy(w) /\ ranksWork[w].account \in RanksAccounts /\ (Ranks!Holds(w) <=> RanksOwns(w))
  BY RanksRunFacts
<1>2. /\ ranksWork' = [ranksWork EXCEPT ![w] = Ranks!Idle]
      /\ ranksJob' = IF RanksOwns(w) THEN [ranksJob EXCEPT ![ranksWork[w].account] = state] ELSE ranksJob
  BY <1>1 DEF Ranks!End
<1>3. /\ DOMAIN ranksWork' = RanksWorkers /\ \A v \in RanksWorkers : ranksWork'[v] = Ranks!Idle \/ ranksWork'[v] \in RanksRunType
      /\ ranksWork'[w] = Ranks!Idle /\ \A v \in RanksWorkers : v # w => ranksWork'[v] = ranksWork[v]
  BY <1>2 DEF RanksRunsInv, RanksTypes
<1>4. /\ ranksJob' \in [RanksAccounts -> {"none", "done", "failed"} \cup Ranks!LiveStates]
      /\ RanksOwns(w) => ranksJob'[ranksWork[w].account] = state
      /\ \A b \in RanksAccounts : ~RanksOwns(w) \/ b # ranksWork[w].account => ranksJob'[b] = ranksJob[b]
  BY <1>1, <1>2 DEF RanksRunsInv, RanksTypes, Ranks!LiveStates
<1>5. \A v \in RanksWorkers : /\ RanksBusy(v)' => v # w /\ RanksBusy(v) /\ ranksWork'[v] = ranksWork[v]
                              /\ RanksOwns(v)' => v # w /\ RanksOwns(v) /\ ranksWork'[v] = ranksWork[v]
  BY <1>3 DEF RanksBusy, RanksOwns, Ranks!Idle
<1>6. RanksOneOwner'
  <2>1. ASSUME NEW v \in RanksWorkers, RanksOwns(v)'
        PROVE  ranksJob'[ranksWork'[v].account] = "active"
    <3>1. v # w /\ RanksOwns(v) /\ ranksWork'[v] = ranksWork[v] /\ ranksWork[v].account \in RanksAccounts /\ ranksJob[ranksWork[v].account] = "active"
      BY <2>1, <1>5 DEF RanksRunsInv, RanksOneOwner, RanksTypes, RanksRunType, RanksOwns, RanksBusy, Ranks!Idle
    <3>2. ~RanksOwns(w) \/ ranksWork[v].account # ranksWork[w].account
      BY <3>1 DEF RanksRunsInv, RanksOneOwner
    <3> QED BY <3>1, <3>2, <1>4
  <2> QED BY <2>1, <1>5 DEF RanksRunsInv, RanksOneOwner
<1> QED BY <1>3, <1>4, <1>5, <1>6

\* A run that ends, with what it has written.
LEMMA RanksRunEndKeeps ==
  ASSUME RanksRunsInv, Ranks!ConstantsAssumption, NEW w \in RanksWorkers, ranksWork[w] # Ranks!Idle,
         NEW state \in {"done", "failed", "delayed", "waiting"}, Ranks!End(w, state),
         UNCHANGED <<ranksObs, ranksCall>>, ranksExcused \subseteq ranksExcused',
         ranksStatus' \in [RanksRows -> {"absent", "RESOLVED_RANKED", "RESOLVED_UNRANKED"} \cup Ranks!Unresolved],
         \A r \in RanksRows : ranksStatus'[r] \in Ranks!Unresolved =>
           \/ ranksStatus[r] \in Ranks!Unresolved
           \/ RanksAccount[r] = ranksWork[w].account /\ (RanksOwns(w) \/ ranksWork[w].account \in ranksExcused'),
         state = "done" /\ RanksOwns(w) =>
           \A r \in RanksRows : ranksStatus'[r] \in Ranks!Unresolved /\ RanksAccount[r] = ranksWork[w].account => RanksCovered(RanksAccount[r])
  PROVE  RanksRunsInv'
<1>1. /\ DOMAIN ranksWork' = RanksWorkers /\ \A v \in RanksWorkers : ranksWork'[v] = Ranks!Idle \/ ranksWork'[v] \in RanksRunType
      /\ ranksJob' \in [RanksAccounts -> {"none", "done", "failed"} \cup Ranks!LiveStates]
      /\ RanksOwns(w) => ranksJob'[ranksWork[w].account] = state
      /\ \A b \in RanksAccounts : ~RanksOwns(w) \/ b # ranksWork[w].account => ranksJob'[b] = ranksJob[b]
      /\ \A v \in RanksWorkers : /\ RanksBusy(v)' => v # w /\ RanksBusy(v) /\ ranksWork'[v] = ranksWork[v]
                                 /\ RanksOwns(v)' => v # w /\ RanksOwns(v) /\ ranksWork'[v] = ranksWork[v]
      /\ RanksOneOwner'
  BY RanksRunEnds
<1>2. RanksTypes'
  BY <1>1 DEF RanksRunsInv, RanksTypes
<1>3. \A b \in RanksAccounts : RanksCovered(b) => RanksCovered(b)'
  BY DEF RanksCovered, RanksCalling
<1>4. \A v \in RanksWorkers : RanksOwns(v) => ranksWork[v].account \in RanksAccounts
  BY DEF RanksRunsInv, RanksTypes, RanksRunType, RanksOwns, RanksBusy, Ranks!Idle
<1>5. RanksRunsKnowTheirRows'
  <2>1. ASSUME NEW v \in RanksWorkers, RanksOwns(v)', ranksWork'[v].pc # "load", NEW r \in RanksRows,
               RanksAccount[r] = ranksWork'[v].account, ranksStatus'[r] \in Ranks!Unresolved, r \notin ranksWork'[v].rows
        PROVE  RanksCovered(ranksWork[v].account)'
    <3>1. v # w /\ RanksOwns(v) /\ ranksWork'[v] = ranksWork[v] /\ ranksWork[v].account \in RanksAccounts
      BY <2>1, <1>1, <1>4
    <3>2. CASE ranksStatus[r] \in Ranks!Unresolved
      BY <2>1, <3>1, <3>2, <1>3 DEF RanksRunsInv, RanksRunsKnowTheirRows
    <3>3. CASE ranksStatus[r] \notin Ranks!Unresolved
      <4>1. RanksAccount[r] = ranksWork[w].account /\ (RanksOwns(w) \/ ranksWork[w].account \in ranksExcused')
        BY <2>1, <3>3
      <4>2. ~RanksOwns(w)
        BY <4>1, <3>1, <2>1 DEF RanksRunsInv, RanksOneOwner
      <4> QED BY <4>1, <4>2, <3>1, <2>1 DEF RanksCovered
    <3> QED BY <3>2, <3>3
  <2>2. \A v \in RanksWorkers : RanksOwns(v)' => ranksWork'[v] = ranksWork[v]
    BY <1>1
  <2>3. \A v \in RanksWorkers :
          /\ RanksBusy(v)' => \A r \in ranksWork'[v].rows : RanksAccount[r] = ranksWork'[v].account
          /\ ranksWork'[v].pc = "apply" => ranksWork'[v].answer \in RanksRunAnswers
          /\ ranksWork'[v].pc = "ask" => ranksWork'[v].answer = None
    BY <1>1 DEF RanksRunsInv, RanksRunsKnowTheirRows, RanksBusy
  <2> QED BY <2>1, <2>2, <2>3 DEF RanksRunsKnowTheirRows
<1>6. RanksAsksAreNeeded'
  BY <1>1 DEF RanksRunsInv, RanksAsksAreNeeded, Ranks!Reusable
<1>7. RanksRowsFollow'
  <2>1. ASSUME NEW r \in RanksRows, ranksStatus'[r] \in Ranks!Unresolved
        PROVE  RanksPursued(RanksAccount[r])'
    <3>1. RanksAccount[r] \in RanksAccounts
      BY DEF Ranks!ConstantsAssumption
    <3>2. CASE RanksOwns(w) /\ RanksAccount[r] = ranksWork[w].account
      <4>1. CASE state = "done"
        <5>1. RanksCovered(RanksAccount[r])
          BY <2>1, <3>2, <4>1
        <5> QED BY <5>1, <1>3, <3>1 DEF RanksPursued
      <4>2. CASE state # "done"
        BY <1>1, <3>2, <4>2 DEF RanksPursued, Ranks!LiveStates
      <4> QED BY <4>1, <4>2
    <3>3. CASE ~(RanksOwns(w) /\ RanksAccount[r] = ranksWork[w].account)
      <4>1. ranksJob'[RanksAccount[r]] = ranksJob[RanksAccount[r]]
        BY <1>1, <3>1, <3>3
      <4>2. ranksStatus[r] \in Ranks!Unresolved \/ RanksAccount[r] \in ranksExcused'
        BY <2>1, <3>3
      <4> QED BY <4>1, <4>2, <3>1, <1>3 DEF RanksRunsInv, RanksRowsFollow, RanksPursued, RanksCovered
    <3> QED BY <3>2, <3>3
  <2> QED BY <2>1 DEF RanksRowsFollow
<1> QED BY <1>1, <1>2, <1>5, <1>6, <1>7 DEF RanksRunsInv

LEMMA RanksRunsEnd ==
  ASSUME RanksRunsInv, Ranks!ConstantsAssumption, NEW w \in RanksWorkers, Ranks!Deferred(w) \/ Ranks!RunFails(w)
  PROVE  RanksRunsInv'
<1>1. ranksWork[w] # Ranks!Idle
  BY RanksNotIdle DEF Ranks!Deferred, Ranks!RunFails
<1>2. PICK state \in {"delayed", "waiting", "failed"} : Ranks!End(w, state)
  BY DEF Ranks!Deferred, Ranks!RunFails, Ranks!AfterRun
<1>3. UNCHANGED <<ranksStatus, ranksObs, ranksCall, ranksExcused>>
  BY DEF Ranks!Deferred, Ranks!RunFails
<1>4. ranksStatus' \in [RanksRows -> {"absent", "RESOLVED_RANKED", "RESOLVED_UNRANKED"} \cup Ranks!Unresolved]
  BY <1>3 DEF RanksRunsInv, RanksTypes
<1> QED BY <1>1, <1>2, <1>3, <1>4, RanksRunEndKeeps

\* What an answer makes of the job, and of the rows.
LEMMA RanksAnswerFacts ==
  ASSUME Ranks!ConstantsAssumption, NEW answer \in RanksRunAnswers
  PROVE  /\ Ranks!AfterRun(answer) \in {"done", "failed", "delayed"}
         /\ Ranks!AfterRun(answer) = "done" => Ranks!ResolutionOf(answer) \notin Ranks!Unresolved
         /\ Ranks!ResolutionOf(answer) \in {"RESOLVED_RANKED", "RESOLVED_UNRANKED", "FAILED_RETRYABLE"}
         /\ answer # None
BY DEF Ranks!ConstantsAssumption, RanksRunAnswers, Ranks!AfterRun, Ranks!ResolutionOf, Ranks!Unresolved

LEMMA RanksApplies ==
  ASSUME RanksRunsInv, Ranks!ConstantsAssumption, NEW w \in RanksWorkers, Ranks!Apply(w)
  PROVE  RanksRunsInv'
<1> DEFINE answer == ranksWork[w].answer
           state == Ranks!AfterRun(answer)
<1>1. ranksWork[w] # Ranks!Idle /\ ranksWork[w].pc = "apply"
  BY RanksNotIdle DEF Ranks!Apply
<1>2. /\ ranksWork[w] \in RanksRunType /\ RanksBusy(w) /\ ranksWork[w].account \in RanksAccounts /\ (Ranks!Holds(w) <=> RanksOwns(w))
  BY <1>1, RanksRunFacts
<1>3. /\ answer \in RanksRunAnswers
      /\ \A r \in ranksWork[w].rows : RanksAccount[r] = ranksWork[w].account
      /\ RanksOwns(w) => \A r \in RanksRows : RanksAccount[r] = ranksWork[w].account /\ ranksStatus[r] \in Ranks!Unresolved /\ r \notin ranksWork[w].rows =>
                      RanksCovered(ranksWork[w].account)
  BY <1>1, <1>2 DEF RanksRunsInv, RanksRunsKnowTheirRows
<1>4. /\ state \in {"done", "failed", "delayed"}
      /\ state = "done" => Ranks!ResolutionOf(answer) \notin Ranks!Unresolved
      /\ Ranks!ResolutionOf(answer) \in {"RESOLVED_RANKED", "RESOLVED_UNRANKED", "FAILED_RETRYABLE"}
  BY <1>3, RanksAnswerFacts
<1>5. /\ Ranks!End(w, state) /\ UNCHANGED <<ranksObs, ranksCall>>
      /\ ranksStatus' = [r \in RanksRows |-> IF r \in ranksWork[w].rows THEN Ranks!ResolutionOf(answer) ELSE ranksStatus[r]]
      /\ ranksExcused' = IF RanksOwns(w) THEN ranksExcused ELSE ranksExcused \cup {ranksWork[w].account}
  BY <1>2 DEF Ranks!Apply, Ranks!Excuse
<1> HIDE DEF answer, state
<1>6. ranksStatus' \in [RanksRows -> {"absent", "RESOLVED_RANKED", "RESOLVED_UNRANKED"} \cup Ranks!Unresolved]
  BY <1>4, <1>5 DEF RanksRunsInv, RanksTypes, Ranks!Unresolved
<1>7. \A r \in RanksRows : ranksStatus'[r] \in Ranks!Unresolved =>
        \/ ranksStatus[r] \in Ranks!Unresolved
        \/ RanksAccount[r] = ranksWork[w].account /\ (RanksOwns(w) \/ ranksWork[w].account \in ranksExcused')
  BY <1>3, <1>5
<1>8. state = "done" /\ RanksOwns(w) =>
        \A r \in RanksRows : ranksStatus'[r] \in Ranks!Unresolved /\ RanksAccount[r] = ranksWork[w].account => RanksCovered(RanksAccount[r])
  BY <1>3, <1>4, <1>5
<1>9. ranksExcused \subseteq ranksExcused'
  BY <1>5
<1> QED BY <1>1, <1>4, <1>5, <1>6, <1>7, <1>8, <1>9, RanksRunEndKeeps

LEMMA RanksStarts ==
  ASSUME RanksRunsInv, Ranks!ConstantsAssumption, NEW w \in RanksWorkers, NEW a \in RanksAccounts, Ranks!Start(w, a)
  PROVE  RanksRunsInv'
<1> DEFINE answer == IF Ranks!Reusable(a) THEN ranksObs[a].status ELSE None
           run == [pc |-> "load", account |-> a, owner |-> TRUE, rows |-> {}, answer |-> answer]
<1>1. /\ ranksWork[w] = Ranks!Idle /\ ranksJob[a] = "waiting" /\ ranksJob' = [ranksJob EXCEPT ![a] = "active"]
      /\ ranksWork' = [ranksWork EXCEPT ![w] = run] /\ UNCHANGED <<ranksStatus, ranksObs, ranksCall, ranksExcused>>
  BY DEF Ranks!Start
<1>2. answer \in {None} \cup RanksRunAnswers /\ (answer = None => ~Ranks!Reusable(a))
  BY DEF RanksRunAnswers, Ranks!Reusable, Ranks!ReusableAnswers, Ranks!ConstantsAssumption
<1>3. run \in RanksRunType
  BY <1>2 DEF RanksRunType
<1>4. /\ DOMAIN ranksWork' = RanksWorkers /\ ranksWork'[w] = run
      /\ \A v \in RanksWorkers : v # w => ranksWork'[v] = ranksWork[v]
      /\ ranksJob'[a] = "active" /\ \A b \in RanksAccounts : b # a => ranksJob'[b] = ranksJob[b]
      /\ ranksJob' \in [RanksAccounts -> {"none", "done", "failed"} \cup Ranks!LiveStates]
  BY <1>1 DEF RanksRunsInv, RanksTypes, Ranks!LiveStates
<1>5. /\ run.pc = "load" /\ run.account = a /\ run.owner = TRUE /\ run.rows = {} /\ run.answer = answer
  OBVIOUS
<1> HIDE DEF answer, run
<1>6. RanksTypes'
  BY <1>1, <1>3, <1>4 DEF RanksRunsInv, RanksTypes
<1>7. \A v \in RanksWorkers : RanksOwns(v) => v # w /\ ranksWork[v].account \in RanksAccounts /\ ranksWork[v].account # a
  BY <1>1 DEF RanksOwns, RanksBusy, Ranks!Idle, RanksRunsInv, RanksOneOwner, RanksTypes, RanksRunType
<1>8. \A v \in RanksWorkers : v # w => (RanksOwns(v)' <=> RanksOwns(v)) /\ (RanksBusy(v)' <=> RanksBusy(v)) /\ ranksWork'[v] = ranksWork[v]
  BY <1>4 DEF RanksOwns, RanksBusy
<1>9. RanksOneOwner'
  BY <1>4, <1>5, <1>7, <1>8 DEF RanksRunsInv, RanksOneOwner
<1>10. \A b \in RanksAccounts : RanksCovered(b) => RanksCovered(b)'
  BY <1>1 DEF RanksCovered, RanksCalling
<1>11. RanksRunsKnowTheirRows'
  BY <1>1, <1>4, <1>5, <1>7, <1>8, <1>10 DEF RanksRunsInv, RanksRunsKnowTheirRows
<1>12. RanksAsksAreNeeded'
  BY <1>1, <1>2, <1>4, <1>5, <1>8 DEF RanksRunsInv, RanksAsksAreNeeded, Ranks!Reusable
<1>13. RanksRowsFollow'
  <2>1. \A b \in RanksAccounts : RanksPursued(b) => RanksPursued(b)'
    BY <1>4, <1>10 DEF RanksPursued, Ranks!LiveStates
  <2> QED BY <1>1, <2>1 DEF RanksRunsInv, RanksRowsFollow, Ranks!ConstantsAssumption
<1> QED BY <1>6, <1>9, <1>11, <1>12, <1>13 DEF RanksRunsInv

\* A run that goes on at its next step, with what it now knows.
LEMMA RanksRunGoesOn ==
  ASSUME RanksRunsInv, NEW w \in RanksWorkers, ranksWork[w] # Ranks!Idle,
         NEW run \in RanksRunType, ranksWork' = [ranksWork EXCEPT ![w] = run],
         run.account = ranksWork[w].account, run.owner => ranksWork[w].owner
  PROVE  /\ DOMAIN ranksWork' = RanksWorkers /\ ranksWork'[w] = run /\ \A v \in RanksWorkers : v # w => ranksWork'[v] = ranksWork[v]
         /\ \A v \in RanksWorkers : ranksWork'[v] = Ranks!Idle \/ ranksWork'[v] \in RanksRunType
         /\ \A v \in RanksWorkers : v # w => (RanksOwns(v)' <=> RanksOwns(v)) /\ (RanksBusy(v)' <=> RanksBusy(v))
         /\ RanksOwns(w)' => RanksOwns(w)
         /\ UNCHANGED ranksJob => RanksOneOwner'
<1>1. ranksWork[w] \in RanksRunType /\ RanksBusy(w)
  BY RanksRunFacts
<1>2. /\ DOMAIN ranksWork' = RanksWorkers /\ ranksWork'[w] = run /\ \A v \in RanksWorkers : v # w => ranksWork'[v] = ranksWork[v]
      /\ \A v \in RanksWorkers : ranksWork'[v] = Ranks!Idle \/ ranksWork'[v] \in RanksRunType
  BY DEF RanksRunsInv, RanksTypes
<1>3. \A v \in RanksWorkers : v # w => (RanksOwns(v)' <=> RanksOwns(v)) /\ (RanksBusy(v)' <=> RanksBusy(v))
  BY <1>2 DEF RanksOwns, RanksBusy
<1>4. RanksOwns(w)' => RanksOwns(w)
  BY <1>1, <1>2 DEF RanksOwns, RanksBusy
<1>5. UNCHANGED ranksJob => RanksOneOwner'
  <2>1. \A v \in RanksWorkers : RanksOwns(v)' => RanksOwns(v) /\ ranksWork'[v].account = ranksWork[v].account
    BY <1>2, <1>3, <1>4
  <2> QED BY <2>1 DEF RanksRunsInv, RanksOneOwner
<1> QED BY <1>2, <1>3, <1>4, <1>5

LEMMA RanksLoads ==
  ASSUME RanksRunsInv, Ranks!ConstantsAssumption, NEW w \in RanksWorkers, Ranks!Load(w)
  PROVE  RanksRunsInv'
<1> DEFINE a == ranksWork[w].account
           rows == Ranks!UnresolvedOf(a)
           pc == IF ranksWork[w].answer = None THEN "ask" ELSE "apply"
           run == [ranksWork[w] EXCEPT !.rows = rows, !.pc = pc]
<1>1. ranksWork[w] # Ranks!Idle /\ ranksWork[w].pc = "load"
  BY RanksNotIdle DEF Ranks!Load
<1>2. ranksWork[w] \in RanksRunType /\ a \in RanksAccounts
  BY <1>1, RanksRunFacts
<1>3. ranksWork' = [ranksWork EXCEPT ![w] = run] /\ UNCHANGED <<ranksStatus, ranksObs, ranksJob, ranksCall, ranksExcused>>
  BY DEF Ranks!Load
<1>4. /\ rows \in SUBSET RanksRows /\ \A r \in RanksRows : r \in rows <=> RanksAccount[r] = a /\ ranksStatus[r] \in Ranks!Unresolved
  BY DEF Ranks!UnresolvedOf
<1>5. pc \in {"ask", "apply"} /\ (pc = "ask" <=> ranksWork[w].answer = None)
  OBVIOUS
<1>6. /\ run \in RanksRunType /\ run.account = a /\ run.owner = ranksWork[w].owner /\ run.rows = rows /\ run.pc = pc
      /\ run.answer = ranksWork[w].answer
  <2> HIDE DEF rows, pc
  <2> QED BY <1>2, <1>4, <1>5 DEF RanksRunType
<1> HIDE DEF a, rows, pc, run
<1>7. /\ DOMAIN ranksWork' = RanksWorkers /\ ranksWork'[w] = run /\ \A v \in RanksWorkers : v # w => ranksWork'[v] = ranksWork[v]
      /\ \A v \in RanksWorkers : ranksWork'[v] = Ranks!Idle \/ ranksWork'[v] \in RanksRunType
      /\ \A v \in RanksWorkers : v # w => (RanksOwns(v)' <=> RanksOwns(v)) /\ (RanksBusy(v)' <=> RanksBusy(v))
      /\ RanksOwns(w)' => RanksOwns(w)
      /\ RanksOneOwner'
  BY <1>1, <1>3, <1>6, RanksRunGoesOn DEF a
<1>8. RanksTypes'
  BY <1>3, <1>7 DEF RanksRunsInv, RanksTypes
<1>9. \A b \in RanksAccounts : RanksCovered(b) => RanksCovered(b)'
  BY <1>3 DEF RanksCovered, RanksCalling
<1>10. \A v \in RanksWorkers : RanksOwns(v) => ranksWork[v].account \in RanksAccounts
  BY DEF RanksRunsInv, RanksTypes, RanksRunType, RanksOwns, RanksBusy, Ranks!Idle
<1>11. RanksRunsKnowTheirRows'
  <2>1. (run.pc = "apply" => run.answer \in RanksRunAnswers) /\ (run.pc = "ask" => run.answer = None)
    BY <1>2, <1>5, <1>6 DEF RanksRunType
  <2>2. \A r \in run.rows : RanksAccount[r] = run.account
    BY <1>4, <1>6
  <2>3. \A r \in RanksRows : RanksAccount[r] = run.account /\ ranksStatus[r] \in Ranks!Unresolved => r \in run.rows
    BY <1>4, <1>6
  <2> QED BY <1>3, <1>7, <1>9, <1>10, <2>1, <2>2, <2>3 DEF RanksRunsInv, RanksRunsKnowTheirRows
<1>12. RanksAsksAreNeeded'
  BY <1>1, <1>3, <1>6, <1>7 DEF RanksRunsInv, RanksAsksAreNeeded, Ranks!Reusable, a
<1>13. RanksRowsFollow'
  BY <1>3, <1>9 DEF RanksRunsInv, RanksRowsFollow, RanksPursued, Ranks!ConstantsAssumption
<1> QED BY <1>7, <1>8, <1>11, <1>12, <1>13 DEF RanksRunsInv

LEMMA RanksAsks ==
  ASSUME RanksRunsInv, Ranks!ConstantsAssumption, NEW w \in RanksWorkers, NEW answer \in RanksAnswers, Ranks!Ask(w, answer)
  PROVE  RanksRunsInv'
<1> DEFINE a == ranksWork[w].account
           new == [status |-> Ranks!ResolutionOf(answer), fresh |-> TRUE]
           run == [ranksWork[w] EXCEPT !.pc = "apply", !.answer = answer]
<1>1. ranksWork[w] # Ranks!Idle /\ ranksWork[w].pc = "ask"
  BY RanksNotIdle DEF Ranks!Ask
<1>2. ranksWork[w] \in RanksRunType /\ a \in RanksAccounts /\ (Ranks!Holds(w) <=> RanksOwns(w)) /\ RanksBusy(w)
  BY <1>1, RanksRunFacts
<1>3. PICK latest \in {new, ranksObs[a]} : ranksObs' = [ranksObs EXCEPT ![a] = latest]
  BY DEF Ranks!Ask
<1>4. /\ ranksWork' = [ranksWork EXCEPT ![w] = run] /\ UNCHANGED <<ranksStatus, ranksJob, ranksCall>>
      /\ ranksExcused' = IF RanksOwns(w) THEN ranksExcused ELSE ranksExcused \cup {a}
  BY <1>2 DEF Ranks!Ask, Ranks!Excuse
<1>5. answer \in RanksRunAnswers
  BY DEF RanksRunAnswers
<1>6. /\ run \in RanksRunType /\ run.account = a /\ run.owner = ranksWork[w].owner /\ run.rows = ranksWork[w].rows
      /\ run.pc = "apply" /\ run.answer = answer
  BY <1>2, <1>5 DEF RanksRunType
<1>7. new \in [status : {"RESOLVED_RANKED", "RESOLVED_UNRANKED", "FAILED_RETRYABLE"}, fresh : BOOLEAN]
  BY <1>5, RanksAnswerFacts
<1>8. ranksObs' \in [RanksAccounts -> {None} \cup
                [status : {"RESOLVED_RANKED", "RESOLVED_UNRANKED", "FAILED_RETRYABLE"}, fresh : BOOLEAN]]
      /\ \A b \in RanksAccounts : b # a => ranksObs'[b] = ranksObs[b]
  <2> HIDE DEF new
  <2> QED BY <1>2, <1>3, <1>7 DEF RanksRunsInv, RanksTypes
<1> HIDE DEF a, new, run
<1>9. /\ DOMAIN ranksWork' = RanksWorkers /\ ranksWork'[w] = run /\ \A v \in RanksWorkers : v # w => ranksWork'[v] = ranksWork[v]
      /\ \A v \in RanksWorkers : ranksWork'[v] = Ranks!Idle \/ ranksWork'[v] \in RanksRunType
      /\ \A v \in RanksWorkers : v # w => (RanksOwns(v)' <=> RanksOwns(v)) /\ (RanksBusy(v)' <=> RanksBusy(v))
      /\ RanksOwns(w)' => RanksOwns(w)
      /\ RanksOneOwner'
  BY <1>1, <1>4, <1>6, RanksRunGoesOn DEF a
<1>10. RanksTypes'
  BY <1>4, <1>8, <1>9 DEF RanksRunsInv, RanksTypes
<1>11. \A b \in RanksAccounts : RanksCovered(b) => RanksCovered(b)'
  BY <1>4 DEF RanksCovered, RanksCalling
<1>12. \A v \in RanksWorkers : RanksOwns(v) => ranksWork[v].account \in RanksAccounts
  BY DEF RanksRunsInv, RanksTypes, RanksRunType, RanksOwns, RanksBusy, Ranks!Idle
<1>13. RanksRunsKnowTheirRows'
  <2>1. run.answer \in RanksRunAnswers /\ \A r \in run.rows : RanksAccount[r] = run.account
    BY <1>2, <1>5, <1>6 DEF RanksRunsInv, RanksRunsKnowTheirRows, a
  <2>2. \A b \in RanksAccounts : b = a /\ RanksOwns(w) =>
          \A r \in RanksRows : RanksAccount[r] = b /\ ranksStatus[r] \in Ranks!Unresolved /\ r \notin run.rows => RanksCovered(b)'
    BY <1>1, <1>6, <1>11 DEF RanksRunsInv, RanksRunsKnowTheirRows, a
  <2>3. \A r \in RanksRows : RanksOwns(w)' /\ RanksAccount[r] = ranksWork'[w].account /\ ranksStatus'[r] \in Ranks!Unresolved /\ r \notin ranksWork'[w].rows =>
          RanksCovered(ranksWork[w].account)'
    BY <1>2, <1>4, <1>6, <1>9, <2>2 DEF a
  <2> QED BY <1>4, <1>6, <1>9, <1>11, <1>12, <2>1, <2>3 DEF RanksRunsInv, RanksRunsKnowTheirRows, a
<1>14. RanksAsksAreNeeded'
  <2>1. ASSUME NEW v \in RanksWorkers, RanksOwns(v)', ranksWork'[v].pc # "apply", ranksWork'[v].answer = None
        PROVE  ~Ranks!Reusable(ranksWork[v].account)' \/ ranksWork[v].account \in ranksExcused'
    <3>1. v # w /\ RanksOwns(v) /\ ranksWork'[v] = ranksWork[v] /\ ranksWork[v].account \in RanksAccounts
      BY <2>1, <1>6, <1>9, <1>12
    <3>2. CASE ranksWork[v].account = a
      BY <3>1, <3>2, <1>2, <1>4 DEF RanksRunsInv, RanksOneOwner, a
    <3>3. CASE ranksWork[v].account # a
      BY <3>1, <3>3, <2>1, <1>4, <1>8 DEF RanksRunsInv, RanksAsksAreNeeded, Ranks!Reusable
    <3> QED BY <3>2, <3>3
  <2>2. \A v \in RanksWorkers : RanksOwns(v)' /\ ranksWork'[v].pc # "apply" => ranksWork'[v] = ranksWork[v]
    BY <1>6, <1>9
  <2> QED BY <2>1, <2>2 DEF RanksAsksAreNeeded, Ranks!Reusable
<1>15. RanksRowsFollow'
  BY <1>4, <1>11 DEF RanksRunsInv, RanksRowsFollow, RanksPursued, Ranks!ConstantsAssumption
<1> QED BY <1>9, <1>10, <1>13, <1>14, <1>15 DEF RanksRunsInv

LEMMA RanksStalls ==
  ASSUME RanksRunsInv, Ranks!ConstantsAssumption, NEW w \in RanksWorkers, Ranks!Stall(w)
  PROVE  RanksRunsInv'
<1> DEFINE a == ranksWork[w].account
           run == [ranksWork[w] EXCEPT !.owner = FALSE]
<1>1. ranksWork[w] # Ranks!Idle /\ Ranks!Holds(w)
  BY DEF Ranks!Stall
<1>2. ranksWork[w] \in RanksRunType /\ a \in RanksAccounts /\ RanksOwns(w)
  BY <1>1, RanksRunFacts
<1>3. /\ ranksWork' = [ranksWork EXCEPT ![w] = run] /\ ranksJob' = [ranksJob EXCEPT ![a] = "waiting"]
      /\ UNCHANGED <<ranksStatus, ranksObs, ranksCall, ranksExcused>>
  BY DEF Ranks!Stall
<1>4. /\ run \in RanksRunType /\ run.account = a /\ run.owner = FALSE /\ run.rows = ranksWork[w].rows
      /\ run.pc = ranksWork[w].pc /\ run.answer = ranksWork[w].answer
  BY <1>2 DEF RanksRunType
<1> HIDE DEF a, run
<1>5. /\ DOMAIN ranksWork' = RanksWorkers /\ ranksWork'[w] = run /\ \A v \in RanksWorkers : v # w => ranksWork'[v] = ranksWork[v]
      /\ \A v \in RanksWorkers : ranksWork'[v] = Ranks!Idle \/ ranksWork'[v] \in RanksRunType
      /\ \A v \in RanksWorkers : v # w => (RanksOwns(v)' <=> RanksOwns(v)) /\ (RanksBusy(v)' <=> RanksBusy(v))
  BY <1>1, <1>3, <1>4, RanksRunGoesOn DEF a
<1>6. ~RanksOwns(w)'
  BY <1>4, <1>5 DEF RanksOwns
<1>7. /\ ranksJob' \in [RanksAccounts -> {"none", "done", "failed"} \cup Ranks!LiveStates]
      /\ ranksJob'[a] = "waiting" /\ \A b \in RanksAccounts : b # a => ranksJob'[b] = ranksJob[b]
  BY <1>2, <1>3 DEF RanksRunsInv, RanksTypes, Ranks!LiveStates
<1>8. RanksTypes'
  BY <1>3, <1>5, <1>7 DEF RanksRunsInv, RanksTypes
<1>9. \A b \in RanksAccounts : (RanksCovered(b) => RanksCovered(b)') /\ (RanksPursued(b) => RanksPursued(b)')
  BY <1>3, <1>7 DEF RanksCovered, RanksCalling, RanksPursued, Ranks!LiveStates
<1>10. \A v \in RanksWorkers : RanksOwns(v)' => /\ v # w /\ RanksOwns(v) /\ ranksWork'[v] = ranksWork[v] /\ ranksWork[v].account \in RanksAccounts
                                                /\ ranksWork[v].account # a
  BY <1>2, <1>5, <1>6 DEF a, RanksRunsInv, RanksOneOwner, RanksTypes, RanksRunType, RanksOwns, RanksBusy, Ranks!Idle
<1>11. RanksOneOwner'
  BY <1>7, <1>10 DEF RanksRunsInv, RanksOneOwner
<1>12. RanksRunsKnowTheirRows'
  <2>1. /\ run.pc = "apply" => run.answer \in RanksRunAnswers
        /\ run.pc = "ask" => run.answer = None
        /\ \A r \in run.rows : RanksAccount[r] = run.account
    BY <1>2, <1>4 DEF RanksRunsInv, RanksRunsKnowTheirRows, a, RanksOwns
  <2> QED BY <1>3, <1>5, <1>9, <1>10, <2>1 DEF RanksRunsInv, RanksRunsKnowTheirRows
<1>13. RanksAsksAreNeeded'
  BY <1>3, <1>10 DEF RanksRunsInv, RanksAsksAreNeeded, Ranks!Reusable
<1>14. RanksRowsFollow'
  BY <1>3, <1>9 DEF RanksRunsInv, RanksRowsFollow, Ranks!ConstantsAssumption
<1> QED BY <1>8, <1>11, <1>12, <1>13, <1>14 DEF RanksRunsInv

LEMMA RanksPromotes ==
  ASSUME RanksRunsInv, Ranks!ConstantsAssumption, NEW a \in RanksAccounts, Ranks!Promote(a)
  PROVE  RanksRunsInv'
<1>1. /\ ranksJob[a] = "delayed" /\ ranksJob' = [ranksJob EXCEPT ![a] = "waiting"] /\ UNCHANGED <<ranksStatus, ranksObs, ranksWork, ranksCall, ranksExcused>>
      /\ RanksAccount \in [RanksRows -> RanksAccounts]
  BY DEF Ranks!Promote, Ranks!ConstantsAssumption
<1>2. /\ ranksJob' \in [RanksAccounts -> {"none", "done", "failed"} \cup Ranks!LiveStates]
      /\ ranksJob'[a] = "waiting" /\ \A b \in RanksAccounts : b # a => ranksJob'[b] = ranksJob[b]
  BY <1>1 DEF RanksRunsInv, RanksTypes, Ranks!LiveStates
<1>3. \A b \in RanksAccounts : (RanksCovered(b) => RanksCovered(b)') /\ (RanksPursued(b) => RanksPursued(b)')
  BY <1>1, <1>2 DEF RanksCovered, RanksCalling, RanksPursued, Ranks!LiveStates
<1>4. \A b \in RanksAccounts : ranksJob'[b] = "active" <=> ranksJob[b] = "active"
  BY <1>1, <1>2
<1>5. /\ DOMAIN ranksCall' = Ranks!Callers
      /\ \A c \in Ranks!Callers : ranksCall'[c] = Ranks!NoCall \/ ranksCall'[c] \in [pc : {"look", "remove", "add"}, account : RanksAccounts]
  BY <1>1 DEF RanksRunsInv, RanksTypes
<1> QED BY <1>1, <1>2, <1>3, <1>4, <1>5, RanksEnqueueKeeps

LEMMA RanksForgets ==
  ASSUME RanksRunsInv, Ranks!ConstantsAssumption, NEW a \in RanksAccounts, Ranks!Forget(a)
  PROVE  RanksRunsInv'
<1>1. /\ ranksJob[a] \in {"done", "failed"} /\ ranksJob' = [ranksJob EXCEPT ![a] = "none"]
      /\ ranksExcused' = IF ranksJob[a] = "failed" THEN ranksExcused \cup {a} ELSE ranksExcused
      /\ UNCHANGED <<ranksStatus, ranksObs, ranksWork, ranksCall>> /\ RanksAccount \in [RanksRows -> RanksAccounts]
  BY DEF Ranks!Forget, Ranks!ConstantsAssumption
<1>2. /\ ranksJob' \in [RanksAccounts -> {"none", "done", "failed"} \cup Ranks!LiveStates]
      /\ ranksJob'[a] = "none" /\ \A b \in RanksAccounts : b # a => ranksJob'[b] = ranksJob[b]
  BY <1>1 DEF RanksRunsInv, RanksTypes
<1>3. \A b \in RanksAccounts : RanksCovered(b) => RanksCovered(b)'
  BY <1>1 DEF RanksCovered, RanksCalling
<1>4. \A b \in RanksAccounts : RanksPursued(b) => RanksPursued(b)'
  <2>1. ranksJob[a] = "failed" => RanksCovered(a)'
    BY <1>1 DEF RanksCovered
  <2>2. ranksJob[a] = "done" => ranksJob[a] \notin Ranks!LiveStates \cup {"failed"}
    BY DEF Ranks!LiveStates
  <2> QED BY <1>1, <1>2, <1>3, <2>1, <2>2 DEF RanksPursued
<1>5. \A b \in RanksAccounts : ranksJob'[b] = "active" <=> ranksJob[b] = "active"
  BY <1>1, <1>2
<1>6. /\ DOMAIN ranksCall' = Ranks!Callers
      /\ \A c \in Ranks!Callers : ranksCall'[c] = Ranks!NoCall \/ ranksCall'[c] \in [pc : {"look", "remove", "add"}, account : RanksAccounts]
  BY <1>1 DEF RanksRunsInv, RanksTypes
<1>7. \A b \in RanksAccounts : b \in ranksExcused => b \in ranksExcused'
  BY <1>1
<1> QED BY <1>1, <1>2, <1>3, <1>4, <1>5, <1>6, <1>7, RanksEnqueueKeeps

LEMMA RanksGrowsStale ==
  ASSUME RanksRunsInv, Ranks!ConstantsAssumption, NEW a \in RanksAccounts, Ranks!GrowStale(a)
  PROVE  RanksRunsInv'
<1>1. /\ ranksObs[a] # None /\ ranksObs' = [ranksObs EXCEPT ![a].fresh = FALSE] /\ UNCHANGED <<ranksStatus, ranksJob, ranksWork, ranksCall, ranksExcused>>
  BY DEF Ranks!GrowStale
<1>2. ranksObs[a] \in [status : {"RESOLVED_RANKED", "RESOLVED_UNRANKED", "FAILED_RETRYABLE"}, fresh : BOOLEAN]
  BY <1>1 DEF RanksRunsInv, RanksTypes
<1>3. /\ ranksObs' \in [RanksAccounts -> {None} \cup
                    [status : {"RESOLVED_RANKED", "RESOLVED_UNRANKED", "FAILED_RETRYABLE"}, fresh : BOOLEAN]]
      /\ ranksObs'[a].fresh = FALSE /\ \A b \in RanksAccounts : b # a => ranksObs'[b] = ranksObs[b]
  BY <1>1, <1>2 DEF RanksRunsInv, RanksTypes
<1>4. RanksTypes'
  BY <1>1, <1>3 DEF RanksRunsInv, RanksTypes
<1>5. \A w \in RanksWorkers : RanksOwns(w) => ranksWork[w].account \in RanksAccounts
  BY DEF RanksRunsInv, RanksTypes, RanksRunType, RanksOwns, RanksBusy, Ranks!Idle
<1>6. RanksOneOwner' /\ RanksRunsKnowTheirRows' /\ RanksRowsFollow'
  BY <1>1 DEF RanksRunsInv, RanksOneOwner, RanksRunsKnowTheirRows, RanksRowsFollow, RanksOwns, RanksBusy, RanksCovered, RanksCalling, RanksPursued
<1>7. \A b \in RanksAccounts : Ranks!Reusable(b)' => Ranks!Reusable(b)
  BY <1>3 DEF Ranks!Reusable
<1>8. RanksAsksAreNeeded'
  BY <1>1, <1>3, <1>5, <1>7 DEF RanksRunsInv, RanksAsksAreNeeded, RanksOwns, RanksBusy, Ranks!Reusable
<1> QED BY <1>4, <1>6, <1>8 DEF RanksRunsInv

-----------------------------------------------------------------------------
LEMMA RanksRunsInit ==
  ASSUME Ranks!Init
  PROVE  RanksRunsInv
<1>1. \A w \in RanksWorkers : ranksWork[w] = Ranks!Idle
  BY DEF Ranks!Init
<1>2. \A w \in RanksWorkers : ~RanksBusy(w) /\ ~RanksOwns(w)
  BY <1>1 DEF RanksBusy, RanksOwns, Ranks!Idle
<1>3. RanksTypes
  BY DEF Ranks!Init, RanksTypes
<1>4. RanksOneOwner /\ RanksRunsKnowTheirRows /\ RanksAsksAreNeeded /\ RanksRowsFollow
  BY <1>1, <1>2 DEF Ranks!Init, RanksOneOwner, RanksRunsKnowTheirRows, RanksAsksAreNeeded, RanksRowsFollow, Ranks!Unresolved, RanksBusy
<1> QED BY <1>3, <1>4 DEF RanksRunsInv

LEMMA RanksRunsNext ==
  ASSUME RanksRunsInv, Ranks!ConstantsAssumption, [Ranks!Next]_(Ranks!vars)
  PROVE  RanksRunsInv'
<1>1. CASE UNCHANGED <<ranksStatus, ranksObs, ranksJob, ranksWork, ranksCall, ranksExcused>>
  BY <1>1 DEF RanksRunsInv, RanksTypes, RanksOneOwner, RanksBusy, RanksOwns, RanksRunsKnowTheirRows, RanksAsksAreNeeded, Ranks!Reusable,
              RanksRowsFollow, RanksPursued, RanksCovered, RanksCalling
<1>2. ASSUME NEW r \in RanksRows, Ranks!Commit(r) PROVE RanksRunsInv'
  BY <1>2, RanksCommits
<1>3. ASSUME NEW c \in Ranks!Callers, Ranks!Look(c) \/ Ranks!RemoveOld(c) \/ Ranks!Add(c) \/ Ranks!LoseEnqueue(c) PROVE RanksRunsInv'
  BY <1>3, RanksEnqueueSteps
<1>4. UNCHANGED Ranks!vars \/ Ranks!ReadPending \/ Ranks!SelectIdentities => UNCHANGED <<ranksStatus, ranksObs, ranksJob, ranksWork, ranksCall, ranksExcused>>
  BY DEF Ranks!ReadPending, Ranks!SelectIdentities, Ranks!vars
<1>5. ASSUME NEW a \in RanksAccounts, Ranks!BackfillNext(a) \/ Ranks!Promote(a) \/ Ranks!Forget(a) \/ Ranks!GrowStale(a) PROVE RanksRunsInv'
  BY <1>5, RanksBackfillSteps, RanksPromotes, RanksForgets, RanksGrowsStale
<1>6. ASSUME NEW w \in RanksWorkers, NEW a \in RanksAccounts, Ranks!Start(w, a) PROVE RanksRunsInv'
  BY <1>6, RanksStarts
<1>7. ASSUME NEW w \in RanksWorkers, Ranks!Load(w) \/ Ranks!Deferred(w) \/ Ranks!Apply(w) \/ Ranks!RunFails(w) \/ Ranks!Stall(w) PROVE RanksRunsInv'
  BY <1>7, RanksLoads, RanksRunsEnd, RanksApplies, RanksStalls
<1>8. ASSUME NEW w \in RanksWorkers, NEW answer \in RanksAnswers, Ranks!Ask(w, answer) PROVE RanksRunsInv'
  BY <1>8, RanksAsks
<1> QED BY <1>1, <1>2, <1>3, <1>4, <1>5, <1>6, <1>7, <1>8 DEF Ranks!Next

-----------------------------------------------------------------------------
(* The pages of the backfill.                                              *)

\* Among finitely many row ids one is the least.
LEMMA RanksLeastRow ==
  ASSUME NEW S, IsFiniteSet(S), S # {}, \A r \in S : r \in Nat
  PROVE  \E r \in S : \A q \in S : r =< q
<1> DEFINE UpTo(r) == {q \in S : q =< r}
           F == {UpTo(r) : r \in S}
<1>1. F \in SUBSET SUBSET S /\ F # {}
  OBVIOUS
<1>2. \E T \in F : \A U \in F : U \subseteq T => U = T
  <2> HIDE DEF F
  <2> QED BY <1>1, SmallestSubset
<1>3. PICK r \in S : \A q \in S : UpTo(q) \subseteq UpTo(r) => UpTo(q) = UpTo(r)
  <2> HIDE DEF UpTo
  <2> QED BY <1>2
<1>4. ASSUME NEW q \in S, ~(r =< q)
      PROVE  FALSE
  <2>1. q \in Nat /\ r \in Nat
    OBVIOUS
  <2>2. r =< r /\ \A x \in S : x =< q => x =< r
    BY <1>4, <2>1
  <2>3. UpTo(q) \subseteq UpTo(r) /\ r \in UpTo(r) /\ r \notin UpTo(q)
    BY <1>4, <2>2
  <2> HIDE DEF UpTo
  <2> QED BY <1>3, <2>3
<1> QED BY <1>4

\* A read leaves out only what comes after the limit.
LEMMA RanksReadsAreFirst ==
  ASSUME Ranks!ConstantsAssumption, NEW S \in SUBSET RanksRows, NEW limit \in Nat
  PROVE  /\ Ranks!First(S, limit) \in SUBSET S
         /\ \A q \in Ranks!First(S, limit) : \A r \in S : r =< q => r \in Ranks!First(S, limit)
         /\ Ranks!First(S, limit) # S => Cardinality(Ranks!First(S, limit)) >= limit
<1> DEFINE UpTo(r) == {q \in S : q =< r}
           first == Ranks!First(S, limit)
<1>1. S \in SUBSET Nat /\ IsFiniteSet(S)
  BY FS_Subset, RanksSameFiniteSets DEF Ranks!ConstantsAssumption
<1>2. \A r \in S : UpTo(r) \in SUBSET S /\ IsFiniteSet(UpTo(r)) /\ Cardinality(UpTo(r)) \in Nat
  <2>1. \A r \in S : UpTo(r) \in SUBSET S
    OBVIOUS
  <2> HIDE DEF UpTo
  <2> QED BY <1>1, <2>1, FS_Subset, FS_CardinalityType
<1>3. first \in SUBSET S /\ \A r \in S : r \in first <=> Cardinality(UpTo(r)) =< limit
  BY RanksSameCardinality DEF Ranks!First
<1>4. ASSUME NEW q \in first, NEW r \in S, r =< q
      PROVE  r \in first
  <2>1. q \in S /\ UpTo(r) \subseteq UpTo(q)
    <3>1. q \in S
      BY <1>3, <1>4
    <3>2. \A x \in S : x =< r => x =< q
      BY <1>1, <1>4, <3>1
    <3> QED BY <3>1, <3>2
  <2>2. Cardinality(UpTo(r)) =< Cardinality(UpTo(q))
    <3> HIDE DEF UpTo
    <3> QED BY <1>2, <2>1, FS_Subset
  <2> HIDE DEF first, UpTo
  <2> QED BY <1>2, <1>3, <2>1, <2>2
<1>5. ASSUME first # S
      PROVE  Cardinality(first) >= limit
  <2>1. S \ first \in SUBSET Nat /\ IsFiniteSet(S \ first) /\ S \ first # {}
    <3> HIDE DEF first
    <3> QED BY <1>1, <1>3, <1>5, FS_Subset
  <2>2. PICK r \in S \ first : \A q \in S \ first : r =< q
    <3> HIDE DEF first
    <3>1. \A r \in S \ first : r \in Nat
      BY <2>1
    <3> QED BY <2>1, <3>1, RanksLeastRow
  <2>3. UpTo(r) = first \cup {r}
    <3>1. ASSUME NEW q \in UpTo(r), q # r PROVE q \in first
      BY <1>1, <2>2, <3>1
    <3>2. ASSUME NEW q \in first PROVE q \in UpTo(r)
      <4>1. q \in S /\ ~(r =< q)
        BY <1>3, <1>4, <2>2, <3>2
      <4> QED BY <1>1, <2>2, <4>1
    <3>3. r \in UpTo(r)
      BY <1>1, <2>2
    <3> HIDE DEF UpTo, first
    <3> QED BY <3>1, <3>2, <3>3
  <2>4. IsFiniteSet(first) /\ Cardinality(first) \in Nat
    <3> HIDE DEF first
    <3> QED BY <1>1, <1>3, FS_Subset, FS_CardinalityType
  <2>5. Cardinality(first \cup {r}) = Cardinality(first) + 1
    <3> HIDE DEF first
    <3> QED BY <2>2, <2>4, FS_AddElement
  <2>6. ~(Cardinality(UpTo(r)) =< limit) /\ Cardinality(UpTo(r)) \in Nat
    <3> HIDE DEF UpTo, first
    <3> QED BY <1>2, <1>3, <2>2
  <2> HIDE DEF UpTo, first
  <2> QED BY <2>3, <2>4, <2>5, <2>6
<1> HIDE DEF first
<1> QED BY <1>3, <1>4, <1>5 DEF first

\* A backfill reads more rows of a status than its page may hold.
LEMMA RanksReadsSuffice ==
  ASSUME Ranks!ConstantsAssumption, NEW bound \in RanksPageBounds
  PROVE  Ranks!FetchLimit(bound) \in Nat /\ Ranks!FetchLimit(bound) > bound.participants /\ bound.participants \in Nat
<1>1. bound.participants \in Nat \ {0} /\ bound.calls \in Nat \ {0} /\ RanksLeastFetch \in Nat
  BY DEF Ranks!ConstantsAssumption
<1> QED BY <1>1 DEF Ranks!FetchLimit, Ranks!Larger

LEMMA RanksCandidateFacts ==
  ASSUME Ranks!ConstantsAssumption, NEW P \in SUBSET RanksRows, NEW R \in SUBSET RanksRows
  PROVE  /\ Ranks!Candidates(P, R) \in SUBSET RanksCandidateType /\ IsFiniteSet(Ranks!Candidates(P, R))
         /\ IsFiniteSet([row : P, status : {"PENDING"}])
         /\ Cardinality([row : P, status : {"PENDING"}]) >= Cardinality(P)
<1> DEFINE Made(S, s) == [row : S, status : {s}]
<1>1. ASSUME NEW S \in SUBSET RanksRows, NEW s \in Ranks!Unresolved
      PROVE  IsFiniteSet(Made(S, s)) /\ Cardinality(Made(S, s)) >= Cardinality(S)
  <2> DEFINE f == [r \in S |-> [row |-> r, status |-> s]]
             g == [c \in Made(S, s) |-> c.row]
  <2>1. IsFiniteSet(S) /\ Cardinality(S) \in Nat
    BY FS_Subset, FS_CardinalityType, RanksSameFiniteSets DEF Ranks!ConstantsAssumption
  <2>2. f \in Surjection(S, Made(S, s))
    <3>1. f \in [S -> Made(S, s)]
      OBVIOUS
    <3>2. \A c \in Made(S, s) : c.row \in S /\ f[c.row] = c
      OBVIOUS
    <3> QED BY <3>1, <3>2 DEF Surjection
  <2>3. g \in Surjection(Made(S, s), S)
    <3>1. g \in [Made(S, s) -> S]
      OBVIOUS
    <3>2. \A r \in S : f[r] \in Made(S, s) /\ g[f[r]] = r
      OBVIOUS
    <3> QED BY <3>1, <3>2 DEF Surjection
  <2> HIDE DEF f, g, Made
  <2>4. IsFiniteSet(Made(S, s))
    BY <2>1, <2>2, FS_Surjection
  <2>5. Cardinality(S) =< Cardinality(Made(S, s)) /\ Cardinality(Made(S, s)) \in Nat
    BY <2>3, <2>4, FS_Surjection, FS_CardinalityType
  <2> QED BY <2>1, <2>4, <2>5
<1>2. Ranks!Candidates(P, R) = Made(P, "PENDING") \cup Made(R, "FAILED_RETRYABLE")
  BY DEF Ranks!Candidates
<1>3. Ranks!Candidates(P, R) \in SUBSET RanksCandidateType
  BY <1>2 DEF RanksCandidateType, Ranks!Unresolved
<1>4. IsFiniteSet(Made(P, "PENDING")) /\ IsFiniteSet(Made(R, "FAILED_RETRYABLE"))
      /\ Cardinality(Made(P, "PENDING")) >= Cardinality(P)
  BY <1>1 DEF Ranks!Unresolved
<1>5. IsFiniteSet(Ranks!Candidates(P, R))
  <2> HIDE DEF Made
  <2> QED BY <1>2, <1>4, FS_Union
<1> QED BY <1>3, <1>4, <1>5

\* Fewer candidates fit where more do.
LEMMA RanksFewerFit ==
  ASSUME Ranks!ConstantsAssumption, NEW bound \in RanksPageBounds, NEW S, IsFiniteSet(S), NEW T \in SUBSET S,
         Ranks!Fits(S, bound)
  PROVE  Ranks!Fits(T, bound) /\ Cardinality(T) =< bound.participants
<1> DEFINE f == [c \in S |-> RanksAccount[c.row]]
           accounts == {RanksAccount[c.row] : c \in S}
           fewer == {RanksAccount[c.row] : c \in T}
<1>2. f \in Surjection(S, accounts)
  BY DEF Surjection
<1>3. IsFiniteSet(accounts)
  <2> HIDE DEF f, accounts
  <2> QED BY <1>2, FS_Surjection
<1>4. fewer \subseteq accounts
  OBVIOUS
<1>5. /\ Cardinality(fewer) =< Cardinality(accounts)
      /\ Cardinality(fewer) \in Nat /\ Cardinality(accounts) \in Nat
  <2> HIDE DEF accounts, fewer
  <2> QED BY <1>3, <1>4, FS_Subset, FS_CardinalityType
<1>6. /\ Cardinality(T) =< Cardinality(S)
      /\ Cardinality(T) \in Nat /\ Cardinality(S) \in Nat
  BY FS_Subset, FS_CardinalityType
<1>7. bound.calls \in Nat /\ bound.participants \in Nat
  BY DEF Ranks!ConstantsAssumption
<1>8. Cardinality(accounts) =< bound.calls /\ Cardinality(S) =< bound.participants
  BY RanksSameCardinality DEF Ranks!Fits
<1>9. Cardinality(fewer) =< bound.calls /\ Cardinality(T) =< bound.participants
  <2> HIDE DEF accounts, fewer
  <2> QED BY <1>5, <1>6, <1>7, <1>8
<1> QED BY <1>9, RanksSameCardinality DEF Ranks!Fits

\* Candidates are in a total order.
LEMMA RanksCandidatesInOrder ==
  ASSUME Ranks!ConstantsAssumption, NEW p \in RanksCandidateType, NEW q \in RanksCandidateType, NEW r \in RanksCandidateType
  PROVE  /\ Ranks!NotAfter(p, p) /\ (Ranks!NotAfter(p, q) \/ Ranks!NotAfter(q, p))
         /\ Ranks!NotAfter(p, q) /\ Ranks!NotAfter(q, r) => Ranks!NotAfter(p, r)
<1>1. {p.row, q.row, r.row} \subseteq Nat /\ {p.status, q.status, r.status} \subseteq Ranks!Unresolved
  BY DEF RanksCandidateType, Ranks!ConstantsAssumption
<1> QED BY <1>1 DEF Ranks!NotAfter, Ranks!Unresolved

\* Some candidate of a page is last.
LEMMA RanksPagesEnd ==
  ASSUME Ranks!ConstantsAssumption, NEW S \in SUBSET RanksCandidateType, IsFiniteSet(S), S # {}
  PROVE  \E r \in S : \A q \in S : Ranks!NotAfter(q, r)
<1> DEFINE After(r) == {q \in S : Ranks!NotAfter(r, q)}
           F == {After(r) : r \in S}
<1>2. F \in SUBSET SUBSET S /\ F # {}
  OBVIOUS
<1>3. PICK T \in F : \A U \in F : U \subseteq T => U = T
  <2> HIDE DEF F
  <2> QED BY <1>2, SmallestSubset
<1>4. PICK r \in S : T = After(r)
  BY <1>3
<1>5. ASSUME NEW q \in S, ~Ranks!NotAfter(q, r)
      PROVE  FALSE
  <2>1. \A x \in S : x \in RanksCandidateType
    OBVIOUS
  <2>2. After(q) \subseteq After(r)
    <3>1. Ranks!NotAfter(r, q)
      BY <1>5, <2>1, RanksCandidatesInOrder
    <3>2. ASSUME NEW x \in S, Ranks!NotAfter(q, x) PROVE Ranks!NotAfter(r, x)
      BY <3>1, <3>2, <2>1, RanksCandidatesInOrder
    <3> QED BY <3>2
  <2>3. r \in After(r) /\ r \notin After(q)
    BY <1>5, <2>1, RanksCandidatesInOrder
  <2>4. After(q) \in F
    OBVIOUS
  <2> HIDE DEF F, After
  <2> QED BY <1>3, <1>4, <2>2, <2>3, <2>4
<1> QED BY <1>4, <1>5

\* What the two reads of a page give.
LEMMA RanksPageFacts ==
  ASSUME Ranks!ConstantsAssumption, RanksPageFollows, ranksPage # None
  PROVE  /\ Ranks!NowCandidates \in SUBSET RanksCandidateType /\ IsFiniteSet(Ranks!NowCandidates)
         /\ \A c \in Ranks!NowTaken : c \in Ranks!NowCandidates
         /\ Ranks!NowTaken # {} => Ranks!NowLast \in Ranks!NowTaken /\ Ranks!NowLast \in RanksCandidateType
         /\ Ranks!NowTaken # {} => \A c \in Ranks!NowCandidates : Ranks!NotAfter(c, Ranks!NowLast) => c \in Ranks!NowTaken
<1> DEFINE retryable == Ranks!Read(ranksPage.after, "FAILED_RETRYABLE", ranksPage.bound)
<1>1. ranksPage.pending \in SUBSET RanksRows /\ ranksPage.bound \in RanksPageBounds
  BY DEF RanksPageFollows, RanksPageType
<1>2. retryable \in SUBSET RanksRows
  BY DEF Ranks!Read, Ranks!First
<1>3. Ranks!NowCandidates \in SUBSET RanksCandidateType /\ IsFiniteSet(Ranks!NowCandidates)
  <2> HIDE DEF retryable
  <2> QED BY <1>1, <1>2, RanksCandidateFacts DEF Ranks!NowCandidates, retryable
<1>4. Ranks!NowTaken \in SUBSET Ranks!NowCandidates
  BY DEF Ranks!NowTaken, Ranks!Taken
<1> HIDE DEF retryable
<1>5. ASSUME Ranks!NowTaken # {}
      PROVE  Ranks!NowLast \in Ranks!NowTaken
  <2>1. Ranks!NowTaken \in SUBSET RanksCandidateType /\ IsFiniteSet(Ranks!NowTaken)
    BY <1>3, <1>4, FS_Subset
  <2>2. \E c \in Ranks!NowTaken : \A d \in Ranks!NowTaken : Ranks!NotAfter(d, c)
    BY <1>5, <2>1, RanksPagesEnd
  <2> QED BY <2>2 DEF Ranks!NowLast, Ranks!LastTaken
<1>6. ASSUME Ranks!NowTaken # {}, NEW c \in Ranks!NowCandidates, Ranks!NotAfter(c, Ranks!NowLast)
      PROVE  c \in Ranks!NowTaken
  <2> DEFINE upToLast == {d \in Ranks!NowCandidates : Ranks!NotAfter(d, Ranks!NowLast)}
             upToThis == {d \in Ranks!NowCandidates : Ranks!NotAfter(d, c)}
  <2>1. Ranks!Fits(upToLast, ranksPage.bound) /\ Ranks!NowLast \in RanksCandidateType /\ c \in RanksCandidateType
    BY <1>3, <1>4, <1>5, <1>6 DEF Ranks!NowTaken, Ranks!Taken
  <2>2. \A d \in Ranks!NowCandidates : Ranks!NotAfter(d, c) => Ranks!NotAfter(d, Ranks!NowLast)
    BY <1>3, <1>6, <2>1, RanksCandidatesInOrder
  <2>3. upToThis \in SUBSET upToLast /\ upToLast \in SUBSET Ranks!NowCandidates
    BY <2>2
  <2>4. Ranks!Fits(upToThis, ranksPage.bound)
    <3> HIDE DEF upToThis, upToLast
    <3>1. IsFiniteSet(upToLast)
      BY <1>3, <2>3, FS_Subset
    <3> QED BY <1>1, <2>1, <2>3, <3>1, RanksFewerFit
  <2> QED BY <2>4 DEF Ranks!NowTaken, Ranks!Taken
<1> QED BY <1>3, <1>4, <1>5, <1>6

LEMMA RanksPagesHaveNone ==
  ASSUME Ranks!ConstantsAssumption, RanksPageFollows
  PROVE  Ranks!PagesHaveNoHoles
<1> SUFFICES ASSUME ranksPage # None, Ranks!NowTaken # {}, NEW r \in ranksPage.known, ranksStatus[r] \in Ranks!Unresolved,
                    r > ranksPage.after, r =< Ranks!NowLast.row,
                    Ranks!NowLast.status = "FAILED_RETRYABLE" \/ ranksStatus[r] = "PENDING"
             PROVE  \E c \in Ranks!NowTaken : c.row = r
  <2>1. ASSUME ranksPage # None, Ranks!NowTaken # {} PROVE Ranks!NowLast.status \in Ranks!Unresolved
    BY <2>1, RanksPageFacts DEF RanksCandidateType
  <2> QED BY <2>1 DEF Ranks!PagesHaveNoHoles, Ranks!Unresolved
<1> DEFINE failed == {q \in RanksRows : q > ranksPage.after /\ ranksStatus[q] = "FAILED_RETRYABLE"}
           retryable == Ranks!First(failed, Ranks!FetchLimit(ranksPage.bound))
           pendings == [row : ranksPage.pending, status : {"PENDING"}]
<1>1. /\ ranksPage \in RanksPageType /\ ranksPage.bound \in RanksPageBounds /\ ranksPage.pending \in SUBSET RanksRows
      /\ r \in RanksRows /\ r \in Nat /\ ranksPage.pending \in SUBSET Nat
      /\ ranksStatus[r] = "PENDING" => r \in ranksPage.pending \/ RanksBeyond(r)
  BY DEF RanksPageFollows, RanksPageType, Ranks!ConstantsAssumption
<1>2. /\ Ranks!NowLast \in Ranks!NowCandidates /\ Ranks!NowLast \in RanksCandidateType
      /\ \A c \in Ranks!NowCandidates : Ranks!NotAfter(c, Ranks!NowLast) => c \in Ranks!NowTaken
  BY RanksPageFacts
<1>3. Ranks!NowLast.row \in Nat /\ Ranks!NowLast.status \in Ranks!Unresolved
  BY <1>2 DEF RanksCandidateType, Ranks!ConstantsAssumption
<1>4. Ranks!NowCandidates = pendings \cup [row : retryable, status : {"FAILED_RETRYABLE"}]
  BY DEF Ranks!NowCandidates, Ranks!Candidates, Ranks!Read
<1>5. CASE r \in ranksPage.pending
  <2> DEFINE c == [row |-> r, status |-> "PENDING"]
  <2>1. c \in Ranks!NowCandidates /\ c.row = r /\ c.status = "PENDING"
    BY <1>4, <1>5
  <2>2. Ranks!NotAfter(c, Ranks!NowLast)
    BY <2>1 DEF Ranks!NotAfter
  <2> HIDE DEF c
  <2> QED BY <1>2, <2>1, <2>2
<1>6. CASE ranksStatus[r] = "PENDING" /\ r \notin ranksPage.pending
  <2>1. RanksBeyond(r)
    BY <1>1, <1>6
  <2>2. Ranks!NowLast.status = "FAILED_RETRYABLE"
    <3>1. ASSUME Ranks!NowLast.status = "PENDING" PROVE FALSE
      <4>1. Ranks!NowLast.row \in ranksPage.pending
        BY <1>2, <1>4, <3>1
      <4> QED BY <1>1, <1>3, <2>1, <4>1 DEF RanksBeyond
    <3> QED BY <1>3, <3>1 DEF Ranks!Unresolved
  <2>3. Ranks!Fits({d \in Ranks!NowCandidates : Ranks!NotAfter(d, Ranks!NowLast)}, ranksPage.bound)
    BY RanksPageFacts DEF Ranks!NowTaken, Ranks!Taken
  <2>4. pendings \in SUBSET {d \in Ranks!NowCandidates : Ranks!NotAfter(d, Ranks!NowLast)}
    BY <1>4, <2>2 DEF Ranks!NotAfter
  <2>5. IsFiniteSet({d \in Ranks!NowCandidates : Ranks!NotAfter(d, Ranks!NowLast)})
    <3>1. IsFiniteSet(Ranks!NowCandidates) /\ {d \in Ranks!NowCandidates : Ranks!NotAfter(d, Ranks!NowLast)} \in SUBSET Ranks!NowCandidates
      BY RanksPageFacts
    <3> QED BY <3>1, FS_Subset
  <2>6. Cardinality(pendings) =< ranksPage.bound.participants
    <3> HIDE DEF pendings
    <3> QED BY <1>1, <2>3, <2>4, <2>5, RanksFewerFit
  <2>7. /\ Cardinality(pendings) >= Cardinality(ranksPage.pending)
        /\ Cardinality(pendings) \in Nat /\ Cardinality(ranksPage.pending) \in Nat
    <3>1. IsFiniteSet(pendings) /\ IsFiniteSet(ranksPage.pending) /\ Cardinality(pendings) >= Cardinality(ranksPage.pending)
      BY <1>1, RanksCandidateFacts, FS_Subset, RanksSameFiniteSets DEF Ranks!ConstantsAssumption
    <3> HIDE DEF pendings
    <3> QED BY <3>1, FS_CardinalityType
  <2>8. /\ Ranks!FetchLimit(ranksPage.bound) > ranksPage.bound.participants /\ Ranks!FetchLimit(ranksPage.bound) \in Nat
        /\ ranksPage.bound.participants \in Nat
    BY <1>1, RanksReadsSuffice
  <2>9. Cardinality(ranksPage.pending) >= Ranks!FetchLimit(ranksPage.bound)
    BY <2>1 DEF RanksBeyond
  <2> HIDE DEF pendings
  <2> QED BY <2>6, <2>7, <2>8, <2>9
<1>7. CASE ranksStatus[r] # "PENDING"
  <2> DEFINE c == [row |-> r, status |-> "FAILED_RETRYABLE"]
  <2>1. ranksStatus[r] = "FAILED_RETRYABLE" /\ Ranks!NowLast.status = "FAILED_RETRYABLE"
    BY <1>7 DEF Ranks!Unresolved
  <2>2. r \in failed
    BY <1>1, <2>1
  <2>3. Ranks!NowLast.row \in retryable
    <3> HIDE DEF retryable
    <3> QED BY <1>2, <1>4, <2>1
  <2>4. r \in retryable
    <3>1. failed \in SUBSET RanksRows /\ Ranks!FetchLimit(ranksPage.bound) \in Nat
      BY <1>1, RanksReadsSuffice
    <3> HIDE DEF failed
    <3> QED BY <2>2, <2>3, <3>1, RanksReadsAreFirst
  <2>5. c \in Ranks!NowCandidates /\ c.row = r /\ c.status = "FAILED_RETRYABLE"
    <3> HIDE DEF retryable
    <3> QED BY <1>4, <2>4
  <2>6. Ranks!NotAfter(c, Ranks!NowLast)
    BY <2>1, <2>5 DEF Ranks!NotAfter
  <2> HIDE DEF c
  <2> QED BY <1>2, <2>5, <2>6
<1> QED BY <1>5, <1>6, <1>7

\* The steps of anyone else keep what the first read knows.
LEMMA RanksPageKeeps ==
  ASSUME RanksPageFollows, UNCHANGED <<ranksPage, ranksCursor>>,
         \A r \in RanksRows : ranksStatus[r] # "absent" =>
           ranksStatus'[r] # "absent" /\ (ranksStatus'[r] = "PENDING" => ranksStatus[r] = "PENDING")
  PROVE  RanksPageFollows'
<1>1. ranksPage # None => ranksPage.known \subseteq RanksRows
  BY DEF RanksPageFollows, RanksPageType
<1> QED BY <1>1 DEF RanksPageFollows, RanksBeyond

LEMMA RanksPageBegins ==
  ASSUME Ranks!ConstantsAssumption, RanksPageFollows, Ranks!ReadPending
  PROVE  RanksPageFollows'
<1>1. PICK after \in {0, ranksCursor}, bound \in RanksPageBounds :
        ranksPage' = [after |-> after, bound |-> bound, pending |-> Ranks!Read(after, "PENDING", bound),
                 known |-> {r \in RanksRows : ranksStatus[r] # "absent"}]
  BY DEF Ranks!ReadPending
<1> DEFINE wanted == {r \in RanksRows : r > after /\ ranksStatus[r] = "PENDING"}
           pending == Ranks!First(wanted, Ranks!FetchLimit(bound))
<1>2. UNCHANGED <<ranksStatus, ranksCursor>> /\ ranksCursor \in RanksRows \cup {0} /\ after \in RanksRows \cup {0}
  BY DEF Ranks!ReadPending, RanksPageFollows
<1>3. wanted \in SUBSET RanksRows /\ Ranks!FetchLimit(bound) \in Nat /\ RanksRows \subseteq Nat
  BY RanksReadsSuffice DEF Ranks!ConstantsAssumption
<1>4. /\ pending \in SUBSET wanted
      /\ \A q \in pending : \A r \in wanted : r =< q => r \in pending
      /\ pending # wanted => Cardinality(pending) >= Ranks!FetchLimit(bound)
  <2> HIDE DEF wanted
  <2> QED BY <1>3, RanksReadsAreFirst
<1>5. /\ ranksPage'.pending = pending /\ ranksPage'.after = after /\ ranksPage'.bound = bound
      /\ ranksPage'.known = {r \in RanksRows : ranksStatus[r] # "absent"} /\ pending \in SUBSET RanksRows
  BY <1>1, <1>3, <1>4 DEF Ranks!Read
<1>6. ranksPage' \in RanksPageType
  <2> HIDE DEF pending
  <2> QED BY <1>1, <1>2, <1>5 DEF RanksPageType
<1>7. ASSUME NEW r \in RanksRows, ranksStatus[r] = "PENDING", r > after, r \notin pending
      PROVE  RanksBeyond(r)'
  <2>1. r \in wanted /\ pending # wanted
    BY <1>7
  <2>2. \A q \in pending : ~(r =< q) /\ q \in Nat /\ r \in Nat
    <3> HIDE DEF pending
    <3> QED BY <1>3, <1>4, <1>7, <2>1
  <2>3. \A q \in pending : q < r
    <3> HIDE DEF pending
    <3> QED BY <2>2
  <2>4. Ranks!FetchLimit(ranksPage.bound)' = Ranks!FetchLimit(bound)
    BY <1>5 DEF Ranks!FetchLimit, Ranks!Larger
  <2> HIDE DEF pending, wanted
  <2> QED BY <1>4, <1>5, <2>1, <2>3, <2>4 DEF RanksBeyond
<1> HIDE DEF pending, wanted
<1> QED BY <1>2, <1>5, <1>6, <1>7 DEF RanksPageFollows

LEMMA RanksPageNext ==
  ASSUME Ranks!ConstantsAssumption, RanksRunsInv, RanksPageFollows, [Ranks!Next]_(Ranks!vars)
  PROVE  RanksPageFollows'
<1>1. CASE Ranks!ReadPending
  BY <1>1, RanksPageBegins
<1>2. CASE Ranks!SelectIdentities
  <2>1. Ranks!NowTaken # {} => Ranks!NowLast.row \in RanksRows
    BY <1>2, RanksPageFacts DEF Ranks!SelectIdentities, RanksCandidateType
  <2> QED BY <1>2, <2>1 DEF Ranks!SelectIdentities, RanksPageFollows
<1>3. ASSUME UNCHANGED <<ranksPage, ranksCursor, ranksStatus>>
      PROVE  RanksPageFollows'
  BY <1>3, RanksPageKeeps
<1>4. ASSUME NEW r \in RanksRows, Ranks!Commit(r)
      PROVE  RanksPageFollows'
  <2>1. UNCHANGED <<ranksPage, ranksCursor>> /\ \A q \in RanksRows : ranksStatus[q] # "absent" => ranksStatus'[q] = ranksStatus[q]
    BY <1>4 DEF Ranks!Commit, Ranks!queueVars, RanksRunsInv, RanksTypes
  <2> QED BY <2>1, RanksPageKeeps
<1>5. ASSUME NEW w \in RanksWorkers, Ranks!Apply(w)
      PROVE  RanksPageFollows'
  <2> DEFINE answer == ranksWork[w].answer
  <2>1. answer \in RanksRunAnswers
    BY <1>5 DEF Ranks!Apply, RanksRunsInv, RanksRunsKnowTheirRows
  <2>2. Ranks!ResolutionOf(answer) \in {"RESOLVED_RANKED", "RESOLVED_UNRANKED", "FAILED_RETRYABLE"}
    <3> HIDE DEF answer
    <3> QED BY <2>1, RanksAnswerFacts
  <2>3. UNCHANGED <<ranksPage, ranksCursor>>
        /\ ranksStatus' = [r \in RanksRows |-> IF r \in ranksWork[w].rows THEN Ranks!ResolutionOf(answer) ELSE ranksStatus[r]]
    BY <1>5 DEF Ranks!Apply, Ranks!queueVars
  <2>4. \A r \in RanksRows : ranksStatus'[r] = ranksStatus[r] \/ ranksStatus'[r] = Ranks!ResolutionOf(answer)
    <3> HIDE DEF answer
    <3> QED BY <2>3
  <2>5. Ranks!ResolutionOf(answer) # "absent" /\ Ranks!ResolutionOf(answer) # "PENDING"
    BY <2>2
  <2> HIDE DEF answer
  <2> QED BY <2>3, <2>4, <2>5, RanksPageKeeps
<1>6. ASSUME NEW c \in Ranks!Callers, Ranks!Look(c) \/ Ranks!RemoveOld(c) \/ Ranks!Add(c) \/ Ranks!LoseEnqueue(c)
      PROVE  UNCHANGED <<ranksPage, ranksCursor, ranksStatus>>
  BY <1>6 DEF Ranks!Look, Ranks!RemoveOld, Ranks!Add, Ranks!LoseEnqueue, Ranks!queueVars
<1>7. ASSUME NEW a \in RanksAccounts, Ranks!BackfillNext(a) \/ Ranks!Promote(a) \/ Ranks!Forget(a) \/ Ranks!GrowStale(a)
      PROVE  UNCHANGED <<ranksPage, ranksCursor, ranksStatus>>
  BY <1>7 DEF Ranks!BackfillNext, Ranks!Promote, Ranks!Forget, Ranks!GrowStale, Ranks!queueVars
<1>8. ASSUME NEW w \in RanksWorkers, NEW a \in RanksAccounts, Ranks!Start(w, a)
      PROVE  UNCHANGED <<ranksPage, ranksCursor, ranksStatus>>
  BY <1>8 DEF Ranks!Start, Ranks!queueVars
<1>9. ASSUME NEW w \in RanksWorkers, Ranks!Load(w) \/ Ranks!Deferred(w) \/ Ranks!RunFails(w) \/ Ranks!Stall(w)
      PROVE  UNCHANGED <<ranksPage, ranksCursor, ranksStatus>>
  BY <1>9 DEF Ranks!Load, Ranks!Deferred, Ranks!RunFails, Ranks!Stall, Ranks!queueVars
<1>10. ASSUME NEW w \in RanksWorkers, NEW answer \in RanksAnswers, Ranks!Ask(w, answer)
       PROVE  UNCHANGED <<ranksPage, ranksCursor, ranksStatus>>
  BY <1>10 DEF Ranks!Ask, Ranks!queueVars
<1>11. UNCHANGED Ranks!vars => UNCHANGED <<ranksPage, ranksCursor, ranksStatus>>
  BY DEF Ranks!vars
<1> QED BY <1>1, <1>2, <1>3, <1>4, <1>5, <1>6, <1>7, <1>8, <1>9, <1>10, <1>11 DEF Ranks!Next

-----------------------------------------------------------------------------
LEMMA RanksInitIInv ==
  ASSUME Ranks!Init
  PROVE  RanksIInv
BY RanksRunsInit DEF RanksIInv, Ranks!Init, RanksPageFollows

LEMMA RanksNextIInv ==
  ASSUME RanksIInv, Ranks!ConstantsAssumption, [Ranks!Next]_(Ranks!vars)
  PROVE  RanksIInv'
BY RanksRunsNext, RanksPageNext DEF RanksIInv

LEMMA RanksIInvSuffices ==
  ASSUME RanksIInv, Ranks!ConstantsAssumption
  PROVE  Ranks!RowsArePursued /\ Ranks!AnswersAreReused /\ Ranks!PagesHaveNoHoles
<1> RanksRunsInv /\ RanksPageFollows
  BY DEF RanksIInv
<1>1. Ranks!RowsArePursued
  BY DEF RanksRunsInv, RanksRowsFollow, RanksPursued, RanksCovered, RanksCalling, Ranks!RowsArePursued, Ranks!NoCall
<1>2. Ranks!AnswersAreReused
  <2>1. ASSUME NEW w \in RanksWorkers, ranksWork[w].pc = "ask", ranksWork[w].owner,
               ranksObs[ranksWork[w].account] # None, ranksObs[ranksWork[w].account].fresh,
               ranksObs[ranksWork[w].account].status # "FAILED_RETRYABLE"
        PROVE  ranksWork[w].account \in ranksExcused
    <3>1. ranksWork[w] \in RanksRunType /\ RanksOwns(w) /\ ranksWork[w].account \in RanksAccounts
      BY <2>1, RanksNotIdle, RanksRunFacts DEF RanksOwns
    <3>2. ranksObs[ranksWork[w].account].status \in Ranks!ReusableAnswers
      BY <2>1, <3>1 DEF RanksRunsInv, RanksTypes, Ranks!ReusableAnswers
    <3>3. Ranks!Reusable(ranksWork[w].account)
      BY <2>1, <3>2 DEF Ranks!Reusable
    <3> QED BY <2>1, <3>1, <3>3 DEF RanksRunsInv, RanksAsksAreNeeded, RanksRunsKnowTheirRows
  <2> QED BY <2>1 DEF Ranks!AnswersAreReused
<1>3. Ranks!PagesHaveNoHoles
  BY RanksPagesHaveNone
<1> QED BY <1>1, <1>2, <1>3

(* The inductive invariant of the rank enrichment: one execution has the lock
   of a job, what it has not read is covered by an enqueue or excused, an
   unresolved row is pursued, and the first read of a backfill has every row
   that is still pending. *)
THEOREM RanksInductive == ASSUME Ranks!ConstantsAssumption PROVE Ranks!Spec => []RanksIInv
<1>1. Ranks!Init => RanksIInv
  BY RanksInitIInv
<1>2. RanksIInv /\ [Ranks!Next]_(Ranks!vars) => RanksIInv'
  BY RanksNextIInv
<1> QED BY <1>1, <1>2, PTL DEF Ranks!Spec

(* For any rows, identities, workers and bounds of a backfill, unresolved rows
   are pursued, fresh answers are used again and pages have no holes. *)
THEOREM RanksArePursued ==
  ASSUME Ranks!ConstantsAssumption
  PROVE  Ranks!Spec => [](Ranks!RowsArePursued /\ Ranks!AnswersAreReused /\ Ranks!PagesHaveNoHoles)
<1>1. RanksIInv => Ranks!RowsArePursued /\ Ranks!AnswersAreReused /\ Ranks!PagesHaveNoHoles
  BY RanksIInvSuffices
<1> QED BY <1>1, RanksInductive, PTL

HIDE DEF ranksStatus, ranksObs, ranksJob, ranksWork, ranksCall, ranksPage,
         ranksTodo, ranksCursor, ranksExcused

=============================================================================
