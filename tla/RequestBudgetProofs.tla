------------------------ MODULE RequestBudgetProofs ------------------------
(***************************************************************************)
(* The request budget holds for any number of processes and callers, any   *)
(* limits, windows and shares, and any clock skew.                         *)
(***************************************************************************)
EXTENDS RequestBudget, FiniteSetTheorems, WellFoundedInduction, TLAPS

(* A set of naturals has a least element. *)
LEMMA LeastNatural ==
  ASSUME NEW S \in SUBSET Nat, S # {}
  PROVE  Min(S) \in S /\ \A m \in S : Min(S) <= m
<1>1. \A a, b \in Nat : <<a, b>> \in OpToRel(<, Nat) <=> a < b
  BY Zenon DEF OpToRel
<1>2. PICK x \in S : \A y \in S : ~ (<<y, x>> \in OpToRel(<, Nat))
  BY NatLessThanWellFounded, WFMin, Zenon
<1>3. \A y \in S : x <= y
  <2> SUFFICES ASSUME NEW y \in S PROVE x <= y
    OBVIOUS
  <2>1. ~ (y < x)
    BY <1>1, <1>2, Zenon
  <2> QED BY <2>1
<1> QED BY <1>3 DEF Min

(* Every limit a process uses admits at least one request. *)
LEMMA LimitsArePositive ==
  ASSUME NEW l \in Nat
  PROVE  /\ Effective(l) \in Nat \ {0}
         /\ EnrichmentCap(l) \in Nat \ {0}
         /\ NonProductCap(l) \in Nat \ {0}
<1> DEFINE share == 100 - ReservedPercent
<1>1. UtilizationPercent \in Int /\ EnrichmentPercent \in Int /\ share \in Int
  BY BudgetAssumption
<1>2. \A x \in Int : Atleast1(x \div 100) \in Nat \ {0}
  BY DEF Atleast1
<1>3. l * UtilizationPercent \in Int
  BY <1>1
<1>4. Effective(l) \in Nat \ {0}
  BY <1>2, <1>3 DEF Effective
<1>5. Effective(l) * EnrichmentPercent \in Int /\ Effective(l) * share \in Int
  BY <1>1, <1>4
<1> QED BY <1>2, <1>4, <1>5 DEF EnrichmentCap, NonProductCap

(* Whoever is in a window was counted: if what a window can still hold of the
   grants is in a set smaller than the limit, one more grant is within it. *)
LEMMA OneMoreFits ==
  ASSUME NEW G, IsFiniteSet(G), NEW K, IsFiniteSet(K), NEW e,
         NEW end \in Int, NEW window \in Int, NEW cap \in Nat,
         \A g \in G : end - window < g.at => g \in K,
         Cardinality(K) < cap
  PROVE  Cardinality(InWindow(G \union {e}, end, window)) <= cap
<1>1. InWindow(G \union {e}, end, window) \subseteq K \union {e}
  BY DEF InWindow
<1>a. Cardinality(K) \in Nat
  BY FS_CardinalityType
<1>b. IsFiniteSet(K \union {e})
      /\ Cardinality(K \union {e}) = IF e \in K THEN Cardinality(K) ELSE Cardinality(K) + 1
  BY FS_AddElement
<1>2. IsFiniteSet(K \union {e}) /\ Cardinality(K \union {e}) <= Cardinality(K) + 1
      /\ Cardinality(K) \in Nat
  BY <1>a, <1>b
<1>3. Cardinality(InWindow(G \union {e}, end, window)) <= Cardinality(K \union {e})
      /\ IsFiniteSet(InWindow(G \union {e}, end, window))
  BY <1>1, <1>2, FS_Subset
<1> QED BY <1>2, <1>3, FS_CardinalityType

(* What a grant e of the caller with the limit l finds, after pruning with the
   reading n: the windows over G held, what may still be counted is in
   members, and that is fewer than the limit. *)
Fits(G, members, window, n, e, L, Cap, l) ==
  /\ IsFiniteSet(G) /\ IsFiniteSet(members) /\ window \in Int /\ n \in Int /\ clock \in Nat
  /\ l \in L /\ \A x \in L : Cap[x] \in Nat
  /\ \A g \in G : /\ g.at \in Nat /\ g.score \in Nat
                  /\ g.at <= clock /\ g.at <= g.score + Skew
                  /\ clock + 2 * Skew < g.at + window => g \in members
  /\ n <= clock + Skew
  /\ e.at = clock
  /\ Cardinality(Fresh(members, window, n)) < Cap[l]
  /\ \A g \in G : \E x \in L : Cardinality(InWindow(G, g.at, Sure(window))) <= Cap[x]

(* Then the windows hold with the grant. *)
LEMMA WindowStillHolds ==
  ASSUME NEW G, NEW members, NEW window, NEW n, NEW e, NEW L, NEW Cap, NEW l,
         Fits(G, members, window, n, e, L, Cap, l)
  PROVE  \A g \in G \union {e} : \E x \in L :
           Cardinality(InWindow(G \union {e}, g.at, Sure(window))) <= Cap[x]
<1> DEFINE G1 == G \union {e}
<1>0. Skew \in Nat /\ Sure(window) \in Int /\ Sure(window) = window - 2 * Skew
      /\ clock \in Nat /\ n \in Int /\ window \in Int
  BY BudgetAssumption DEF Sure, Fits
<1>1. \E x \in L : Cardinality(InWindow(G1, clock, Sure(window))) <= Cap[x]
  <2> DEFINE K == Fresh(members, window, n)
  <2>1. IsFiniteSet(K)
    <3>1. IsFiniteSet(members) /\ K \in SUBSET members
      BY DEF Fits, Fresh
    <3> HIDE DEF K
    <3> QED BY <3>1, FS_Subset
  <2>2. \A h \in G : clock - Sure(window) < h.at => h \in K
    <3> SUFFICES ASSUME NEW h \in G, clock - Sure(window) < h.at PROVE h \in K
      OBVIOUS
    <3>1. /\ h.at \in Nat /\ h.score \in Nat /\ h.at <= h.score + Skew /\ n <= clock + Skew
          /\ clock + 2 * Skew < h.at + window => h \in members
      BY DEF Fits
    <3>2. h \in members /\ h.score > n - window
      BY <1>0, <3>1
    <3> QED BY <3>2 DEF Fresh
  <2>3. Cardinality(K) < Cap[l] /\ Cap[l] \in Nat /\ l \in L /\ IsFiniteSet(G)
    BY DEF Fits
  <2> HIDE DEF K
  <2>a. clock \in Int
    BY <1>0
  <2>4. Cardinality(InWindow(G1, clock, Sure(window))) <= Cap[l]
    BY <1>0, <2>a, <2>1, <2>2, <2>3, OneMoreFits, Zenon
  <2> QED BY <2>3, <2>4
<1>2. ASSUME NEW g \in G, g.at # clock
      PROVE  \E x \in L : Cardinality(InWindow(G1, g.at, Sure(window))) <= Cap[x]
  <2>1. g.at \in Nat /\ g.at < clock /\ e.at = clock
    BY <1>2 DEF Fits
  <2>2. InWindow(G1, g.at, Sure(window)) = InWindow(G, g.at, Sure(window))
    <3>1. \A h \in G1 : h.at = clock => ~(h.at <= g.at)
      BY <1>0, <2>1
    <3>2. \A h \in G1 : h.at <= g.at => h \in G
      BY <2>1, <3>1
    <3>3. InWindow(G1, g.at, Sure(window)) \subseteq InWindow(G, g.at, Sure(window))
      BY <3>2 DEF InWindow
    <3>4. InWindow(G, g.at, Sure(window)) \subseteq InWindow(G1, g.at, Sure(window))
      BY DEF InWindow
    <3> QED BY <3>3, <3>4
  <2> QED BY <2>2 DEF Fits
<1>3. e.at = clock
  BY DEF Fits
<1> QED BY <1>1, <1>2, <1>3

-----------------------------------------------------------------------------
(* The script                                                              *)

(* The decisions of the script. *)
LEMMA ReasonIsOneOf ==
  ASSUME NEW c, NEW n
  PROVE  Reason(c, n) \in {"cooldown", "header_pressure", "short_window", "long_window",
                           "product_reserve", "enrichment_share", "admitted"}
BY DEF Reason

(* What a reservation that is admitted has passed. *)
LEMMA AdmittedPasses ==
  ASSUME NEW c, NEW n, Reason(c, n) = "admitted"
  PROVE  /\ ~(cooldown > n)
         /\ ~(Cardinality(ShortFresh(n)) >= Effective(observed[Home[c]].short))
         /\ ~(Cardinality(LongFresh(n)) >= Effective(observed[Home[c]].long))
         /\ ~OutsideReserve(c, n) /\ ~OverShare(c, n)
BY DEF Reason

(* A limit a process uses is one of the limits. *)
LEMMA LimitsInUse ==
  ASSUME TypeOK, NEW c \in Caller
  PROVE  /\ observed[Home[c]].short \in ShortLimits /\ observed[Home[c]].short \in Nat
         /\ observed[Home[c]].long \in LongLimits /\ observed[Home[c]].long \in Nat
BY BudgetAssumption DEF TypeOK

(* The sorted sets are finite. *)
LEMMA SetsAreFinite ==
  ASSUME TypeOK
  PROVE  /\ IsFiniteSet(short) /\ IsFiniteSet(long) /\ IsFiniteSet(enrichment)
         /\ IsFiniteSet(Enrichments)
         /\ \A n : /\ IsFiniteSet(ShortFresh(n)) /\ Cardinality(ShortFresh(n)) \in Nat
                   /\ IsFiniteSet(LongFresh(n)) /\ Cardinality(LongFresh(n)) \in Nat
                   /\ IsFiniteSet(EnrichmentFresh(n)) /\ Cardinality(EnrichmentFresh(n)) \in Nat
<1>1. IsFiniteSet(Enrichments)
  BY FS_Subset DEF TypeOK, Enrichments
<1>2. IsFiniteSet(short) /\ IsFiniteSet(long) /\ IsFiniteSet(enrichment)
  BY <1>1, FS_Subset DEF TypeOK
<1>3. \A S, w, n : IsFiniteSet(S) => IsFiniteSet(Fresh(S, w, n)) /\ Cardinality(Fresh(S, w, n)) \in Nat
  BY FS_Subset, FS_CardinalityType DEF Fresh
<1> QED BY <1>1, <1>2, <1>3 DEF ShortFresh, LongFresh, EnrichmentFresh

(* Pruning with any reading leaves what may still be counted. *)
LEMMA PruningKeepsRecent ==
  ASSUME IInv, NEW n \in Readings, NEW members, NEW grants \in SUBSET granted,
         NEW window \in Nat, RecentAreKept(members, grants, window)
  PROVE  RecentAreKept(Fresh(members, window, n), grants, window)
<1> SUFFICES ASSUME NEW g \in grants, clock + 2 * Skew < g.at + window
             PROVE  g.score > n - window /\ g \in members
  BY DEF RecentAreKept, Fresh
<1>1. Skew \in Nat /\ clock \in Nat /\ n \in Nat /\ n <= clock + Skew
  BY BudgetAssumption DEF Readings, IInv, TypeOK
<1>2. g.at \in Nat /\ g.score \in Nat /\ g.at <= g.score + Skew
  BY DEF IInv, TypeOK, Entry, ReadingsAreClose
<1> QED BY <1>1, <1>2 DEF RecentAreKept

(* The entry the script would add. *)
LEMMA NewEntryTyped ==
  ASSUME TypeOK, NEW c \in Caller, NEW n \in Readings
  PROVE  /\ NewEntry(c, n) \in Entry
         /\ NewEntry(c, n).at = clock /\ NewEntry(c, n).score = n
         /\ NewEntry(c, n).workload = request[c].workload
         /\ n \in Nat /\ n <= clock + Skew /\ clock <= n + Skew
<1>1. n \in Nat /\ n <= clock + Skew /\ clock <= n + Skew
  BY BudgetAssumption DEF Readings, TypeOK
<1>2. request[c].workload \in Workload /\ clock \in Nat
  BY DEF TypeOK, RequestType
<1> DEFINE alike == {g \in granted : g.workload = request[c].workload /\ g.score = n /\ g.at = clock}
<1>3. Cardinality(alike) \in Nat
  BY FS_Subset, FS_CardinalityType DEF TypeOK
<1> QED BY <1>1, <1>2, <1>3 DEF NewEntry, Entry

(* The four windows, after a reservation that is admitted. *)
LEMMA AdmittedFits ==
  ASSUME IInv, NEW c \in Caller, NEW n \in Readings, Reason(c, n) = "admitted",
         granted' = granted \union {NewEntry(c, n)}
  PROVE  (ShortWindowHolds /\ LongWindowHolds /\ ProductReserveKept /\ EnrichmentShareKept)'
<1> DEFINE e == NewEntry(c, n)
           shortLimit == observed[Home[c]].short
           longLimit == observed[Home[c]].long
<1>0. /\ Skew \in Nat /\ ShortWindow \in Nat /\ LongWindow \in Nat
      /\ ShortLimits \subseteq Nat /\ LongLimits \subseteq Nat /\ ReservedPercent \in Nat
  BY BudgetAssumption
<1>1. TypeOK /\ clock \in Nat /\ IsFiniteSet(granted)
  BY DEF IInv, TypeOK
<1>2. e.at = clock /\ n \in Nat /\ n <= clock + Skew /\ e.workload = request[c].workload
  BY <1>1, NewEntryTyped
<1>3. shortLimit \in ShortLimits /\ longLimit \in LongLimits
  BY <1>1, LimitsInUse
<1>4. \A g \in granted : g.at \in Nat /\ g.score \in Nat /\ g.at <= clock /\ g.at <= g.score + Skew
  BY DEF IInv, TypeOK, Entry, ReadingsAreClose
<1>5. \A l \in Nat : Effective(l) \in Nat /\ NonProductCap(l) \in Nat /\ EnrichmentCap(l) \in Nat
  BY LimitsArePositive
<1>6. /\ Cardinality(ShortFresh(n)) \in Nat /\ Cardinality(LongFresh(n)) \in Nat
      /\ Cardinality(EnrichmentFresh(n)) \in Nat
      /\ IsFiniteSet(short) /\ IsFiniteSet(long) /\ IsFiniteSet(enrichment)
  BY <1>1, SetsAreFinite
<1>11. /\ shortLimit \in Nat /\ longLimit \in Nat
       /\ Cardinality(ShortFresh(n)) < Effective(shortLimit)
       /\ Cardinality(LongFresh(n)) < Effective(longLimit)
  <2>1. ~(Cardinality(ShortFresh(n)) >= Effective(shortLimit))
        /\ ~(Cardinality(LongFresh(n)) >= Effective(longLimit))
    BY AdmittedPasses
  <2>2. shortLimit \in Nat /\ longLimit \in Nat
    BY <1>0, <1>3
  <2>3. Effective(shortLimit) \in Nat /\ Effective(longLimit) \in Nat
    BY <1>5, <2>2
  <2> HIDE DEF shortLimit, longLimit
  <2> QED BY <1>6, <2>1, <2>2, <2>3
<1>12. e.workload # "product" => Cardinality(ShortFresh(n)) < NonProductCap(shortLimit)
  <2>1. ~OutsideReserve(c, n)
    BY AdmittedPasses
  <2>2. NonProductCap(shortLimit) \in Nat
    BY <1>5, <1>11
  <2>3. CASE ReservedPercent = 0
    BY <1>11, <2>3 DEF NonProductCap
  <2>4. CASE ReservedPercent > 0
    <3>1. e.workload # "product" => ~(Cardinality(ShortFresh(n)) >= NonProductCap(shortLimit))
      BY <1>2, <2>1, <2>4 DEF OutsideReserve
    <3> HIDE DEF shortLimit, e
    <3> QED BY <1>6, <2>2, <3>1
  <2> QED BY <1>0, <2>3, <2>4
<1>13. e.workload = "enrichment" => Cardinality(EnrichmentFresh(n)) < EnrichmentCap(shortLimit)
  <2>1. ~OverShare(c, n)
    BY AdmittedPasses
  <2>2. EnrichmentCap(shortLimit) \in Nat
    BY <1>5, <1>11
  <2>3. e.workload = "enrichment" => ~(Cardinality(EnrichmentFresh(n)) >= EnrichmentCap(shortLimit))
    BY <1>2, <2>1 DEF OverShare
  <2> HIDE DEF shortLimit, e
  <2> QED BY <1>6, <2>2, <2>3
<1> HIDE DEF e, shortLimit, longLimit
<1>7. ShortWindowHolds'
  <2> DEFINE Cap == [l \in ShortLimits |-> Effective(l)]
  <2>1. Cardinality(Fresh(short, ShortWindow, n)) < Cap[shortLimit]
    BY <1>3, <1>11 DEF ShortFresh
  <2>2. \A g \in granted : clock + 2 * Skew < g.at + ShortWindow => g \in short
    BY DEF IInv, NothingRecentHasLeft, RecentAreKept
  <2>3. \A g \in granted : \E x \in ShortLimits :
          Cardinality(InWindow(granted, g.at, Sure(ShortWindow))) <= Cap[x]
    BY DEF IInv, ShortWindowHolds
  <2>4. \A x \in ShortLimits : Cap[x] \in Nat
    BY <1>0, <1>5
  <2> HIDE DEF Cap
  <2>5. Fits(granted, short, ShortWindow, n, e, ShortLimits, Cap, shortLimit)
    BY <1>0, <1>1, <1>2, <1>3, <1>4, <1>6, <2>1, <2>2, <2>3, <2>4 DEF Fits
  <2>6. \A g \in granted \union {e} : \E x \in ShortLimits :
          Cardinality(InWindow(granted \union {e}, g.at, Sure(ShortWindow))) <= Cap[x]
    BY <2>5, WindowStillHolds
  <2> QED BY <2>6 DEF ShortWindowHolds, Cap, e
<1>8. LongWindowHolds'
  <2> DEFINE Cap == [l \in LongLimits |-> Effective(l)]
  <2>1. Cardinality(Fresh(long, LongWindow, n)) < Cap[longLimit]
    BY <1>3, <1>11 DEF LongFresh
  <2>2. \A g \in granted : clock + 2 * Skew < g.at + LongWindow => g \in long
    BY DEF IInv, NothingRecentHasLeft, RecentAreKept
  <2>3. \A g \in granted : \E x \in LongLimits :
          Cardinality(InWindow(granted, g.at, Sure(LongWindow))) <= Cap[x]
    BY DEF IInv, LongWindowHolds
  <2>4. \A x \in LongLimits : Cap[x] \in Nat
    BY <1>0, <1>5
  <2> HIDE DEF Cap
  <2>5. Fits(granted, long, LongWindow, n, e, LongLimits, Cap, longLimit)
    BY <1>0, <1>1, <1>2, <1>3, <1>4, <1>6, <2>1, <2>2, <2>3, <2>4 DEF Fits
  <2>6. \A g \in granted \union {e} : \E x \in LongLimits :
          Cardinality(InWindow(granted \union {e}, g.at, Sure(LongWindow))) <= Cap[x]
    BY <2>5, WindowStillHolds
  <2> QED BY <2>6 DEF LongWindowHolds, Cap, e
<1>9. ProductReserveKept'
  <2> DEFINE others == {g \in granted : g.workload # "product"}
             Cap == [l \in ShortLimits |-> NonProductCap(l)]
  <2>1. \A g \in others : \E x \in ShortLimits :
          Cardinality(InWindow(others, g.at, Sure(ShortWindow))) <= Cap[x]
    BY DEF IInv, ProductReserveKept
  <2>2. CASE e.workload = "product"
    <3>1. {g \in granted' : g.workload # "product"} = others
      BY <2>2 DEF e
    <3> QED BY <2>1, <3>1 DEF ProductReserveKept
  <2>3. CASE e.workload # "product"
    <3>1. Cardinality(Fresh(short, ShortWindow, n)) < Cap[shortLimit]
      BY <1>3, <1>12, <2>3 DEF ShortFresh
    <3>2. \A g \in others : clock + 2 * Skew < g.at + ShortWindow => g \in short
      BY DEF IInv, NothingRecentHasLeft, RecentAreKept
    <3>3. \A x \in ShortLimits : Cap[x] \in Nat
      BY <1>0, <1>5
    <3>4. IsFiniteSet(others) /\ others \subseteq granted
      BY <1>1, FS_Subset
    <3>5. {g \in granted' : g.workload # "product"} = others \union {e}
      BY <2>3 DEF e
    <3> HIDE DEF Cap, others
    <3>6. Fits(others, short, ShortWindow, n, e, ShortLimits, Cap, shortLimit)
      BY <1>0, <1>1, <1>2, <1>3, <1>4, <1>6, <2>1, <3>1, <3>2, <3>3, <3>4 DEF Fits
    <3>7. \A g \in others \union {e} : \E x \in ShortLimits :
            Cardinality(InWindow(others \union {e}, g.at, Sure(ShortWindow))) <= Cap[x]
      BY <3>6, WindowStillHolds
    <3> QED BY <3>5, <3>7 DEF ProductReserveKept, Cap
  <2> QED BY <2>2, <2>3
<1>10. EnrichmentShareKept'
  <2> DEFINE Cap == [l \in ShortLimits |-> EnrichmentCap(l)]
  <2>1. \A g \in Enrichments : \E x \in ShortLimits :
          Cardinality(InWindow(Enrichments, g.at, Sure(ShortWindow))) <= Cap[x]
    BY DEF IInv, EnrichmentShareKept
  <2>2. CASE e.workload # "enrichment"
    <3>1. Enrichments' = Enrichments
      BY <2>2 DEF e, Enrichments
    <3> QED BY <2>1, <3>1 DEF EnrichmentShareKept
  <2>3. CASE e.workload = "enrichment"
    <3>1. Cardinality(Fresh(enrichment, ShortWindow, n)) < Cap[shortLimit]
      BY <1>3, <1>13, <2>3 DEF EnrichmentFresh
    <3>2. \A g \in Enrichments : clock + 2 * Skew < g.at + ShortWindow => g \in enrichment
      BY DEF IInv, NothingRecentHasLeft, RecentAreKept
    <3>3. \A x \in ShortLimits : Cap[x] \in Nat
      BY <1>0, <1>5
    <3>4. IsFiniteSet(Enrichments) /\ Enrichments \subseteq granted
      BY <1>1, FS_Subset DEF Enrichments
    <3>5. Enrichments' = Enrichments \union {e}
      BY <2>3 DEF e, Enrichments
    <3> HIDE DEF Cap
    <3>6. Fits(Enrichments, enrichment, ShortWindow, n, e, ShortLimits, Cap, shortLimit)
      BY <1>0, <1>1, <1>2, <1>3, <1>4, <1>6, <2>1, <3>1, <3>2, <3>3, <3>4 DEF Fits
    <3>7. \A g \in Enrichments \union {e} : \E x \in ShortLimits :
            Cardinality(InWindow(Enrichments \union {e}, g.at, Sure(ShortWindow))) <= Cap[x]
      BY <3>6, WindowStillHolds
    <3> QED BY <3>5, <3>7 DEF EnrichmentShareKept, Cap
  <2> QED BY <2>2, <2>3
<1> QED BY <1>7, <1>8, <1>9, <1>10


(* The part of the invariant that is about Redis and what was granted. *)
Granting ==
  /\ granted \subseteq Entry /\ IsFiniteSet(granted)
  /\ short \subseteq granted /\ long \subseteq granted /\ enrichment \subseteq Enrichments
  /\ ReadingsAreClose /\ NothingRecentHasLeft /\ PublishedIsCovered
  /\ ShortWindowHolds /\ LongWindowHolds /\ ProductReserveKept /\ EnrichmentShareKept
  /\ CooldownIsKept

(* The invariant bounds the grants. *)
LEMMA InvariantGrants == ASSUME IInv PROVE Granting
BY DEF IInv, TypeOK, Granting

(* A run of the script keeps it. *)
LEMMA ScriptKeeps ==
  ASSUME IInv, NEW c \in Caller, NEW n \in Readings, Script(c, n, Reason(c, n)),
         UNCHANGED <<clock, cooldown, published>>
  PROVE  Granting'
<1> DEFINE e == NewEntry(c, n)
<1>0. /\ Skew \in Nat /\ ShortWindow \in Nat /\ LongWindow \in Nat
  BY BudgetAssumption
<1>1. TypeOK /\ Granting /\ clock \in Nat /\ cooldown \in Nat
  BY InvariantGrants DEF IInv, TypeOK
<1>2. /\ e \in Entry /\ e.at = clock /\ e.score = n /\ e.workload = request[c].workload
      /\ n \in Nat /\ n <= clock + Skew /\ clock <= n + Skew
  BY <1>1, NewEntryTyped
<1>3. /\ RecentAreKept(ShortFresh(n), granted, ShortWindow)
      /\ RecentAreKept(LongFresh(n), granted, LongWindow)
      /\ RecentAreKept(EnrichmentFresh(n), Enrichments, ShortWindow)
  BY <1>0, PruningKeepsRecent
     DEF IInv, NothingRecentHasLeft, ShortFresh, LongFresh, EnrichmentFresh, Enrichments
<1>4. ShortFresh(n) \subseteq short /\ LongFresh(n) \subseteq long /\ EnrichmentFresh(n) \subseteq enrichment
  BY DEF ShortFresh, LongFresh, EnrichmentFresh, Fresh
<1>5. PublishedIsCovered'
  BY <1>1 DEF Granting, PublishedIsCovered
<1>6. CASE Reason(c, n) # "admitted"
  <2>1. /\ granted' = granted
        /\ short' \in {short, ShortFresh(n)} /\ long' \in {long, LongFresh(n)}
        /\ enrichment' \in {enrichment, EnrichmentFresh(n)}
    BY <1>6, ReasonIsOneOf DEF Script
  <2>2. Enrichments' = Enrichments
    BY <2>1 DEF Enrichments
  <2>3. NothingRecentHasLeft'
    BY <1>1, <1>3, <2>1, <2>2 DEF Granting, NothingRecentHasLeft, RecentAreKept
  <2>4. (ShortWindowHolds /\ LongWindowHolds /\ ProductReserveKept /\ EnrichmentShareKept)'
    BY <1>1, <2>1, <2>2
       DEF Granting, ShortWindowHolds, LongWindowHolds, ProductReserveKept, EnrichmentShareKept
  <2> QED BY <1>1, <1>4, <1>5, <2>1, <2>2, <2>3, <2>4 DEF Granting, ReadingsAreClose, CooldownIsKept
<1>7. CASE Reason(c, n) = "admitted"
  <2>1. /\ granted' = granted \union {e}
        /\ short' = ShortFresh(n) \union {e} /\ long' = LongFresh(n) \union {e}
        /\ enrichment' = IF request[c].workload = "enrichment"
                         THEN EnrichmentFresh(n) \union {e} ELSE enrichment
    BY <1>7 DEF Script
  <2> HIDE DEF e
  <2>2. Enrichments' = IF request[c].workload = "enrichment" THEN Enrichments \union {e} ELSE Enrichments
    BY <1>2, <2>1 DEF Enrichments
  <2>3. granted' \subseteq Entry /\ IsFiniteSet(granted')
    BY <1>1, <1>2, <2>1, FS_AddElement DEF Granting
  <2>4. short' \subseteq granted' /\ long' \subseteq granted' /\ enrichment' \subseteq Enrichments'
    BY <1>1, <1>4, <2>1, <2>2 DEF Granting
  <2>5. ReadingsAreClose'
    BY <1>0, <1>1, <1>2, <2>1 DEF Granting, ReadingsAreClose
  <2>6. NothingRecentHasLeft'
    <3>1. RecentAreKept(short, granted, ShortWindow)' /\ RecentAreKept(long, granted, LongWindow)'
      BY <1>3, <2>1 DEF RecentAreKept
    <3>2. RecentAreKept(enrichment, Enrichments, ShortWindow)'
      <4>1. CASE request[c].workload = "enrichment"
        BY <1>3, <2>1, <2>2, <4>1 DEF RecentAreKept
      <4>2. CASE request[c].workload # "enrichment"
        BY <1>1, <2>1, <2>2, <4>2 DEF RecentAreKept, Granting, NothingRecentHasLeft
      <4> QED BY <4>1, <4>2
    <3> QED BY <3>1, <3>2 DEF NothingRecentHasLeft
  <2>7. (ShortWindowHolds /\ LongWindowHolds /\ ProductReserveKept /\ EnrichmentShareKept)'
    BY <1>7, <2>1, AdmittedFits DEF e
  <2>8. CooldownIsKept'
    <3> SUFFICES ASSUME NEW p \in published, NEW g \in granted', p.at < g.at
                 PROVE  p.until <= g.at + Skew
      BY DEF CooldownIsKept
    <3>1. CASE g = e
      <4>1. p.until <= cooldown /\ p.until \in Nat
        BY <1>1 DEF Granting, PublishedIsCovered, TypeOK
      <4>2. ~(cooldown > n)
        BY <1>7, AdmittedPasses
      <4> QED BY <1>0, <1>1, <1>2, <3>1, <4>1, <4>2
    <3>2. CASE g # e
      BY <1>1, <2>1, <3>2 DEF Granting, CooldownIsKept
    <3> QED BY <3>1, <3>2
  <2> QED BY <1>5, <2>3, <2>4, <2>5, <2>6, <2>7, <2>8 DEF Granting
<1> QED BY <1>6, <1>7

(* A step that leaves Redis, the time and the history alone keeps it too. *)
LEMMA UntouchedKeeps ==
  ASSUME Granting, UNCHANGED <<clock, short, long, enrichment, cooldown, granted, published>>
  PROVE  Granting'
<1>1. Enrichments' = Enrichments
  BY DEF Enrichments
<1> QED BY <1>1 DEF Granting, ReadingsAreClose, NothingRecentHasLeft, RecentAreKept,
                    PublishedIsCovered, ShortWindowHolds, LongWindowHolds,
                    ProductReserveKept, EnrichmentShareKept, CooldownIsKept

(* The cooldown only grows, so a new one covers the earlier ones. *)
LEMMA PublishingKeeps ==
  ASSUME IInv, NEW c \in Caller, PublishCooldown(c)
  PROVE  Granting' /\ cooldown' \in Nat /\ published' \subseteq [at : Nat, until : Nat]
<1>1. PICK n \in Readings, d \in Cooldowns :
        /\ cooldown' = Later(n + d)
        /\ published' = published \union {[at |-> clock, until |-> n + d]}
  BY DEF PublishCooldown
<1>2. UNCHANGED <<clock, short, long, enrichment, granted>>
  BY DEF PublishCooldown
<1>3. /\ Skew \in Nat /\ clock \in Nat /\ cooldown \in Nat /\ n \in Nat /\ d \in Nat
      /\ published \subseteq [at : Nat, until : Nat] /\ Granting
      /\ \A g \in granted : g.at \in Nat
  BY BudgetAssumption, InvariantGrants DEF Readings, IInv, TypeOK, Entry
<1>4. cooldown' \in Nat /\ cooldown' >= cooldown /\ cooldown' >= n + d
  BY <1>1, <1>3 DEF Later
<1>5. published' \subseteq [at : Nat, until : Nat]
  BY <1>1, <1>3
<1>6. PublishedIsCovered'
  BY <1>1, <1>2, <1>3, <1>4 DEF Granting, PublishedIsCovered
<1>7. CooldownIsKept'
  BY <1>1, <1>2, <1>3 DEF Granting, CooldownIsKept, ReadingsAreClose
<1>8. Enrichments' = Enrichments
  BY <1>2 DEF Enrichments
<1> QED BY <1>2, <1>3, <1>4, <1>5, <1>6, <1>7, <1>8
        DEF Granting, ReadingsAreClose, NothingRecentHasLeft, RecentAreKept,
            ShortWindowHolds, LongWindowHolds, ProductReserveKept, EnrichmentShareKept

(* Time passes: what may still be counted is less, and a key that expires
   holds nothing of it. *)
LEMMA ExpiryKeepsRecent ==
  ASSUME NEW members, NEW grants, NEW window \in Nat, clock \in Nat, clock' = clock + 1,
         \A g \in grants : g.at \in Nat, RecentAreKept(members, grants, window)
  PROVE  \A g \in grants : clock' + 2 * Skew < g.at + window
                         => g \in Unexpired(members, grants, window)
BY BudgetAssumption DEF RecentAreKept, Unexpired

(* Time passes. *)
LEMMA TickKeeps ==
  ASSUME IInv, Tick
  PROVE  Granting' /\ clock' \in Nat
<1>1. /\ clock \in Nat /\ clock' = clock + 1 /\ Granting /\ published \subseteq [at : Nat, until : Nat]
      /\ UNCHANGED <<cooldown, granted, published>>
      /\ \A g \in granted : g.at \in Nat
      /\ Skew \in Nat /\ ShortWindow \in Nat /\ LongWindow \in Nat
  BY BudgetAssumption, InvariantGrants DEF IInv, TypeOK, Tick, Entry
<1>2. Enrichments' = Enrichments /\ Enrichments \subseteq granted
  BY <1>1 DEF Enrichments
<1>3. short' \subseteq short /\ long' \subseteq long /\ enrichment' \subseteq enrichment
  BY DEF Tick, Unexpired
<1>4. NothingRecentHasLeft'
  <2>1. \A g \in granted : clock' + 2 * Skew < g.at + ShortWindow => g \in short'
    BY <1>1, ExpiryKeepsRecent DEF Tick, Granting, NothingRecentHasLeft
  <2>2. \A g \in granted : clock' + 2 * Skew < g.at + LongWindow => g \in long'
    BY <1>1, ExpiryKeepsRecent DEF Tick, Granting, NothingRecentHasLeft
  <2>3. \A g \in Enrichments : clock' + 2 * Skew < g.at + ShortWindow => g \in enrichment'
    BY <1>1, <1>2, ExpiryKeepsRecent DEF Tick, Granting, NothingRecentHasLeft
  <2> QED BY <1>1, <1>2, <2>1, <2>2, <2>3 DEF NothingRecentHasLeft, RecentAreKept
<1>5. ReadingsAreClose' /\ PublishedIsCovered'
  BY <1>1 DEF Granting, ReadingsAreClose, PublishedIsCovered
<1> QED BY <1>1, <1>2, <1>3, <1>4, <1>5
        DEF Granting, ShortWindowHolds, LongWindowHolds, ProductReserveKept,
            EnrichmentShareKept, CooldownIsKept

-----------------------------------------------------------------------------
(* The requests                                                            *)

(* Every wait the script asks for is a positive time. *)
LEMMA WaitsArePositive ==
  ASSUME TypeOK, NEW c \in Caller, NEW n \in Readings, NEW reason,
         reason = "redis_error" \/ (reason = Reason(c, n) /\ reason # "admitted")
  PROVE  Wait(reason, n) \in Nat \ {0}
<1> DEFINE shortLimit == observed[Home[c]].short
           longLimit == observed[Home[c]].long
<1>0. /\ ShortWindow \in Nat /\ LongWindow \in Nat /\ ErrorWait \in Nat \ {0}
      /\ cooldown \in Nat /\ pressure.until \in Nat /\ n \in Nat
  BY BudgetAssumption, NewEntryTyped DEF TypeOK
<1>1. shortLimit \in Nat /\ longLimit \in Nat
  BY LimitsInUse
<1>2. /\ Effective(shortLimit) \in Nat \ {0} /\ Effective(longLimit) \in Nat \ {0}
      /\ NonProductCap(shortLimit) \in Nat \ {0} /\ EnrichmentCap(shortLimit) \in Nat \ {0}
  BY <1>1, LimitsArePositive
<1>3. \A S \in SUBSET granted, w \in Nat : S # {} => UntilOldestLeaves(S, w, n) \in Nat \ {0}
  <2> SUFFICES ASSUME NEW S \in SUBSET granted, NEW w \in Nat, S # {}
               PROVE  UntilOldestLeaves(S, w, n) \in Nat \ {0}
    OBVIOUS
  <2>1. {e.score : e \in S} \in SUBSET Nat /\ {e.score : e \in S} # {}
    BY DEF TypeOK, Entry
  <2>2. Min({e.score : e \in S}) \in Nat
    BY <2>1, LeastNatural
  <2> QED BY <1>0, <2>2 DEF UntilOldestLeaves, Atleast1
<1>4. \A S \in SUBSET granted, k \in Nat \ {0} : Cardinality(S) >= k => S # {}
  BY FS_EmptySet
<1>5. ShortFresh(n) \in SUBSET granted /\ LongFresh(n) \in SUBSET granted
      /\ EnrichmentFresh(n) \in SUBSET granted
  BY DEF TypeOK, ShortFresh, LongFresh, EnrichmentFresh, Fresh, Enrichments
<1>6. CASE reason = "redis_error"
  BY <1>0, <1>6 DEF Wait
<1>7. CASE reason = "cooldown"
  <2>1. cooldown > n
    BY <1>7 DEF Reason
  <2> QED BY <1>0, <1>7, <2>1 DEF Wait
<1>8. CASE reason = "header_pressure"
  <2>1. pressure.until > n
    BY <1>8 DEF Reason, UnderPressure
  <2> QED BY <1>0, <1>8, <2>1 DEF Wait
<1>9. CASE reason = "short_window"
  <2>1. Cardinality(ShortFresh(n)) >= Effective(shortLimit)
    BY <1>9 DEF Reason
  <2>2. ShortFresh(n) # {}
    BY <1>2, <1>4, <1>5, <2>1
  <2> QED BY <1>0, <1>3, <1>5, <1>9, <2>2 DEF Wait
<1>10. CASE reason = "long_window"
  <2>1. Cardinality(LongFresh(n)) >= Effective(longLimit)
    BY <1>10 DEF Reason
  <2>2. LongFresh(n) # {}
    BY <1>2, <1>4, <1>5, <2>1
  <2> QED BY <1>0, <1>3, <1>5, <1>10, <2>2 DEF Wait
<1>11. CASE reason = "product_reserve"
  <2>1. Cardinality(ShortFresh(n)) >= NonProductCap(shortLimit)
    BY <1>11 DEF Reason, OutsideReserve
  <2>2. ShortFresh(n) # {}
    BY <1>2, <1>4, <1>5, <2>1
  <2> QED BY <1>0, <1>3, <1>5, <1>11, <2>2 DEF Wait
<1>12. CASE reason = "enrichment_share"
  <2>1. Cardinality(EnrichmentFresh(n)) >= EnrichmentCap(shortLimit)
    BY <1>12 DEF Reason, OverShare
  <2>2. EnrichmentFresh(n) # {}
    BY <1>2, <1>4, <1>5, <2>1
  <2> QED BY <1>0, <1>3, <1>5, <1>12, <2>2 DEF Wait
<1> QED BY <1>6, <1>7, <1>8, <1>9, <1>10, <1>11, <1>12, ReasonIsOneOf

(* What a request may move to. *)
CloseDeadline(r) ==
  r.pc = "reserving" => r.deadline <= r.started + MaxInline + Slack + Skew

(* One request moves on. *)
LEMMA MoveKeeps ==
  ASSUME IInv, NEW c \in Caller, NEW r \in RequestType, CloseDeadline(r), Move(c, r)
  PROVE  request' \in [Caller -> RequestType] /\ DeadlinesAreClose'
BY DEF Move, IInv, TypeOK, DeadlinesAreClose, CloseDeadline

(* A caller that asks for nothing. *)
LEMMA IdleTyped == Idle \in RequestType /\ CloseDeadline(Idle)
BY BudgetAssumption DEF Idle, RequestType, Pc, CloseDeadline

(* A request comes to the gate. *)
LEMMA GateKeeps ==
  ASSUME IInv, NEW c \in Caller, NEW w \in Workload, NEW k \in 0..MaxRetries, Gate(c, w, k)
  PROVE  request' \in [Caller -> RequestType] /\ DeadlinesAreClose'
<1>1. PICK n \in Readings :
        Move(c, [pc |-> "reserving", workload |-> w, attempt |-> k,
                 started |-> clock, deadline |-> n + MaxInline + Slack, wake |-> clock])
  BY DEF Gate
<1> DEFINE r == [pc |-> "reserving", workload |-> w, attempt |-> k,
                 started |-> clock, deadline |-> n + MaxInline + Slack, wake |-> clock]
<1>2. n \in Nat /\ n <= clock + Skew /\ clock \in Nat /\ MaxInline \in Nat /\ Slack \in Nat /\ Skew \in Nat
  BY BudgetAssumption DEF Readings, IInv, TypeOK
<1>3. r \in RequestType
  BY <1>2 DEF RequestType, Pc
<1>4. CloseDeadline(r)
  BY <1>2 DEF CloseDeadline
<1>5. Move(c, r)
  BY <1>1
<1> HIDE DEF r
<1> QED BY <1>3, <1>4, <1>5, MoveKeeps

(* A retry keeps its deadline close. *)
LEMMA RetryKeeps ==
  ASSUME IInv, NEW c \in Caller, Retry(c)
  PROVE  request' \in [Caller -> RequestType] /\ DeadlinesAreClose'
<1>1. request[c] \in RequestType /\ MaxRetries \in Nat
  BY BudgetAssumption DEF IInv, TypeOK
<1>2. CASE request[c].attempt < MaxRetries
  <2>1. request[c].attempt + 1 \in 0..MaxRetries /\ request[c].workload \in Workload
    BY <1>1, <1>2 DEF RequestType
  <2> QED BY <1>2, <2>1, GateKeeps DEF Retry
<1>3. CASE ~(request[c].attempt < MaxRetries)
  BY <1>3, IdleTyped, MoveKeeps DEF Retry
<1> QED BY <1>2, <1>3

(* A refused request is deferred, or asleep until a later time before its
   deadline. *)
LEMMA RefusedKeeps ==
  ASSUME IInv, NEW c \in Caller, request[c].pc = "reserving", NEW n \in Readings, NEW reason,
         reason = "redis_error" \/ (reason = Reason(c, n) /\ reason # "admitted"),
         Refused(c, n, reason)
  PROVE  /\ request' \in [Caller -> RequestType] /\ DeadlinesAreClose'
         /\ request'[c].pc = "reserving" =>
              /\ clock < request'[c].wake
              /\ request'[c].wake <= request[c].started + MaxInline + Slack + 2 * Skew
         /\ \A d \in Caller \ {c} : request'[d] = request[d]
<1> DEFINE wait == Wait(reason, n)
           r == [request[c] EXCEPT !.wake = clock + wait]
<1>1. wait \in Nat \ {0}
  BY WaitsArePositive DEF IInv
<1>2. /\ request[c] \in RequestType /\ request \in [Caller -> RequestType]
      /\ clock \in Nat /\ n \in Nat /\ clock <= n + Skew
      /\ MaxInline \in Nat /\ Slack \in Nat /\ Skew \in Nat
      /\ request[c].deadline \in Nat /\ request[c].started \in Nat
      /\ request[c].deadline <= request[c].started + MaxInline + Slack + Skew
  BY BudgetAssumption DEF Readings, IInv, TypeOK, RequestType, DeadlinesAreClose
<1>3. Refused(c, n, reason) <=>
        Move(c, IF reason = "cooldown" \/ TooLong(c, n, wait) THEN Idle ELSE r)
  BY DEF Refused
<1>4. TooLong(c, n, wait) <=> wait > MaxInline \/ n + wait > request[c].deadline
  BY DEF TooLong
<1> HIDE DEF wait
<1>5. CASE reason = "cooldown" \/ TooLong(c, n, wait)
  <2>1. Move(c, Idle)
    BY <1>3, <1>5
  <2>2. request'[c].pc = "idle" /\ \A d \in Caller \ {c} : request'[d] = request[d]
    BY <1>2, <2>1 DEF Move, Idle
  <2> QED BY <2>1, <2>2, IdleTyped, MoveKeeps
<1>6. CASE ~(reason = "cooldown" \/ TooLong(c, n, wait))
  <2>1. Move(c, r)
    BY <1>3, <1>6
  <2>2. r \in RequestType /\ r.wake = clock + wait /\ r.deadline = request[c].deadline
        /\ r.started = request[c].started
    BY <1>1, <1>2 DEF RequestType
  <2>3. n + wait <= request[c].deadline
    BY <1>1, <1>2, <1>4, <1>6
  <2> HIDE DEF r
  <2>4. CloseDeadline(r)
    BY <1>2, <2>2 DEF CloseDeadline
  <2>5. request'[c] = r /\ \A d \in Caller \ {c} : request'[d] = request[d]
    BY <1>2, <2>1 DEF Move
  <2>6. clock < r.wake /\ r.wake <= request[c].started + MaxInline + Slack + 2 * Skew
    BY <1>1, <1>2, <2>2, <2>3
  <2> QED BY <2>1, <2>2, <2>4, <2>5, <2>6, MoveKeeps
<1> QED BY <1>5, <1>6

-----------------------------------------------------------------------------
(* The invariant                                                           *)

(* The types of what no history is kept of. *)
Plain ==
  /\ clock \in Nat /\ cooldown \in Nat
  /\ pressure \in [until : Nat, expires : Nat]
  /\ observed \in [Process -> [short : ShortLimits, long : LongLimits]]
  /\ published \subseteq [at : Nat, until : Nat] /\ faults \in Nat

Requests == request \in [Caller -> RequestType] /\ DeadlinesAreClose

(* The invariant in three parts. *)
LEMMA Parts == IInv <=> Granting /\ Plain /\ Requests
BY DEF IInv, TypeOK, Granting, Plain, Requests

(* The initial states satisfy the inductive invariant. *)
LEMMA InitIInv == Init => IInv
<1> SUFFICES ASSUME Init PROVE IInv
  OBVIOUS
<1>1. granted = {} /\ Enrichments = {}
  BY DEF Init, Enrichments
<1>2. Granting
  BY <1>1, FS_EmptySet
     DEF Init, Granting, ReadingsAreClose, NothingRecentHasLeft, RecentAreKept, PublishedIsCovered,
         ShortWindowHolds, LongWindowHolds, ProductReserveKept, EnrichmentShareKept, CooldownIsKept
<1>3. Plain
  BY BudgetAssumption DEF Init, Plain
<1>4. Requests
  BY BudgetAssumption, IdleTyped DEF Init, Requests, DeadlinesAreClose, CloseDeadline
<1> QED BY <1>2, <1>3, <1>4, Parts

(* A response may bring new limits and pressure. *)
LEMMA ObserveKeeps ==
  ASSUME IInv, NEW p \in Process, Observe(p)
  PROVE  /\ pressure' \in [until : Nat, expires : Nat]
         /\ observed' \in [Process -> [short : ShortLimits, long : LongLimits]]
<1>1. PICK s \in ShortLimits \union {observed[p].short}, l \in LongLimits \union {observed[p].long} :
        /\ observed' = [observed EXCEPT ![p] = [short |-> s, long |-> l]]
        /\ \/ UNCHANGED pressure
           \/ PressureFor(ShortWindow)
           \/ PressureFor(LongWindow)
  BY DEF Observe
<1>2. /\ observed \in [Process -> [short : ShortLimits, long : LongLimits]]
      /\ pressure \in [until : Nat, expires : Nat] /\ clock \in Nat
      /\ ShortWindow \in Nat /\ LongWindow \in Nat /\ PressureCap \in Nat
  BY BudgetAssumption DEF IInv, TypeOK
<1>3. s \in ShortLimits /\ l \in LongLimits
  BY <1>2
<1>4. ASSUME NEW w \in Nat, PressureFor(w) PROVE pressure' \in [until : Nat, expires : Nat]
  <2>1. Smaller(w, PressureCap) \in Nat
    BY <1>2 DEF Smaller
  <2> QED BY <1>2, <1>4, <2>1 DEF PressureFor, Readings
<1> QED BY <1>1, <1>2, <1>3, <1>4

(* Every action keeps the invariant. *)
LEMMA Inductive == IInv /\ [Next]_vars => IInv'
<1> SUFFICES ASSUME IInv, [Next]_vars PROVE IInv'
  OBVIOUS
<1> USE DEF Plain, Requests
<1>p. Granting' /\ Plain' /\ Requests' => IInv'
  BY DEF IInv, TypeOK, Granting
<1>0. Granting /\ Plain /\ Requests /\ Home \in [Caller -> Process]
  BY Parts, BudgetAssumption
<1>i. ASSUME NEW c \in Caller, Move(c, Idle) PROVE Requests'
  BY <1>i, IdleTyped, MoveKeeps
<1>1. ASSUME NEW c \in Caller, Begin(c) PROVE IInv'
  <2>1. PICK w \in Workload : Gate(c, w, 0)
    BY <1>1 DEF Begin
  <2>2. Requests'
    BY <2>1, GateKeeps, BudgetAssumption
  <2>3. Granting' /\ Plain'
    BY <1>0, <1>1, UntouchedKeeps DEF Begin, redis
  <2> QED BY <2>2, <2>3, <1>p
<1>2. ASSUME NEW c \in Caller, Reserve(c) PROVE IInv'
  <2>1. PICK n \in Readings :
          /\ Script(c, n, Reason(c, n))
          /\ IF Reason(c, n) = "admitted" THEN Move(c, Sending(c))
             ELSE Refused(c, n, Reason(c, n))
    BY <1>2 DEF Reserve
  <2>2. Granting' /\ Plain'
    BY <1>0, <1>2, <2>1, ScriptKeeps DEF Reserve
  <2>3. Requests'
    <3>1. CASE Reason(c, n) = "admitted"
      <4>1. request[c] \in RequestType
        BY <1>0
      <4>2. Sending(c) \in RequestType /\ CloseDeadline(Sending(c))
        BY <4>1, BudgetAssumption DEF Sending, Idle, RequestType, Pc, CloseDeadline
      <4> QED BY <2>1, <3>1, <4>2, MoveKeeps
    <3>2. CASE Reason(c, n) # "admitted"
      BY <1>2, <2>1, <3>2, RefusedKeeps DEF Reserve, Awake
    <3> QED BY <3>1, <3>2
  <2> QED BY <2>2, <2>3, <1>p
<1>3. ASSUME NEW c \in Caller, ReserveUnanswered(c) PROVE IInv'
  <2>1. PICK n \in Readings : Script(c, n, Reason(c, n)) /\ Refused(c, n, "redis_error")
    BY <1>3 DEF ReserveUnanswered
  <2>2. Granting' /\ Plain'
    BY <1>0, <1>3, <2>1, ScriptKeeps DEF ReserveUnanswered, Fault
  <2>3. Requests'
    BY <1>3, <2>1, RefusedKeeps DEF ReserveUnanswered, Awake
  <2> QED BY <2>2, <2>3, <1>p
<1>4. ASSUME NEW c \in Caller, ReserveFails(c) PROVE IInv'
  <2>1. Granting' /\ Plain'
    BY <1>0, <1>4, UntouchedKeeps DEF ReserveFails, Fault, redis
  <2>2. Requests'
    BY <1>4, RefusedKeeps DEF ReserveFails, Awake
  <2> QED BY <2>1, <2>2, <1>p
<1>5. ASSUME NEW c \in Caller, TransportError(c) PROVE IInv'
  <2>1. Granting' /\ Plain'
    BY <1>0, <1>5, UntouchedKeeps DEF TransportError, Fault, redis
  <2>2. Requests'
    BY <1>5, <1>i, RetryKeeps DEF TransportError
  <2> QED BY <2>1, <2>2, <1>p
<1>6. ASSUME NEW c \in Caller, QuietSuccess(c) PROVE IInv'
  <2>1. Granting' /\ Plain'
    BY <1>0, <1>6, UntouchedKeeps DEF QuietSuccess, redis
  <2> QED BY <1>6, <1>i, <2>1, <1>p DEF QuietSuccess
<1>7. ASSUME NEW c \in Caller, Response(c) PROVE IInv'
  <2>1. Granting'
    BY <1>0, <1>7, UntouchedKeeps DEF Response
  <2>2. Plain'
    BY <1>0, <1>7, ObserveKeeps DEF Response, Fault
  <2>3. Requests'
    <3> DEFINE r == [request[c] EXCEPT !.pc = "limited"]
    <3>1. CASE Move(c, r)
      <4>1. r \in RequestType /\ CloseDeadline(r)
        BY <1>0 DEF RequestType, Pc, CloseDeadline
      <4> QED BY <3>1, <4>1, MoveKeeps
    <3> QED BY <1>7, <1>i, <3>1, RetryKeeps DEF Response
  <2> QED BY <2>1, <2>2, <2>3, <1>p
<1>8. ASSUME NEW c \in Caller, PublishCooldown(c) PROVE IInv'
  <2>1. Granting' /\ Plain'
    BY <1>0, <1>8, PublishingKeeps DEF PublishCooldown
  <2>2. Move(c, Idle)
    BY <1>8 DEF PublishCooldown
  <2> QED BY <1>i, <2>1, <2>2, <1>p
<1>9. ASSUME NEW c \in Caller, PublishFails(c) PROVE IInv'
  <2>1. Granting' /\ Plain'
    BY <1>0, <1>9, UntouchedKeeps DEF PublishFails, redis
  <2> QED BY <1>9, <1>i, <2>1, <1>p DEF PublishFails
<1>10. CASE Tick
  <2>1. Granting' /\ Plain'
    BY <1>0, <1>10, TickKeeps DEF Tick
  <2>2. Requests'
    BY <1>0, <1>10 DEF Tick, DeadlinesAreClose
  <2> QED BY <2>1, <2>2, <1>p
<1>11. CASE UNCHANGED vars
  <2>1. Granting'
    BY <1>0, <1>11, UntouchedKeeps DEF vars, redis
  <2>2. Plain' /\ Requests'
    BY <1>0, <1>11 DEF vars, redis, DeadlinesAreClose
  <2> QED BY <2>1, <2>2, <1>p
<1> QED BY <1>1, <1>2, <1>3, <1>4, <1>5, <1>6, <1>7, <1>8, <1>9, <1>10, <1>11 DEF Next

(* In every reachable state, for any processes, callers, limits and skew, the
   inductive invariant holds. *)
THEOREM Invariant == Spec => []IInv
BY InitIInv, Inductive, PTL DEF Spec

(* The budget's state is always of its types, and nothing is in a set of Redis
   that was not granted. *)
THEOREM TypeCorrect == Spec => []TypeOK
<1>1. IInv => TypeOK
  BY DEF IInv
<1> QED BY <1>1, Invariant, PTL

(* The short window of the Riot API is not exceeded, whatever the processes, the
   readings of their clocks and the losses of replies. *)
THEOREM WindowHolds == Spec => []ShortWindowHolds
<1>1. IInv => ShortWindowHolds
  BY DEF IInv
<1> QED BY <1>1, Invariant, PTL

(* The long window, the product's reserve and enrichment's share are kept. *)
THEOREM LimitsHold == Spec => []LimitsAreKept
<1>1. IInv => LimitsAreKept
  BY DEF IInv, LimitsAreKept
<1> QED BY <1>1, Invariant, PTL

(* No request is let through during a published cooldown. *)
THEOREM CooldownWins == Spec => []CooldownIsKept
<1>1. IInv => CooldownIsKept
  BY DEF IInv
<1> QED BY <1>1, Invariant, PTL

(* Every wait makes time pass and ends within the inline limit, so that the
   loop of acquireOrDefer ends. *)
THEOREM WaitsEnd == Spec => WaitsAreBounded
<1>1. ASSUME IInv, [Next]_vars, NEW d \in Caller PROVE WaitIsBounded(d)
  <2>1. request \in [Caller -> RequestType]
    BY <1>1 DEF IInv, TypeOK
  <2>2. CASE request' = request
    BY <2>2 DEF WaitIsBounded
  <2>3. ASSUME NEW c \in Caller, NEW r, Move(c, r), r.pc # "reserving" \/ request[c].pc # "reserving"
        PROVE  WaitIsBounded(d)
    <3>1. request'[c] = r /\ \A x \in Caller \ {c} : request'[x] = request[x]
      BY <2>1, <2>3 DEF Move
    <3> QED BY <2>3, <3>1 DEF WaitIsBounded
  <2>4. ASSUME NEW c \in Caller, Move(c, Idle) PROVE WaitIsBounded(d)
    <3>1. Idle.pc # "reserving"
      BY DEF Idle
    <3> QED BY <2>3, <2>4, <3>1
  <2>5. ASSUME NEW c \in Caller, NEW w, NEW k, Gate(c, w, k), request[c].pc # "reserving"
        PROVE  WaitIsBounded(d)
    BY <2>3, <2>5 DEF Gate
  <2>6. ASSUME NEW c \in Caller, Retry(c), request[c].pc # "reserving" PROVE WaitIsBounded(d)
    BY <2>4, <2>5, <2>6 DEF Retry
  <2>7. ASSUME NEW c \in Caller, request[c].pc = "reserving", NEW n \in Readings, NEW reason,
               reason = "redis_error" \/ (reason = Reason(c, n) /\ reason # "admitted"),
               Refused(c, n, reason)
        PROVE  WaitIsBounded(d)
    <3>1. /\ request'[c].pc = "reserving" =>
               /\ clock < request'[c].wake
               /\ request'[c].wake <= request[c].started + MaxInline + Slack + 2 * Skew
          /\ \A x \in Caller \ {c} : request'[x] = request[x]
      BY <1>1, <2>7, RefusedKeeps
    <3> QED BY <3>1 DEF WaitIsBounded
  <2>8. ASSUME NEW c \in Caller, Reserve(c) PROVE WaitIsBounded(d)
    <3>1. PICK n \in Readings :
            IF Reason(c, n) = "admitted" THEN Move(c, Sending(c))
            ELSE Refused(c, n, Reason(c, n))
      BY <2>8 DEF Reserve
    <3>2. request[c].pc = "reserving"
      BY <2>8 DEF Reserve, Awake
    <3>3. Sending(c).pc = "sending"
      BY DEF Sending, Idle
    <3> QED BY <2>3, <2>7, <3>1, <3>2, <3>3
  <2>9. ASSUME NEW c \in Caller, ReserveUnanswered(c) \/ ReserveFails(c) PROVE WaitIsBounded(d)
    <3>1. PICK n \in Readings : Refused(c, n, "redis_error")
      BY <2>9 DEF ReserveUnanswered, ReserveFails
    <3>2. request[c].pc = "reserving"
      BY <2>9 DEF ReserveUnanswered, ReserveFails, Awake
    <3> QED BY <2>7, <3>1, <3>2
  <2>10. ASSUME NEW c \in Caller, Begin(c) PROVE WaitIsBounded(d)
    BY <2>5, <2>10 DEF Begin
  <2>11. ASSUME NEW c \in Caller, Response(c) PROVE WaitIsBounded(d)
    <3> DEFINE r == [request[c] EXCEPT !.pc = "limited"]
    <3>1. request[c].pc = "sending" /\ (Move(c, Idle) \/ Retry(c) \/ Move(c, r))
      BY <2>11 DEF Response
    <3> HIDE DEF r
    <3> QED BY <2>3, <2>4, <2>6, <3>1
  <2>12. ASSUME NEW c \in Caller,
                TransportError(c) \/ QuietSuccess(c) \/ PublishCooldown(c) \/ PublishFails(c)
         PROVE  WaitIsBounded(d)
    <3>1. Move(c, Idle) \/ (Retry(c) /\ request[c].pc # "reserving")
      BY <2>12 DEF TransportError, QuietSuccess, PublishCooldown, PublishFails
    <3> QED BY <2>4, <2>6, <3>1
  <2> QED BY <1>1, <2>2, <2>8, <2>9, <2>10, <2>11, <2>12 DEF Next, Tick, vars
<1>2. IInv /\ [Next]_vars => [\A c \in Caller : WaitIsBounded(c)]_vars
  BY <1>1
<1> QED BY <1>2, Invariant, PTL DEF Spec, WaitsAreBounded, WaitIsBounded

(* The wait the short window asks for is exactly the time until it has room:
   not a unit less. *)
THEOREM WaitsAreExact == Spec => []WaitIsExact
<1>1. IInv => WaitIsExact
  <2> SUFFICES ASSUME IInv, NEW c \in Caller, NEW n \in Readings,
                      Reason(c, n) = "short_window",
                      Cardinality(ShortFresh(n)) = Effective(observed[Home[c]].short)
               PROVE  LET limit == Effective(observed[Home[c]].short)
                          then == n + Wait("short_window", n)
                      IN  /\ Cardinality(ShortFresh(then)) < limit
                          /\ Cardinality(ShortFresh(then - 1)) = limit
    BY Zenon DEF WaitIsExact
  <2> DEFINE S == ShortFresh(n)
             m == Min({e.score : e \in S})
  <2>1. TypeOK /\ n \in Nat /\ ShortWindow \in Nat
    BY BudgetAssumption DEF IInv, Readings
  <2>2. IsFiniteSet(S) /\ Cardinality(S) \in Nat /\ S \in SUBSET short
    BY <2>1, SetsAreFinite DEF ShortFresh, Fresh
  <2>3. S # {}
    <3>1. observed[Home[c]].short \in Nat
      BY <2>1, LimitsInUse
    <3>2. Effective(observed[Home[c]].short) \in Nat \ {0}
      BY <3>1, LimitsArePositive
    <3>3. Cardinality(S) # 0
      BY <3>2
    <3> HIDE DEF S
    <3> QED BY <3>3, FS_EmptySet
  <2>4. \A e \in short : e.score \in Nat
    BY <2>1 DEF TypeOK, Entry
  <2>5. m \in {e.score : e \in S} /\ \A k \in {e.score : e \in S} : m <= k
    <3>1. {e.score : e \in S} \in SUBSET Nat /\ {e.score : e \in S} # {}
      BY <2>2, <2>3, <2>4
    <3> QED BY <3>1, LeastNatural
  <2>6. PICK oldest \in S : oldest.score = m
    BY <2>5
  <2>7. m \in Nat /\ m > n - ShortWindow /\ \A e \in S : m <= e.score
    BY <2>2, <2>4, <2>5, <2>6 DEF ShortFresh, Fresh
  <2>8. Wait("short_window", n) = Atleast1(m + ShortWindow - n)
    BY DEF Wait, UntilOldestLeaves
  <2> HIDE DEF m
  <2>9. n + Wait("short_window", n) = m + ShortWindow
    BY <2>1, <2>7, <2>8 DEF Atleast1
  <2>10. ShortFresh(m + ShortWindow) \subseteq S \ {oldest}
    BY <2>1, <2>4, <2>6, <2>7 DEF ShortFresh, Fresh
  <2>11. ShortFresh((m + ShortWindow) - 1) = S
    BY <2>1, <2>4, <2>7 DEF ShortFresh, Fresh
  <2>12. Cardinality(ShortFresh(m + ShortWindow)) < Cardinality(S)
    <3> HIDE DEF S
    <3>1. IsFiniteSet(S \ {oldest}) /\ Cardinality(S \ {oldest}) = Cardinality(S) - 1
      BY <2>2, <2>6, FS_RemoveElement
    <3>2. Cardinality(ShortFresh(m + ShortWindow)) <= Cardinality(S \ {oldest})
      BY <2>10, <3>1, FS_Subset
    <3>3. Cardinality(ShortFresh(m + ShortWindow)) \in Nat
      BY <2>1, SetsAreFinite
    <3> QED BY <2>2, <3>1, <3>2, <3>3
  <2>13. Cardinality(S) = Effective(observed[Home[c]].short)
    OBVIOUS
  <2>14. Cardinality(ShortFresh(n + Wait("short_window", n)))
           < Effective(observed[Home[c]].short)
    <3> HIDE DEF S
    <3> QED BY <2>9, <2>12, <2>13, Zenon
  <2>15. (n + Wait("short_window", n)) - 1 = (m + ShortWindow) - 1
    BY <2>9, Zenon
  <2>16. ShortFresh((n + Wait("short_window", n)) - 1) = ShortFresh(n)
    BY <2>11, <2>15, Zenon
  <2> QED BY <2>14, <2>16, Zenon
<1> QED BY <1>1, Invariant, PTL


=============================================================================
