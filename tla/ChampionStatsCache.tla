------------------------- MODULE ChampionStatsCache -------------------------
(***************************************************************************)
(* The read side of the champion statistics.  The API answers the filters, *)
(* table, champion, builds and matchups endpoints from pages kept in       *)
(* Redis.  The key of a page holds the generation of its scope, a counter  *)
(* the workers INCR after they have rewritten rows of that scope; a page   *)
(* of an older generation is never asked for again and expires.            *)
(*                                                                         *)
(* A request awaits five times: the patch, the generation, the page, the   *)
(* rows, and the generation once more before the SET.  Workers rewrite     *)
(* rows and bump generations in between, Redis calls fail one by one.      *)
(*                                                                         *)
(* One platform, queue, champion and position; sorting, paging and minimum *)
(* samples, which are part of every key, are left out.                     *)
(***************************************************************************)
EXTENDS Naturals, FiniteSets

CONSTANTS
    Client,        \* requests in flight
    Patch,         \* patches, as numbers: the greater the later
    Asked,         \* the queries clients make
    None,
    MaxWrites,     \* bound: rewrites of rows
    MaxRequests,   \* bound: requests asked
    MaxFaults      \* bound: failing Redis calls

ConstantsAssumption ==
    /\ Patch \subseteq Nat /\ IsFiniteSet(Patch)
    /\ None \notin Patch
    /\ MaxWrites \in Nat /\ MaxRequests \in Nat /\ MaxFaults \in Nat

VARIABLES
    data,          \* data[k][p]: rewrites of the rows of kind k and patch p; 0 is no row
    generation,    \* the counter in Redis, 0 when its key is absent
    bumped,        \* history: data[k][p] when the counter was last incremented
    owed,          \* scopes rewritten whose INCR has not been tried yet
    pages,         \* the cached pages, by key
    request,       \* the request of each client
    asked, rewrites, redisFaults

vars == <<data, generation, bumped, owed, pages, request, asked, rewrites, redisFaults>>

Kind == {"stats", "builds", "matchups"}
KindOf == [filters |-> "stats", table |-> "stats", champion |-> "stats",
           builds |-> "builds", matchups |-> "matchups"]

Rank == {"ALL", "GOLD", "UNKNOWN"}

(* The tier filter, and the rank scope that only the matchups endpoint     *)
(* takes next to it.                                                       *)
Query == {q \in [endpoint : DOMAIN KindOf, patch : Patch \cup {None},
                 tier : Rank, rankScope : {"GOLD", None}] :
            /\ q.endpoint = "filters" => q.patch = None /\ q.tier = "ALL"
            /\ q.endpoint # "matchups" => q.rankScope = None}

AskedAssumption == Asked \subseteq Query

RankScope(q) == IF q.rankScope # None THEN q.rankScope ELSE q.tier

(* Builds and matchups hide unknown ranks before they look at the cache.   *)
Hidden(q) == q.endpoint \in {"builds", "matchups"} /\ RankScope(q) = "UNKNOWN"

Idle == [step |-> "idle", query |-> None, patch |-> None, gen |-> 0, since |-> 0, page |-> None]

Page == [patch : Patch \cup {None}, rank : Rank, rows : 0..MaxWrites]
RequestType ==
    [step : {"idle", "generation", "lookup", "rows", "recheck", "store", "done"},
     query : Query \cup {None}, patch : Patch \cup {None}, gen : 0..MaxWrites,
     since : 0..MaxWrites, page : Page \cup {None}]

TypeOK ==
    /\ data \in [Kind -> [Patch -> 0..MaxWrites]]
    /\ generation \in [Kind -> [Patch -> 0..MaxWrites]]
    /\ bumped \in [Kind -> [Patch -> 0..MaxWrites]]
    /\ owed \subseteq Kind \X Patch
    /\ \A key \in DOMAIN pages : pages[key] \in Page
    /\ request \in [Client -> RequestType]
    /\ asked \in 0..MaxRequests /\ rewrites \in 0..MaxWrites
    /\ redisFaults \in 0..MaxFaults

Init ==
    /\ data = [k \in Kind |-> [p \in Patch |-> 0]]
    /\ generation = data /\ bumped = data
    /\ owed = {}
    /\ pages = [k \in {} |-> None]
    /\ request = [c \in Client |-> Idle]
    /\ asked = 0 /\ rewrites = 0 /\ redisFaults = 0

-----------------------------------------------------------------------------
(* Patches are those with champion rows, for every endpoint.               *)
ListedPatches == {p \in Patch : data["stats"][p] > 0}
LatestPatch == IF ListedPatches = {} THEN None
               ELSE CHOOSE p \in ListedPatches : \A o \in ListedPatches : o <= p

ResolvePatch(q) == IF q.patch # None THEN q.patch ELSE LatestPatch

StatsGeneration(p, count) == IF p = None THEN 0 ELSE count["stats"][p]
BuildGeneration(p, count) == count["builds"][p]
MatchupGeneration(p, count) == count["matchups"][p]
GenerationOf(q, p, count) ==
    CASE KindOf[q.endpoint] = "stats" -> StatsGeneration(p, count)
      [] KindOf[q.endpoint] = "builds" -> BuildGeneration(p, count)
      [] OTHER -> MatchupGeneration(p, count)

FiltersKey(p, gen) == <<"filters", gen, p>>
TableKey(q, p, gen) == <<"table", gen, p, q.tier>>
ChampionKey(q, p, gen) == <<"champion", gen, p, q.tier>>
BuildsKey(q, p, gen) == <<"builds", gen, p, RankScope(q)>>
MatchupsKey(q, p, gen) == <<"matchups", gen, p, RankScope(q)>>
PageKey(q, p, gen) ==
    CASE q.endpoint = "filters" -> FiltersKey(p, gen)
      [] q.endpoint = "table" -> TableKey(q, p, gen)
      [] q.endpoint = "champion" -> ChampionKey(q, p, gen)
      [] q.endpoint = "builds" -> BuildsKey(q, p, gen)
      [] OTHER -> MatchupsKey(q, p, gen)

(* The rows an endpoint reads, with the scope they were selected by.       *)
FiltersPage(p) == [patch |-> p, rank |-> "ALL", rows |-> StatsGeneration(p, data)]
TablePage(q, p) == [patch |-> p, rank |-> q.tier, rows |-> data["stats"][p]]
ChampionPage(q, p) == [patch |-> p, rank |-> q.tier, rows |-> data["stats"][p]]
BuildsPage(q, p) == [patch |-> p, rank |-> RankScope(q), rows |-> data["builds"][p]]
MatchupsPage(q, p) == [patch |-> p, rank |-> RankScope(q), rows |-> data["matchups"][p]]
PageOf(q, p) ==
    CASE q.endpoint = "filters" -> FiltersPage(p)
      [] q.endpoint = "table" -> TablePage(q, p)
      [] q.endpoint = "champion" -> ChampionPage(q, p)
      [] q.endpoint = "builds" -> BuildsPage(q, p)
      [] OTHER -> MatchupsPage(q, p)

EmptyPage(q, p) == [patch |-> p, rank |-> RankScope(q), rows |-> 0]

-----------------------------------------------------------------------------
(* Nothing but the request itself changes, and possibly a fault is spent.  *)
Works == UNCHANGED <<redisFaults>>
Fails == redisFaults < MaxFaults /\ redisFaults' = redisFaults + 1
OnlyRequest == UNCHANGED <<data, generation, bumped, owed, pages, asked, rewrites>>

Respond(c, page) == request' = [request EXCEPT ![c].step = "done", ![c].page = page]

Ask(c, q) ==
    LET patch == ResolvePatch(q)
        over == (patch = None /\ q.endpoint # "filters") \/ Hidden(q) IN
    /\ request[c].step \in {"idle", "done"}
    /\ asked < MaxRequests
    /\ asked' = asked + 1
    /\ request' = [request EXCEPT ![c] =
         [step |-> IF over THEN "done" ELSE "generation", query |-> q, patch |-> patch,
          gen |-> 0, since |-> 0, page |-> IF over THEN EmptyPage(q, patch) ELSE None]]
    /\ UNCHANGED <<data, generation, bumped, owed, pages, rewrites, redisFaults>>

(* A read that fails, or finds no counter, is generation 0.                *)
ReadGeneration(c) ==
    LET r == request[c] IN
    /\ r.step = "generation"
    /\ \/ /\ Works
          /\ request' = [request EXCEPT ![c].step = "lookup",
                           ![c].gen = GenerationOf(r.query, r.patch, generation),
                           ![c].since = GenerationOf(r.query, r.patch, bumped)]
       \/ /\ Fails
          /\ request' = [request EXCEPT ![c].step = "lookup"]
    /\ OnlyRequest

LookUp(c) ==
    LET r == request[c]
        key == PageKey(r.query, r.patch, r.gen) IN
    /\ r.step = "lookup"
    /\ \/ key \in DOMAIN pages /\ Works /\ Respond(c, pages[key])
       \/ key \notin DOMAIN pages /\ Works /\ request' = [request EXCEPT ![c].step = "rows"]
       \/ Fails /\ request' = [request EXCEPT ![c].step = "rows"]
    /\ OnlyRequest

ReadRows(c) ==
    /\ request[c].step = "rows"
    /\ request' = [request EXCEPT ![c].step = "recheck",
                     ![c].page = PageOf(request[c].query, request[c].patch)]
    /\ Works /\ OnlyRequest

(* Mutant: the page is stored under whatever generation is current.        *)
StoreAlways(r, current) == TRUE

(* The page is stored only when the generation it was computed under is    *)
(* still the current one.                                                  *)
MayStore(r, current) == current = r.gen

Recheck(c) ==
    LET r == request[c] IN
    /\ r.step = "recheck"
    /\ \E current \in {GenerationOf(r.query, r.patch, generation), 0} :
         /\ IF current = GenerationOf(r.query, r.patch, generation) THEN Works ELSE Fails
         /\ IF MayStore(r, current)
            THEN request' = [request EXCEPT ![c].step = "store", ![c].gen = current]
            ELSE Respond(c, r.page)
    /\ OnlyRequest

Store(c) ==
    LET r == request[c]
        key == PageKey(r.query, r.patch, r.gen) IN
    /\ r.step = "store"
    /\ Respond(c, r.page)
    /\ \/ Works /\ pages' = [k \in DOMAIN pages \cup {key} |-> IF k = key THEN r.page ELSE pages[k]]
       \/ Fails /\ UNCHANGED pages
    /\ UNCHANGED <<data, generation, bumped, owed, asked, rewrites>>

-----------------------------------------------------------------------------
(* The time to live of a page ends.                                        *)
Expire(key) ==
    /\ key \in DOMAIN pages
    /\ pages' = [k \in DOMAIN pages \ {key} |-> pages[k]]
    /\ UNCHANGED <<data, generation, bumped, owed, request, asked, rewrites, redisFaults>>

(* A worker commits new rows; the INCR comes after the commit.             *)
Rewrite(k, p) ==
    /\ rewrites < MaxWrites /\ rewrites' = rewrites + 1
    /\ data' = [data EXCEPT ![k][p] = @ + 1]
    /\ owed' = owed \cup {<<k, p>>}
    /\ UNCHANGED <<generation, bumped, pages, request, asked, redisFaults>>

(* A failing INCR is a warning in every writer; the pages of the old       *)
(* generation are then served until they expire.                           *)
Bump(k, p) ==
    /\ <<k, p>> \in owed
    /\ owed' = owed \ {<<k, p>>}
    /\ \/ /\ Works
          /\ generation' = [generation EXCEPT ![k][p] = @ + 1]
          /\ bumped' = [bumped EXCEPT ![k][p] = data[k][p]]
       \/ Fails /\ UNCHANGED <<generation, bumped>>
    /\ UNCHANGED <<data, pages, request, asked, rewrites>>

ClientStep(c) ==
    \/ \E q \in Asked : Ask(c, q)
    \/ ReadGeneration(c) \/ LookUp(c) \/ ReadRows(c) \/ Recheck(c) \/ Store(c)

Next ==
    \/ \E c \in Client : ClientStep(c)
    \/ \E key \in DOMAIN pages : Expire(key)
    \/ \E k \in Kind, p \in Patch : Rewrite(k, p) \/ Bump(k, p)

Spec == Init /\ [][Next]_vars

-----------------------------------------------------------------------------
(* A response concerns the patch and rank scope that were asked for and,   *)
(* unless the read of the generation failed, shows rows at least as new as *)
(* at the last successful INCR before the request read the generation:     *)
(* no interleaving of fills, rewrites and failures puts an older page      *)
(* under a newer generation.                                               *)
ResponsesAreCurrent ==
    \A c \in Client : request[c].step = "done" =>
        /\ request[c].page.patch = request[c].patch
        /\ request[c].page.rank = RankScope(request[c].query)
        /\ request[c].page.rows >= request[c].since

-----------------------------------------------------------------------------
(* The inductive invariant.                                                *)

\* A request that has an answer to find, under the patch it resolved.
OnTheWay(r) == r.step \in {"generation", "lookup", "rows", "recheck", "store"}
Scoped(q, p) == p \in Patch \/ q.endpoint = "filters"
SameScope(q, o) == KindOf[q.endpoint] = KindOf[o.endpoint]

\* Counters follow the rewrites: one INCR for each at most, and one that is
\* still owed has not been made.
CountersFollow ==
    \A k \in Kind, p \in Patch :
        /\ generation[k][p] + (IF <<k, p>> \in owed THEN 1 ELSE 0) <= data[k][p]
        /\ data[k][p] <= rewrites
        /\ bumped[k][p] <= data[k][p]
        /\ generation[k][p] = 0 => bumped[k][p] = 0

\* The generation of a request is one the counter has had, or 0, and the
\* request was promised no more than belongs to it.
PromiseFits(r) ==
    /\ r.query \in Query /\ Scoped(r.query, r.patch)
    /\ r.gen <= GenerationOf(r.query, r.patch, generation)
    /\ r.since <= GenerationOf(r.query, r.patch, bumped)
    /\ r.gen = GenerationOf(r.query, r.patch, generation)
         => r.since = GenerationOf(r.query, r.patch, bumped)
    /\ r.gen = 0 => r.since = 0

\* What a request holds, or was answered, is what was asked for.
AnswerFits(r) ==
    /\ r.page \in Page
    /\ r.page.patch = r.patch /\ r.page.rank = RankScope(r.query)
    /\ r.page.rows >= r.since

RequestsFit ==
    \A c \in Client :
        /\ OnTheWay(request[c]) => PromiseFits(request[c])
        /\ request[c].step \in {"recheck", "store", "done"} => AnswerFits(request[c])

\* A generation is one promise.
GenerationsPromise ==
    \A c, d \in Client :
        LET r == request[c]
            o == request[d] IN
        OnTheWay(r) /\ OnTheWay(o) /\ SameScope(r.query, o.query)
          /\ r.patch = o.patch /\ r.gen = o.gen => r.since = o.since

\* A page holds the rows its key asks for, as new as its generation promises to
\* the requests that have it and to those that are still to read it.
PageFits(q, p, g, page) ==
    /\ page.patch = p /\ page.rank = RankScope(q)
    /\ g <= GenerationOf(q, p, generation)
    /\ g = GenerationOf(q, p, generation) => page.rows >= GenerationOf(q, p, bumped)
    /\ \A c \in Client :
          OnTheWay(request[c]) /\ SameScope(request[c].query, q) /\ request[c].patch = p
            /\ request[c].gen = g => page.rows >= request[c].since

PagesFit ==
    \A q \in Query, p \in Patch \cup {None}, g \in 0..MaxWrites :
        Scoped(q, p) /\ PageKey(q, p, g) \in DOMAIN pages =>
            PageFits(q, p, g, pages[PageKey(q, p, g)])

IInv == TypeOK /\ CountersFollow /\ RequestsFit /\ GenerationsPromise /\ PagesFit

=============================================================================
