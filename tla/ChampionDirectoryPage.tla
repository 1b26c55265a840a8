------------------------ MODULE ChampionDirectoryPage ------------------------
(***************************************************************************)
(* The champion directory of the web client: its filters, which patches    *)
(* change one after the other, the ranking of a position and the list of   *)
(* champions.  A patch is assigned and written to the URL before the next  *)
(* one starts; the loads it causes overlap, and the server answers them in *)
(* any order.  `agg` stands for platform, queue, tier and patch, `text`    *)
(* for search and tag.                                                     *)
(***************************************************************************)
EXTENDS Sequences, Naturals

CONSTANTS Aggs, DefaultAgg, Positions, Texts, None,
          MaxPatches  \* bound: what the user does

ConstantsAssumption == DefaultAgg \in Aggs

VARIABLES filters,    \* the filters of the controller, or None
          url,        \* the filters of the URL
          ready,      \* filtersReady
          tail,       \* the patches that have not been written to the URL; the first is under way
          syncing,    \* the first patch is assigned, its URL is being written
          ranking,    \* viewState and the state of its load
          directory,
          requests,   \* the loads that are not answered
          patches

vars == <<filters, url, ready, tail, syncing, ranking, directory, requests, patches>>

Filters == [agg : Aggs, position : Positions \cup {None}, text : Texts \cup {None}]
Rankable(f) == f.position # None

\* A response, by what it was asked for.
TableOf(f) == [agg |-> f.agg, position |-> f.position]

Init ==
  /\ filters = None /\ url \in Filters /\ ready = FALSE
  /\ tail = <<>> /\ syncing = FALSE
  /\ ranking = [shown |-> None, wanted |-> None, updating |-> FALSE, pending |-> FALSE,
                error |-> FALSE, id |-> 0]
  /\ directory = [shown |-> None, pending |-> FALSE, error |-> FALSE, id |-> 0]
  /\ requests = {} /\ patches = 0

-----------------------------------------------------------------------------
(* The loads.                                                              *)

DirectoryAsked(f) ==
  [directory EXCEPT !.pending = TRUE, !.error = FALSE, !.id = @ + 1]
DirectoryRequest(f) == [of |-> "directory", id |-> directory.id + 1, asked |-> f.text]

RankingAsked(f) ==
  [ranking EXCEPT !.id = @ + 1, !.pending = TRUE, !.error = FALSE,
                  !.wanted = TableOf(f), !.updating = ranking.shown # None]
RankingRequest(f) == [of |-> "ranking", id |-> ranking.id + 1, asked |-> TableOf(f)]

\* Without a position nothing is ranked, and an answer under way is dropped.
RankingCleared ==
  [ranking EXCEPT !.id = @ + 1, !.pending = FALSE, !.error = FALSE,
                  !.wanted = None, !.updating = FALSE, !.shown = None]

\* Mistake: no look at the request id.
AnyRanking(r) == TRUE
RankingLatest(r) == r.id = ranking.id

RankingArrives(r) ==
  /\ r \in requests /\ r.of = "ranking"
  /\ requests' = requests \ {r}
  /\ \E answered \in BOOLEAN :
       ranking' =
         IF ~RankingLatest(r) THEN ranking
         ELSE [ranking EXCEPT !.shown = IF answered THEN r.asked ELSE @, !.error = ~answered,
                              !.wanted = None, !.updating = FALSE, !.pending = FALSE]
  /\ UNCHANGED <<filters, url, ready, tail, syncing, directory, patches>>

DirectoryArrives(r) ==
  /\ r \in requests /\ r.of = "directory"
  /\ requests' = requests \ {r}
  /\ \E answered \in BOOLEAN :
       directory' =
         IF r.id # directory.id THEN directory
         ELSE [directory EXCEPT !.shown = IF answered THEN [text |-> r.asked] ELSE @,
                                !.error = ~answered, !.pending = FALSE]
  /\ UNCHANGED <<filters, url, ready, tail, syncing, ranking, patches>>

-----------------------------------------------------------------------------
(* initialize: the filters of the URL; a queue without roles is replaced   *)
(* by the default one.                                                     *)

Initialize ==
  /\ ~ready /\ filters = None
  /\ \E supported \in BOOLEAN :
       LET f == IF supported THEN url ELSE [url EXCEPT !.agg = DefaultAgg, !.position = None] IN
       /\ filters' = f /\ url' = f
       /\ directory' = DirectoryAsked(f)
       /\ IF Rankable(f)
          THEN /\ ranking' = RankingAsked(f)
               /\ requests' = {DirectoryRequest(f), RankingRequest(f)}
          ELSE UNCHANGED ranking /\ requests' = {DirectoryRequest(f)}
  /\ ready' = TRUE
  /\ UNCHANGED <<tail, syncing, patches>>

(* applyFilterPatch.                                                       *)

Patches ==
  [agg : Aggs] \cup [position : Positions \cup {None}] \cup [text : Texts \cup {None}]
    \cup {[agg |-> DefaultAgg, position |-> None]}

Ask(p) ==
  /\ patches < MaxPatches /\ patches' = patches + 1
  /\ ready
  /\ tail' = Append(tail, p)
  /\ UNCHANGED <<filters, url, ready, syncing, ranking, directory, requests>>

Patched(f, p) == [field \in DOMAIN f |-> IF field \in DOMAIN p THEN p[field] ELSE f[field]]
Directory(p) == "text" \in DOMAIN p

Assign ==
  /\ tail # <<>> /\ ~syncing
  /\ LET next == Patched(filters, Head(tail)) IN
       IF next = filters
       THEN tail' = Tail(tail) /\ UNCHANGED <<filters, syncing, ranking>>
       ELSE /\ filters' = next /\ syncing' = TRUE
            /\ ranking' = IF ~Directory(Head(tail)) /\ Rankable(next) /\ ranking.shown # None
                          THEN [ranking EXCEPT !.wanted = TableOf(next), !.updating = TRUE]
                          ELSE ranking
            /\ UNCHANGED tail
  /\ UNCHANGED <<url, ready, directory, requests, patches>>

\* The URL is written: the next patch may start, and this one's load does.
Synced ==
  /\ syncing
  /\ syncing' = FALSE /\ tail' = Tail(tail)
  /\ url' = filters
  /\ IF Directory(Head(tail))
     THEN /\ directory' = DirectoryAsked(filters)
          /\ requests' = requests \cup {DirectoryRequest(filters)}
          /\ UNCHANGED ranking
     ELSE /\ UNCHANGED directory
          /\ IF Rankable(filters)
             THEN /\ ranking' = RankingAsked(filters)
                  /\ requests' = requests \cup {RankingRequest(filters)}
             ELSE ranking' = RankingCleared /\ UNCHANGED requests
  /\ UNCHANGED <<filters, ready, patches>>

Next ==
  \/ Initialize \/ Assign \/ Synced
  \/ \E p \in Patches : Ask(p)
  \/ \E r \in requests : RankingArrives(r) \/ DirectoryArrives(r)

Spec == Init /\ [][Next]_vars

-----------------------------------------------------------------------------
TypeOK ==
  /\ filters \in Filters \cup {None} /\ url \in Filters
  /\ ready \in BOOLEAN /\ syncing \in BOOLEAN
  /\ syncing => tail # <<>>

(* A directory that has settled shows one thing: when no patch and no load *)
(* is under way, in whatever order the patches came and the answers        *)
(* arrived, the URL holds the filters, nothing is loading or updating, and *)
(* the ranking and the list are those of the filters, unless the page says *)
(* that the last load failed.  Without a position there is no ranking.     *)
SettledDirectoryIsConsistent ==
  (ready /\ tail = <<>> /\ requests = {}) =>
    /\ url = filters
    /\ ~ranking.pending /\ ~ranking.updating /\ ranking.wanted = None
    /\ ranking.error \/ ranking.shown = (IF Rankable(filters) THEN TableOf(filters) ELSE None)
    /\ ~Rankable(filters) => ranking.shown = None
    /\ ~directory.pending
    /\ directory.error \/ directory.shown = [text |-> filters.text]
=============================================================================
