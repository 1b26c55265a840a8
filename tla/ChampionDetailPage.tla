------------------------- MODULE ChampionDetailPage -------------------------
(***************************************************************************)
(* The champion page of the web client: its controller (filters, champion, *)
(* statistics) and the panels of the page (builds, matchups, insights).    *)
(* Each load is a chain of awaits that others overtake: a chain is a call  *)
(* in `calls`, which the server or the router answers in any order.        *)
(* A filter stands for platform, queue, tier, position and patch; Placed   *)
(* are those with a position.                                              *)
(***************************************************************************)
EXTENDS Naturals

CONSTANTS Keys,       \* champion keys, as in the route
          Filters, Placed,
          None,
          MaxActions  \* bound: what the user does

ConstantsAssumption == None \notin Keys

VARIABLES route,      \* the champion of the URL
          url,        \* the filters of the URL
          filters,    \* the filters of the controller, or None
          ready,      \* filtersReady
          notFound,
          champion,   \* the champion shown, or None
          generation, statsId,
          stats,      \* statsResponse: [key, filters], or None
          statsPending,
          tab,
          panel,      \* of each panel: response, pending, and its latest request id
          navigation, \* the latest navigation of the router
          calls,      \* the awaits in progress
          actions

vars == <<route, url, filters, ready, notFound, champion, generation, statsId,
          stats, statsPending, tab, panel, navigation, calls, actions>>
headVars == <<route, filters, ready, notFound, champion, generation>>
statsVars == <<statsId, stats, statsPending>>

Tabs == {"overview", "builds", "matchups"}
Panels == {"builds", "matchups", "insights"}

Call(step, id, key, f) ==
  [step |-> step, generation |-> generation, id |-> id, key |-> key, filters |-> f]
Current(c) == c.generation = generation

Init ==
  /\ route \in Keys /\ url \in Filters
  /\ filters = None /\ ready = FALSE /\ notFound = FALSE /\ champion = None
  /\ generation = 0 /\ statsId = 0
  /\ stats = None /\ statsPending = FALSE
  /\ tab = "overview"
  /\ panel = [p \in Panels |-> [response |-> None, pending |-> FALSE, id |-> 0]]
  /\ navigation = 0
  /\ calls = {[step |-> "filters", generation |-> 0, id |-> 0, key |-> route, filters |-> None]}
  /\ actions = 0

-----------------------------------------------------------------------------
(* The panels.  Builds and matchups are loaded when their tab is open, the *)
(* insight always; all but with a champion and a position.                 *)

Wanted(p, f, ch, t) == ch # None /\ f \in Placed /\ (p = "insights" \/ t = p)

\* A panel whose request was overtaken keeps what came later.
Opened(p, key, f, clear) ==
  [response |-> IF clear THEN None ELSE panel[p].response, pending |-> TRUE,
   id |-> panel[p].id + 1]

\* The watcher of the filters and of the champion: responses are cleared,
\* the panels that are wanted are loaded, an insight that is not is dropped.
Watched(f, ch) ==
  [p \in Panels |->
     IF Wanted(p, f, ch, tab) THEN Opened(p, ch, f, p # "insights")
     ELSE IF p = "insights" THEN [response |-> None, pending |-> FALSE, id |-> panel[p].id + 1]
     ELSE [panel[p] EXCEPT !.response = None]]

PanelCalls(f, ch) ==
  {[step |-> p, generation |-> generation, id |-> panel[p].id + 1, key |-> ch, filters |-> f] :
     p \in {q \in Panels : Wanted(q, f, ch, tab)}}

\* The response of a request that is still the panel's latest.
PanelLatest(c) == c.id = panel[c.step].id

PanelArrives(c) ==
  /\ c \in calls /\ c.step \in Panels
  /\ calls' = calls \ {c}
  /\ \E response \in {None, [key |-> c.key, filters |-> c.filters]} :
       panel' = IF PanelLatest(c)
                THEN [panel EXCEPT ![c.step].response = response, ![c.step].pending = FALSE]
                ELSE panel
  /\ UNCHANGED <<headVars, statsVars, url, navigation, tab, actions>>

\* An insight that is not ready is shown as pending and asked for again, by a
\* request of the same id; its filters are those of that moment.
InsightPending(c) ==
  /\ c \in calls /\ c.step = "insights" /\ PanelLatest(c)
  /\ calls' = (calls \ {c}) \cup {[c EXCEPT !.key = champion, !.filters = filters]}
  /\ panel' = [panel EXCEPT !["insights"].response = [key |-> c.key, filters |-> c.filters]]
  /\ UNCHANGED <<headVars, statsVars, url, navigation, tab, actions>>

SelectTab(t) ==
  /\ actions < MaxActions /\ actions' = actions + 1
  /\ t # tab /\ champion # None
  /\ tab' = t
  /\ IF t \in Panels /\ Wanted(t, filters, champion, t)
     THEN /\ panel' = [panel EXCEPT ![t] = Opened(t, champion, filters, FALSE)]
          /\ calls' = calls \cup {Call(t, panel[t].id + 1, champion, filters)}
     ELSE UNCHANGED <<panel, calls>>
  /\ UNCHANGED <<headVars, statsVars, url, navigation>>

-----------------------------------------------------------------------------
(* The controller.                                                         *)

\* fetchStats, in the chain of the call c that led to it.
FetchStats(c) ==
  IF ready /\ ~notFound /\ champion # None
  THEN /\ statsId' = statsId + 1
       /\ stats' = None /\ statsPending' = TRUE
       /\ calls' = (calls \ {c}) \cup {Call("stats", statsId + 1, champion, filters)}
  ELSE /\ statsPending' = FALSE
       /\ calls' = calls \ {c}
       /\ UNCHANGED <<statsId, stats>>

\* initialize: the filters that the deployment offers, then those of the URL.
FiltersArrive(c) ==
  /\ c \in calls /\ c.step = "filters"
  /\ IF Current(c)
     THEN /\ filters' = url /\ ready' = TRUE
          /\ calls' = (calls \ {c}) \cup {Call("metadata", c.id, c.key, url)}
          /\ panel' = Watched(url, champion)
     ELSE calls' = calls \ {c} /\ UNCHANGED <<filters, ready, panel>>
  /\ UNCHANGED <<route, notFound, champion, generation, statsVars, url, navigation, tab, actions>>

\* A call of initialize fails: the page shows an error.
LoadFails(c) ==
  /\ c \in calls /\ c.step \in {"filters", "metadata"}
  /\ calls' = calls \ {c}
  /\ IF Current(c) /\ c.step = "filters" THEN ready' = FALSE ELSE UNCHANGED ready
  /\ UNCHANGED <<route, filters, notFound, champion, generation, statsVars, url, navigation, tab, panel, actions>>

MetadataArrives(c) ==
  /\ c \in calls /\ c.step = "metadata"
  /\ \E known \in BOOLEAN :
       IF ~Current(c)
       THEN calls' = calls \ {c} /\ UNCHANGED <<champion, notFound, navigation, panel>>
       ELSE IF known
       THEN /\ champion' = c.key
            /\ navigation' = navigation + 1
            /\ calls' = (calls \ {c}) \cup {Call("sync", navigation + 1, c.key, c.filters)}
                                     \cup PanelCalls(filters, c.key)
            /\ panel' = Watched(filters, c.key)
            /\ UNCHANGED notFound
       ELSE /\ notFound' = TRUE
            /\ calls' = calls \ {c}
            /\ UNCHANGED <<champion, navigation, panel>>
  /\ UNCHANGED <<route, filters, ready, generation, statsVars, url, tab, actions>>

\* The router replaces the URL; a navigation that a later one overtook settles
\* as well, and leaves the URL to the later one.
SyncDone(c) ==
  /\ c \in calls /\ c.step = "sync"
  /\ url' = IF c.id = navigation THEN c.filters ELSE url
  /\ IF Current(c)
     THEN FetchStats(c)
     ELSE calls' = calls \ {c} /\ UNCHANGED statsVars
  /\ UNCHANGED <<headVars, navigation, tab, panel, actions>>

\* Mistake: any answer to the present load is taken, an overtaken one too.
StatsCurrent(c) == Current(c)
StatsLatest(c) == Current(c) /\ c.id = statsId

StatsArrive(c) ==
  /\ c \in calls /\ c.step = "stats"
  /\ calls' = calls \ {c}
  /\ IF StatsLatest(c)
     THEN /\ statsPending' = FALSE
          /\ \E response \in {stats, [key |-> c.key, filters |-> c.filters]} : stats' = response
     ELSE UNCHANGED <<stats, statsPending>>
  /\ UNCHANGED <<headVars, statsId, url, navigation, tab, panel, actions>>

\* applyFilterPatch.  The controls are shown once the champion is known.
SetFilters(f) ==
  /\ actions < MaxActions /\ actions' = actions + 1
  /\ ready /\ ~notFound /\ champion # None /\ f # filters
  /\ filters' = f
  /\ stats' = None /\ statsPending' = TRUE
  /\ navigation' = navigation + 1
  /\ calls' = calls \cup {Call("sync", navigation + 1, champion, f)} \cup PanelCalls(f, champion)
  /\ panel' = Watched(f, champion)
  /\ UNCHANGED <<route, ready, notFound, champion, generation, statsId, url, tab>>

\* The route changes to another champion: reload.
Visit(key, f) ==
  /\ actions < MaxActions /\ actions' = actions + 1
  /\ key # route
  /\ route' = key /\ url' = f /\ navigation' = navigation + 1
  /\ generation' = generation + 1 /\ statsId' = statsId + 1
  /\ notFound' = FALSE /\ champion' = None /\ ready' = FALSE
  /\ stats' = None /\ statsPending' = FALSE
  /\ calls' = calls \cup {[step |-> "filters", generation |-> generation + 1, id |-> 0,
                           key |-> key, filters |-> None]}
  /\ panel' = Watched(filters, None)
  /\ UNCHANGED <<filters, tab>>

Next ==
  \/ \E c \in calls :
       \/ FiltersArrive(c) \/ MetadataArrives(c) \/ LoadFails(c) \/ SyncDone(c) \/ StatsArrive(c)
       \/ PanelArrives(c) \/ InsightPending(c)
  \/ \E t \in Tabs : SelectTab(t)
  \/ \E f \in Filters : SetFilters(f)
  \/ \E key \in Keys, f \in Filters : Visit(key, f)

Spec == Init /\ [][Next]_vars

-----------------------------------------------------------------------------
TypeOK ==
  /\ route \in Keys /\ url \in Filters /\ champion \in Keys \cup {None}
  /\ filters \in Filters \cup {None}
  /\ stats \in {None} \cup [key : Keys, filters : Filters]
  /\ \A p \in Panels :
       panel[p].response \in {None} \cup [key : Keys, filters : Filters]

(* A page that has settled shows one thing: whatever the order of the      *)
(* answers, when no call of the present load is under way the statistics,  *)
(* the open panel and the insight are those of the champion of the route   *)
(* and of the filters shown, which are also those of the URL, and nothing  *)
(* is left loading.                                                        *)
SettledPageIsConsistent ==
  LET shown == [key |-> route, filters |-> filters]
      quiet(steps) == \A c \in calls : ~(Current(c) /\ c.step \in steps) IN
  (ready /\ champion # None /\ quiet({"filters", "metadata", "sync"})) =>
    /\ url = filters
    /\ quiet({"stats"}) => ~statsPending /\ stats \in {None, shown}
    /\ \A p \in Panels :
         (Wanted(p, filters, champion, tab) /\ quiet({p})) =>
            ~panel[p].pending /\ panel[p].response \in {None, shown}
=============================================================================
