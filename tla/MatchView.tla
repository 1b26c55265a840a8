----------------------------- MODULE MatchView -----------------------------
(***************************************************************************)
(* What the match page shows of one match, from Riot's timeline to the     *)
(* rows of the page: the worker keeps an allowlist of events, the frames   *)
(* and some metrics of each participant; the API maps the stored rows to   *)
(* the public timeline with its kills, objectives and gold; the web client *)
(* lists them again under filters.  Times are minutes, gold stands for     *)
(* every statistic of a frame, names and icons are left out.               *)
(***************************************************************************)
EXTENDS Integers, Sequences, FiniteSets
LOCAL INSTANCE SequencesExt
LOCAL INSTANCE FiniteSetsExt

CONSTANTS Games,  \* [players, events, frames, standard]: what Riot answers
          None

VARIABLES game, product,  \* the input, and whether a participant is linked
          stored,         \* event and frame rows of the match
          metrics,        \* the timeline metrics of its participants
          page            \* the public timeline, as the page has it

vars == <<game, product, stored, metrics, page>>

Players(g) == DOMAIN g.players

-----------------------------------------------------------------------------
(* The worker: what is stored.                                             *)

ItemTypes == {"ITEM_PURCHASED", "ITEM_SOLD", "ITEM_UNDO", "ITEM_DESTROYED"}
BuildTypes == ItemTypes \cup {"SKILL_LEVEL_UP"}
PersistedTypes == BuildTypes \cup {"CHAMPION_KILL", "ELITE_MONSTER_KILL", "BUILDING_KILL"}

OfTypes(events, types) == LET in(e) == e.type \in types IN SelectSeq(events, in)

\* Every event of the allowlist with its index; only those of builds for a
\* match nobody is linked to.
PersistedEvents(g, eligible) ==
  LET kept == OfTypes(g.events, PersistedTypes)
      rows == [i \in DOMAIN kept |-> kept[i] @@ [index |-> i]] IN
  IF eligible THEN rows ELSE OfTypes(rows, BuildTypes)

\* One row for each frame and participant in it.
FrameRows(g, eligible) ==
  IF eligible
  THEN UNION {{[time |-> f.time, id |-> p, gold |-> f.gold[p]] : p \in DOMAIN f.gold} :
              f \in ToSet(g.frames)}
  ELSE {}

\* The latest frame at or before the minute.
FrameAt(g, minute) ==
  LET early == {f \in ToSet(g.frames) : f.time <= minute} IN
  IF early = {} THEN None ELSE CHOOSE f \in early : \A other \in early : other.time <= f.time

GoldAt(g, p, minute) ==
  LET f == FrameAt(g, minute) IN
  IF f = None THEN None ELSE IF p \in DOMAIN f.gold THEN f.gold[p] ELSE None

\* Mutant: the minute that ends a span is counted in it.
DeathsUpTo(g, p, from, to) ==
  Cardinality({i \in DOMAIN g.events :
                 /\ g.events[i].type = "CHAMPION_KILL" /\ g.events[i].victim = p
                 /\ g.events[i].time \in from .. to})
Deaths(g, p, from, to) ==
  Cardinality({i \in DOMAIN g.events :
                 /\ g.events[i].type = "CHAMPION_KILL" /\ g.events[i].victim = p
                 /\ g.events[i].time >= from /\ g.events[i].time < to})

\* The metrics are computed from the whole timeline, whatever is stored of it.
TimelineMetrics(g) ==
  [p \in Players(g) |->
     [goldAt10 |-> GoldAt(g, p, 10), goldAt15 |-> GoldAt(g, p, 15),
      deathsBefore10 |-> Deaths(g, p, 0, 10), deathsBetween10And20 |-> Deaths(g, p, 10, 20)]]

-----------------------------------------------------------------------------
(* The API: positions and order of the participants.                       *)

Positions == <<"TOP", "JUNGLE", "MIDDLE", "BOTTOM", "SUPPORT", "UNKNOWN">>
FromRiot == [TOP |-> "TOP", JUNGLE |-> "JUNGLE", MIDDLE |-> "MIDDLE", MID |-> "MIDDLE",
             BOTTOM |-> "BOTTOM", BOT |-> "BOTTOM", UTILITY |-> "SUPPORT"]

FromLane(player) ==
  CASE player.lane \in {"TOP", "JUNGLE", "MIDDLE", "MID"} -> FromRiot[player.lane]
    [] player.lane \in {"BOTTOM", "BOT"} /\ player.role = "DUO_CARRY" -> "BOTTOM"
    [] player.lane \in {"BOTTOM", "BOT"} /\ player.role = "DUO_SUPPORT" -> "SUPPORT"
    [] OTHER -> "UNKNOWN"

\* Team position, then individual position, then lane and role; none of them
\* means anything outside the standard queues.
Position(g, p) ==
  LET player == g.players[p] IN
  CASE ~g.standard -> "UNKNOWN"
    [] g.standard /\ player.team.position \in DOMAIN FromRiot -> FromRiot[player.team.position]
    [] g.standard /\ player.team.position \notin DOMAIN FromRiot
         /\ player.individual \in DOMAIN FromRiot -> FromRiot[player.individual]
    [] OTHER -> FromLane(player)

Rank(position) == CHOOSE i \in DOMAIN Positions : Positions[i] = position
TeamRank(team) == IF team = 100 THEN 0 ELSE IF team = 200 THEN 1 ELSE 2 + team

Members(g, team) ==
  LET before(p, q) == \/ Rank(Position(g, p)) < Rank(Position(g, q))
                      \/ Position(g, p) = Position(g, q) /\ p < q IN
  SetToSortSeq({p \in Players(g) : g.players[p].team.id = team}, before)

Teams(g) ==
  LET before(t, u) == TeamRank(t) < TeamRank(u) IN
  SetToSortSeq({g.players[p].team.id : p \in Players(g)}, before)

\* The participants in the order of their teams and positions.
Participants(g) ==
  FlattenSeq([i \in DOMAIN Teams(g) |-> Members(g, Teams(g)[i])])

-----------------------------------------------------------------------------
(* The API: the public timeline.                                           *)

Objective(e) ==
  CASE e.monster = "DRAGON" -> "dragon"
    [] e.monster = "BARON_NASHOR" -> "baron"
    [] e.monster = "RIFTHERALD" -> "riftHerald"
    [] e.building = "TOWER_BUILDING" -> "tower"
    [] e.building = "INHIBITOR_BUILDING" -> "inhibitor"
    [] OTHER -> None

InOrder(events) ==
  LET before(e, f) == e.time < f.time \/ (e.time = f.time /\ e.index < f.index) IN
  SortSeq(events, before)

\* Anybody who is not a participant of the match is the environment.
Killer(g, e) == IF e.killer \in Players(g) THEN e.killer ELSE None

\* Mutant: kills by the environment are not kills.
ChampionKills(g, events) ==
  LET counts(e) == e.victim \in Players(g) /\ Killer(g, e) # None
      kills == SelectSeq(OfTypes(events, {"CHAMPION_KILL"}), counts) IN
  [i \in DOMAIN kills |-> [time |-> kills[i].time, killer |-> Killer(g, kills[i]),
                           victim |-> kills[i].victim]]
Kills(g, events) ==
  LET known(e) == e.victim \in Players(g)
      kills == SelectSeq(OfTypes(events, {"CHAMPION_KILL"}), known) IN
  [i \in DOMAIN kills |-> [time |-> kills[i].time, killer |-> Killer(g, kills[i]),
                           victim |-> kills[i].victim]]

\* A building counts for the team of the champion that destroyed it, a
\* monster for the team Riot names.
PublicObjective(g, e) ==
  LET killer == Killer(g, e) building == e.type = "BUILDING_KILL" IN
  [time |-> e.time, type |-> Objective(e), killer |-> killer,
   owner |-> IF building THEN e.team ELSE None,
   for |-> IF ~building THEN e.team
           ELSE IF killer # None THEN g.players[killer].team.id ELSE None]

Objectives(g, events) ==
  LET shown(e) == Objective(e) # None
      kept == SelectSeq(OfTypes(events, {"ELITE_MONSTER_KILL", "BUILDING_KILL"}), shown) IN
  [i \in DOMAIN kept |-> PublicObjective(g, kept[i])]

\* What of the timeline is there, feature by feature.
Coverage(rows) ==
  LET some(types) == \E i \in DOMAIN rows.events : rows.events[i].type \in types IN
  [items |-> some(ItemTypes), skills |-> some({"SKILL_LEVEL_UP"}),
   kills |-> some({"CHAMPION_KILL"}),
   objectives |-> \E i \in DOMAIN rows.events : Objective(rows.events[i]) # None,
   frames |-> rows.frames # {}]

RowGold(rows, time, p) == (CHOOSE f \in rows.frames : f.time = time /\ f.id = p).gold
RowsAt(rows, time) == {f.id : f \in {f \in rows.frames : f.time = time}}

\* Only the moments at which everybody's gold is known.
CompleteTimes(g, rows) ==
  {time \in {f.time : f \in rows.frames} : Players(g) \subseteq RowsAt(rows, time)}

TeamGold(g, rows, team, time) ==
  MapThenSumSet(LAMBDA p : RowGold(rows, time, p), ToSet(Members(g, team)))

GoldSeries(g, rows) ==
  LET times == SetToSortSeq(CompleteTimes(g, rows), <) IN
  [times |-> times,
   players |-> [p \in Players(g) |-> [i \in DOMAIN times |-> RowGold(rows, times[i], p)]],
   difference |->
     IF {100, 200} \subseteq ToSet(Teams(g))
     THEN [i \in DOMAIN times |-> TeamGold(g, rows, 100, times[i]) - TeamGold(g, rows, 200, times[i])]
     ELSE None]

PublicTimeline(g, rows) ==
  LET events == InOrder(rows.events) IN
  [participants |-> Participants(g), events |-> events,
   kills |-> Kills(g, events), objectives |-> Objectives(g, events),
   coverage |-> Coverage(rows), gold |-> GoldSeries(g, rows)]

-----------------------------------------------------------------------------
(* The page: the event stream under its filters.                           *)

\* The first derived objective of a type at a time.
FirstObjective(p, time, type) ==
  LET is(o) == o.time = time /\ o.type = type IN p.objectives[SelectInSeq(p.objectives, is)]

\* Under "All" a kill is made of the public event, an objective is looked up
\* among the derived ones by its time and type.
StreamRow(p, e) ==
  CASE e.type = "CHAMPION_KILL" /\ e.victim > 0 ->
         [kind |-> "kill", row |-> [time |-> e.time, victim |-> e.victim,
                                    killer |-> IF e.killer > 0 THEN e.killer ELSE None]]
    [] e.type \in {"ELITE_MONSTER_KILL", "BUILDING_KILL"} /\ Objective(e) # None ->
         [kind |-> "objective",
          row |-> FirstObjective(p, e.time, Objective(e))]
    [] OTHER -> [kind |-> "text", row |-> e]

Stream(p, filter) ==
  CASE filter = "kills" -> [i \in DOMAIN p.kills |-> [kind |-> "kill", row |-> p.kills[i]]]
    [] filter = "objectives" ->
         [i \in DOMAIN p.objectives |-> [kind |-> "objective", row |-> p.objectives[i]]]
    [] OTHER -> LET events == CASE filter = "items" -> OfTypes(p.events, ItemTypes)
                                [] filter = "skills" -> OfTypes(p.events, {"SKILL_LEVEL_UP"})
                                [] OTHER -> p.events IN
                [i \in DOMAIN events |-> StreamRow(p, events[i])]

-----------------------------------------------------------------------------
Init ==
  /\ game \in Games /\ product \in BOOLEAN
  /\ stored = None /\ metrics = None /\ page = None

Ingest ==
  /\ stored = None
  /\ stored' = [events |-> PersistedEvents(game, product), frames |-> FrameRows(game, product)]
  /\ metrics' = TimelineMetrics(game)
  /\ UNCHANGED <<game, product, page>>

GetTimeline ==
  /\ stored # None /\ page = None
  /\ page' = PublicTimeline(game, stored)
  /\ UNCHANGED <<game, product, stored, metrics>>

Next == Ingest \/ GetTimeline

Spec == Init /\ [][Next]_vars

-----------------------------------------------------------------------------
CountOf(p, from, to) ==
  Cardinality({i \in DOMAIN page.kills : /\ page.kills[i].victim = p
                                         /\ page.kills[i].time \in from .. to - 1})

OfKind(rows, kind) == LET of(row) == row.kind = kind IN SelectSeq(rows, of)

\* The parts of a match page that are computed on different roads agree:
\* the deaths the worker counted in the raw timeline are the kills the API
\* derives from the stored rows, the gold at ten minutes is a point of the
\* gold series, the series is there exactly when its moments are complete,
\* every filter lists what "All" lists of its kind, and a feature is called
\* covered exactly when its list has rows.  Of several objectives of one type
\* at one time "All" shows the first again in place of each.
PagesAgree ==
  page # None =>
    /\ product => \A p \in Players(game) :
         /\ metrics[p].deathsBefore10 = CountOf(p, 0, 10)
         /\ metrics[p].deathsBetween10And20 = CountOf(p, 10, 20)
    /\ product => \A i \in DOMAIN page.gold.times, p \in Players(game) :
         page.gold.times[i] = 10 => page.gold.players[p][i] = metrics[p].goldAt10
    /\ page.gold.difference # None =>
         \A i \in DOMAIN page.gold.times :
           LET gold(team) == MapThenSumSet(LAMBDA p : page.gold.players[p][i],
                                           {p \in Players(game) : game.players[p].team.id = team}) IN
           page.gold.difference[i] = gold(100) - gold(200)
    /\ OfKind(Stream(page, "all"), "kill") = Stream(page, "kills")
    /\ LET all == OfKind(Stream(page, "all"), "objective")
           listed == Stream(page, "objectives")
           twin(i, j) == /\ listed[i].row.time = listed[j].row.time
                         /\ listed[i].row.type = listed[j].row.type IN
       /\ Len(all) = Len(listed)
       /\ \A i \in DOMAIN listed :
            all[i] = IF \E j \in 1 .. i - 1 : twin(i, j)
                     THEN listed[CHOOSE j \in 1 .. i - 1 :
                                   twin(i, j) /\ \A k \in 1 .. j - 1 : ~twin(i, k)]
                     ELSE listed[i]
    /\ \A feature \in {"items", "skills", "kills", "objectives"} :
         page.coverage[feature] <=> Stream(page, feature) # <<>>
    /\ ~product => page.kills = <<>> /\ page.objectives = <<>> /\ page.gold.times = <<>>
    /\ ToSet(page.participants) = Players(game)
=============================================================================
