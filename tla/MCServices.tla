----------------------------- MODULE MCServices -----------------------------
(***************************************************************************)
(* Small instances of the services: the games, answers, files, databases,  *)
(* environments and command lines they start from and are asked.           *)
(***************************************************************************)
EXTENDS Services, Sequences, TLC, RawValues

CONSTANTS w1, w2, g1, g2

Symmetry == Permutations({w1, w2})

(***************************************************************************)
(* Champion statistics: what clients ask for.                              *)
(***************************************************************************)
Ask(endpoint, patch, tier, scope) ==
    [endpoint |-> endpoint, patch |-> patch, tier |-> tier, rankScope |-> scope]
Queries == {Ask("filters", None, "ALL", None), Ask("table", None, "ALL", None),
            Ask("builds", 1, "UNKNOWN", None), Ask("matchups", 1, "ALL", "GOLD"),
            Ask("matchups", 1, "ALL", None)}

(***************************************************************************)
(* Rebuilds and matchups: what matches hold.                               *)
(***************************************************************************)
Contest(blue, red, rank) == [blue |-> blue, red |-> red, rank |-> rank]
Contests == {Contest("a", "b", "GOLD"), Contest("b", "b", "RESOLVED_UNRANKED")}

LanePlayer(id, team, champion, raw, win, rank) ==
    [id |-> id, team |-> team, champion |-> champion, raw |-> raw, individual |-> raw,
     lane |-> "NONE", role |-> "NONE", win |-> win, kills |-> id, rank |-> rank]
GoldFrames(gold) == {[at |-> 5, gold |-> [i \in DOMAIN gold |-> 0]], [at |-> 9, gold |-> gold],
                     [at |-> 12, gold |-> [i \in DOMAIN gold |-> 7]]}
LaneGame(queue, ended, frames, parts) ==
    [queue |-> queue, ended |-> ended, frames |-> frames, parts |-> parts]
LaneGames ==
    {LaneGame(420, 1, GoldFrames(<<5, 3, 2, 2>>),
              {LanePlayer(1, 100, 1, "TOP", TRUE, "GOLD"),
               LanePlayer(2, 200, 2, "TOP", FALSE, "SILVER"),
               LanePlayer(3, 100, 3, "JUNGLE", TRUE, "PENDING"),
               LanePlayer(4, 200, 1, "JUNGLE", FALSE, "GOLD")}),
     LaneGame(420, 2, {}, {LanePlayer(1, 100, 2, "TOP", TRUE, "SILVER"),
                           LanePlayer(2, 200, 1, "TOP", FALSE, "GOLD")}),
     LaneGame(420, 3, GoldFrames(<<4, 9, 1>>),
              {LanePlayer(1, 100, 1, "TOP", FALSE, "GOLD"),
               LanePlayer(2, 200, 2, "TOP", TRUE, "SILVER"),
               LanePlayer(3, 200, 3, "TOP", TRUE, "GOLD")}),
     LaneGame(420, None, GoldFrames(<<6, 1>>),
              {[LanePlayer(1, 100, 2, "NONE", TRUE, "UNKNOWN") EXCEPT !.individual = "UTILITY"],
               [LanePlayer(2, 200, 3, "NONE", FALSE, "GOLD")
                   EXCEPT !.lane = "BOTTOM", !.role = "DUO_SUPPORT"]}),
     LaneGame(450, 5, GoldFrames(<<6, 1>>), {LanePlayer(1, 100, 1, "TOP", TRUE, "GOLD"),
                                             LanePlayer(2, 200, 2, "TOP", FALSE, "GOLD")}),
     LaneGame(420, 6, GoldFrames(<<6, 1, 2>>),
              {LanePlayer(1, 100, 1, "TOP", TRUE, "GOLD"),
               LanePlayer(2, 200, 2, "TOP", FALSE, "GOLD"),
               LanePlayer(3, 200, 0, "TOP", FALSE, "GOLD")})}

(***************************************************************************)
(* Rank enrichment: the rows of one player, and how much a run may do.     *)
(***************************************************************************)
OneAccount == [row \in {1, 2} |-> g1]
RunBounds == {[participants |-> 1, calls |-> 1], [participants |-> 2, calls |-> 1]}
RankAnswers == {"RESOLVED_UNRANKED", "RATE_LIMITED", "UNAUTHORIZED"}

(***************************************************************************)
(* The match page: what Riot says of a game.                               *)
(***************************************************************************)
ViewedPlayer(team, position, individual) ==
    [team |-> [id |-> team, position |-> position], individual |-> individual,
     lane |-> "BOTTOM", role |-> "DUO_SUPPORT"]
ViewedPlayers == 1 :> ViewedPlayer(100, "UTILITY", "UTILITY") @@ 2 :> ViewedPlayer(100, "", "TOP")
                 @@ 6 :> ViewedPlayer(200, "JUNGLE", "JUNGLE")
                 @@ 7 :> ViewedPlayer(200, "", "Invalid")
Happening(type, time, killer, victim, team, monster, building) ==
    [type |-> type, time |-> time, killer |-> killer, victim |-> victim, team |-> team,
     monster |-> monster, building |-> building]
Happenings ==
    <<Happening("ITEM_PURCHASED", 3, 0, 0, 0, "", ""),
      Happening("CHAMPION_KILL", 5, 6, 1, 0, "", ""),
      Happening("ELITE_MONSTER_KILL", 8, 2, 0, 100, "HORDE", ""),
      Happening("CHAMPION_KILL", 10, 0, 1, 0, "", ""),
      Happening("SKILL_LEVEL_UP", 10, 0, 0, 0, "", ""),
      Happening("ELITE_MONSTER_KILL", 12, 1, 0, 100, "DRAGON", ""),
      Happening("BUILDING_KILL", 12, 0, 0, 200, "", "TOWER_BUILDING"),
      Happening("BUILDING_KILL", 12, 1, 0, 200, "", "TOWER_BUILDING"),
      Happening("CHAMPION_KILL", 20, 1, 7, 0, "", "")>>
ViewedGold(n) == [p \in DOMAIN ViewedPlayers |-> n + p]
ViewedFrames ==
    {<<>>, <<[time |-> 0, gold |-> ViewedGold(5)], [time |-> 10, gold |-> ViewedGold(30)],
             [time |-> 15, gold |-> ViewedGold(50)]>>,
     <<[time |-> 9, gold |-> ViewedGold(30)], [time |-> 10, gold |-> [p \in {1, 6} |-> 40 * p]]>>}
ViewedGame(kept, frames, standard) ==
    LET Kept(happening) == happening \in kept
    IN [players |-> ViewedPlayers, events |-> SelectSeq(Happenings, Kept), frames |-> frames,
        standard |-> standard]
ViewedGames ==
    {ViewedGame(kept, frames, TRUE) :
        kept \in SUBSET {Happenings[i] : i \in DOMAIN Happenings}, frames \in ViewedFrames}
    \cup {ViewedGame({}, <<>>, FALSE)}

(***************************************************************************)
(* Insights: what the statistics say of a champion, the last matches of a  *)
(* player.                                                                 *)
(***************************************************************************)
Build(band, low) == [band |-> band, lowSample |-> low]
Opponent(name, low) == [opponent |-> name, lowSample |-> low]
ChampionInput(performance, core, strong, weak, abilities) ==
    [performance |-> performance, core |-> core, runes |-> strong.runes,
     matchups |-> [STRONG |-> strong.rows, WEAK |-> weak], abilities |-> abilities]
Strong(runes, strong) == [runes |-> runes, rows |-> strong]
Shown == <<Build("BELOW_DISPLAY", FALSE), Build("EXPLORATORY", FALSE)>>
StatisticsAnswers ==
    {ChampionInput(performance, core, Strong(<<>>, rows), <<>>, <<"Ahri", "Zed">>) :
        performance \in {"NONE", "INSUFFICIENT", "SUFFICIENT"},
        core \in {Shown, Append(Shown, Build("CREDIBLE", FALSE))},
        rows \in {<<>>, <<Opponent("Zed", TRUE)>>, <<Opponent("Zed", FALSE)>>}}
    \cup {ChampionInput("INSUFFICIENT", <<Build("STRONG", TRUE)>>,
                        Strong(<<Build("STRONG", FALSE), Build("STRONG", FALSE)>>,
                               <<Opponent("Zed", TRUE)>>),
                        <<Opponent("Lux", FALSE)>>, <<"Zed", "Lux">>)}

Baseline(sufficient, measured) == [sufficient |-> sufficient, metrics |-> measured]
EveryMetric == {"CS", "DMG", "DIFF", "KDA"}
PlayedMatch(champion) ==
    [remake |-> FALSE, completed |-> TRUE, position |-> "TOP", usable |-> TRUE,
     champion |-> champion, ranked |-> TRUE, exact |-> Baseline(TRUE, EveryMetric), all |-> None,
     timeline |-> FALSE]
PlayedMatches ==
    {PlayedMatch("A"),
     [PlayedMatch("A") EXCEPT !.exact = Baseline(FALSE, EveryMetric),
                              !.all = Baseline(TRUE, {"KDA"}), !.timeline = TRUE],
     [PlayedMatch("A") EXCEPT !.ranked = FALSE, !.all = Baseline(FALSE, EveryMetric)],
     PlayedMatch("B"), [PlayedMatch("B") EXCEPT !.timeline = TRUE],
     [PlayedMatch("B") EXCEPT !.remake = TRUE], [PlayedMatch("B") EXCEPT !.completed = FALSE],
     [PlayedMatch("B") EXCEPT !.position = "UNKNOWN"]}
ManyMatches == [i \in 1 .. 8 |-> PlayedMatch(<<"A", "A", "B", "C", "D", "D", "C", "B">>[i])]
PlayedWindows == [1 .. 3 -> PlayedMatches] \cup {ManyMatches}

(***************************************************************************)
(* Environments an operator may deploy, command lines and the pressure a   *)
(* pacing loop may observe.                                                *)
(***************************************************************************)
TopTiers == {"CHALLENGER", "GRANDMASTER", "MASTER"}
Base == "defaultPlatform" :> Word("na1")
Dev(s) == s @@ Base

Deployments ==
    {Base, [k \in {} |-> Unset], Dev("defaultPlatform" :> Blank),
     \* cadence
     Dev("coldAfterZeroNewRuns" :> Num(2) @@ "maxConsecutiveZeroNewMatchRuns" :> Num(1)),
     Dev("coldAfterZeroNewRuns" :> Num(2) @@ "maxConsecutiveZeroNewMatchRuns" :> Num(2)),
     Dev("coldAfterZeroNewRuns" :> Num(1) @@ "hotPriority" :> Num(2000) @@ "coldPriority" :> Num(-5)),
     Dev("hotRefreshIntervalMs" :> Num(6 * Hour)),
     Dev("hotRefreshIntervalMs" :> Num(Minute) @@ "minRefreshIntervalMs" :> Num(2 * Minute)),
     Dev("warmRefreshIntervalMs" :> Num(72 * Hour) @@ "minRefreshIntervalMs" :> Text),
     Dev("warmPriority" :> Num(5)), Dev("priorityMin" :> Num(1001)),
     Dev("priorityMin" :> Num(60) @@ "priorityMax" :> Num(70) @@ "ladderInitialPriority" :> Blank),
     Dev("ladderInitialPriority" :> Num(101)),
     \* leases and sizes
     Dev("leaseDurationMs" :> Num(11 * Minute)), Dev("staleRunAfterMs" :> Num(15 * Minute)),
     Dev("scheduleBatchSize" :> Num(500) @@ "schedulerLeaseMs" :> Num(5 * Hour)),
     Dev("batchSize" :> Num(500) @@ "concurrency" :> Num(99) @@ "maxEnqueuePerRun" :> Num(1001)),
     Dev("batchSize" :> Num(0)), Dev("batchSize" :> Hundredths(250)),
     \* ladder
     Dev("ladderTiers" :> ListOf(TopTiers) @@ "ladderMaxPagesPerTierDivision" :> Num(3)),
     Dev("ladderTiers" :> ListOf({})), Dev("ladderTiers" :> ListOf({"GOLD"})),
     Dev("platformAllowlist" :> ListOf({"na1", "euw1"}) @@ "ladderPlatform" :> Padded("euw1")),
     Dev("ladderPlatform" :> Word("kr")), Dev("ladderMaxTotal" :> Num(5001)),
     Dev("ladderMaxNewPerRun" :> Num(200) @@ "ladderMaxTotal" :> Num(100)),
     \* shared with the worker
     Dev("totalTrackedPlayersHardCap" :> Num(0)),
     Dev("totalTrackedPlayersHardCap" :> Num(3000) @@ "expansionMaxNewPlayersPerRun" :> Num(500)),
     Dev("expansionMaxTrackedPlayers" :> Num(9999) @@ "expandFromParticipants" :> FlagOf(TRUE)),
     Dev("expansionMaxDepth" :> Num(4)),
     Dev("ingestionQueueName" :> Padded("other") @@ "timelineQueueName" :> Word("other")),
     Dev("timelineQueueName" :> Padded("other")), Dev("timelineQueueName" :> Blank),
     Dev("aggregationVersion" :> Blank), Dev("aggregationVersion" :> Padded("3")),
     Dev("confidenceLevel" :> Hundredths(99)), Dev("confidenceLevel" :> Num(1)),
     Dev("aiMaxRepairAttempts" :> Num(6)), Dev("aiTimeoutMs" :> Num(500) @@ "aiEnabled" :> FlagOf(TRUE)),
     Dev("championAiJobAttempts" :> Num(20) @@ "aiModel" :> Blank), Dev("aiProvider" :> Word("other")),
     Dev("ingestionJobAttempts" :> Num(21)), Dev("riotShared429CooldownMinMs" :> Num(0)),
     Dev("storeRawPayloads" :> FlagOf(TRUE) @@ "rankBackoffBaseMs" :> Num(60000)),
     Dev("defaultMatchCount" :> Num(101)), Dev("defaultMatchQueueId" :> Num(420) @@ "minimumSample" :> Num(1)),
     \* Riot
     Dev("riotProviderMode" :> Word("real") @@ "utilization" :> Num(1)),
     Dev("utilization" :> Hundredths(5)),
     Dev("riotProviderMode" :> Word("real") @@ "enrichmentMaxShare" :> Hundredths(90)),
     Dev("enrichmentMaxShare" :> Hundredths(90) @@ "productReservedShare" :> Hundredths(5)),
     Dev("riotBaseDomain" :> Blank),
     \* pacing
     Dev("longLimit" :> Num(1)), Dev("hardLongWindow" :> Num(2) @@ "softEnrichPending" :> Num(0)),
     Dev("softEnrichPending" :> Num(119) @@ "softLongSafetyMargin" :> Num(0)),
     Dev("softEnrichPending" :> Num(120)), Dev("longSoftMinEnrichPending" :> Num(0)),
     Dev("softWaitMs" :> Num(4999)),
     \* tools
     Dev("hardMaxMatches" :> Num(50)), Dev("defaultMaxMatches" :> Num(600)),
     Dev("defaultMaxMatches" :> Num(50) @@ "hardMaxMatches" :> Num(50) @@ "fileMaxPlayers" :> Num(30)),
     Dev("locale" :> Blank), Dev("staticVersion" :> Word("16.10.1") @@ "syncMaxRetries" :> Num(10)),
     Dev("aggregationBatchSize" :> Num(10) @@ "rebuildConfirmed" :> Word("YES"))}

Line(tool, args, players) == [tool |-> tool, args |-> args, players |-> players]
NoArgs == [k \in {} |-> Unset]
Na1 == "platform" :> Word("na1")
Me  == Na1 @@ "game-name" :> Word("me") @@ "tag-line" :> Word("na")

CommandLines ==
    {Line("run", NoArgs, 0), Line("run", Na1 @@ "batch-size" :> Num(51), 0),
     Line("run", "sample-discovery" :> Num(5), 0),
     Line("run", "sample-discovery" :> Num(5) @@ "dry-run" :> Switch @@ "queue" :> Blank, 0),
     Line("seed", Me @@ "priority" :> MissingValue, 0), Line("seed", Me @@ "concurrency" :> Num(2), 0),
     Line("seed", Me @@ "file" :> Word("f"), 3),
     Line("seed", "file" :> Word("f") @@ "priority" :> Text, 25), Line("seed", "file" :> Word("f"), 26),
     Line("setStatus", "tracked-player-id" :> Word("p") @@ "status" :> Word("PAUSED"), 0),
     Line("setStatus", "tracked-player-id" :> Word("p") @@ "status" :> Word("GONE"), 0),
     Line("status", "help" :> Switch @@ "other" :> Switch, 0), Line("coverage", "platform" :> Word("kr"), 0),
     Line("audit", "queue" :> Num(420), 0), Line("schedulerTrigger", "json" :> Switch, 0),
     Line("ladder", Na1, 0), Line("ladder", Na1 @@ "tiers" :> ListOf({"MASTER"}), 0),
     Line("ladder", "platform" :> Word("euw1"), 0), Line("ladder", Na1 @@ "page" :> Num(1), 0),
     Line("ladder", Na1 @@ "mode" :> Word("representative"), 0),
     Line("ladder", Na1 @@ "mode" :> Word("representative") @@ "max-pages-per-division" :> Num(3), 0),
     Line("ladder", Na1 @@ "mode" :> Word("representative") @@ "page" :> Num(1)
                      @@ "division" :> Word("II"), 0),
     Line("bootstrap", Me, 0), Line("bootstrap", Me @@ "max-matches" :> Num(60), 0),
     Line("bootstrap", "file" :> Word("f"), 26),
     Line("aggregates", "confirm" :> Switch @@ "queue" :> Num(0), 0), Line("aggregates", NoArgs, 0),
     Line("timelineBackfill", "limit" :> Num(501), 0),
     Line("timelineBackfill", "limit" :> Num(500) @@ "include-ineligible" :> Switch, 0),
     Line("timelineBackfill", NoArgs, 0), Line("staticSync", "dry-run" :> Switch, 0)}

RiotPressures ==
    [cooldown : {FALSE}, long : {0, 71, 72, 85}, enrich : {0, 1, 41, 120}, suggested : {0, 100}]
      \cup [cooldown : {TRUE}, long : {0, 85}, enrich : {0}, suggested : {0, 90000}]

(***************************************************************************)
(* Reports and audits: the databases that they find.                       *)
(***************************************************************************)
CollectorLimits ==
    [lease |-> 2, staleAfter |-> 3, playerTimeout |-> 0, leaseMargin |-> 1,
     platformAllowlist |-> {"home"}, expansionMaxDepth |-> 1, participantCap |-> 1,
     ladderCap |-> 5, totalCap |-> 9, coldAfter |-> 3, minimumSample |-> 30, batchSize |-> 1]
LadderPlayer ==
    [source |-> "LADDER", status |-> "ACTIVE", depth |-> 0, owner |-> None, until |-> None,
     due |-> TRUE, route |-> "home", agrees |-> TRUE, tier |-> None, streak |-> 0,
     refreshed |-> TRUE]
CollectorRun(status, start, finish) ==
    [status |-> status, start |-> start, finish |-> finish, claimed |-> 1, attempted |-> 1,
     succeeded |-> 1, failed |-> 0, lost |-> 0, found |-> 2, queued |-> 1, skipped |-> 1,
     considered |-> 1, enrolled |-> 0]
EmptyTable == [cell \in {<<1, "TOP">>, <<1, "MIDDLE">>, <<2, "TOP">>} |-> 0]
Healthy ==
    [runs |-> <<CollectorRun("COMPLETED", -9, -8), CollectorRun("RUNNING", -1, None)>>,
     quota |-> <<0, 0>>, players |-> <<LadderPlayer, None>>, budget |-> 0, duplicates |-> {},
     scheduler |-> [owner |-> FALSE, expiry |-> FALSE],
     table |-> [EmptyTable EXCEPT ![<<1, "TOP">>] = 30], tablePatch |-> 10, patches |-> {9, 10},
     roster |-> {1, 2, 60001}, staticData |-> "active", observed |-> {"GOLD"}, exactTiers |-> {}]
Leased(owner, until) ==
    [Healthy EXCEPT !.players[1].owner = owner, !.players[1].until = until]
Faulty ==
    {Leased(2, 1), Leased(1, 1), Leased(1, -1), Leased(3, 2),
     [Leased(2, 2) EXCEPT !.players[1].route = "away", !.runs[1].attempted = 2,
                          !.runs[1].succeeded = 2, !.runs[1].queued = 3],
     [Healthy EXCEPT !.runs[2].start = -4, !.players[1].due = FALSE,
                     !.runs[1].finish = None, !.runs[1].lost = 1],
     [Healthy EXCEPT !.runs[1].considered = -1, !.runs[1].skipped = 3,
                     !.players[1].agrees = FALSE, !.budget = None, !.scheduler = None],
     [Healthy EXCEPT !.budget = 1, !.quota[1] = 1, !.players[1].status = "PAUSED"],
     [Healthy EXCEPT !.budget = -1, !.scheduler.owner = TRUE, !.duplicates = {1}],
     [Healthy EXCEPT !.players[1].source = "MATCH_PARTICIPANT", !.players[1].depth = 1,
                     !.budget = 1, !.runs[1].enrolled = 1, !.quota[1] = 1],
     [Healthy EXCEPT !.players[1].depth = 4, !.observed = {},
                     !.players[2] = [LadderPlayer EXCEPT !.depth = -1, !.streak = 3,
                                                         !.tier = "MASTER", !.refreshed = FALSE]]}
Bare == [Healthy EXCEPT !.runs = <<None, None>>, !.players = <<None, None>>]
Tabled(top, middle) ==
    [Bare EXCEPT !.table[<<1, "TOP">>] = top, !.table[<<1, "MIDDLE">>] = middle,
                 !.table[<<2, "TOP">>] = IF top = middle THEN top ELSE 0]
CollectorDatabases ==
    {Healthy} \cup Faulty
    \cup {Tabled(top, middle) : top \in {1, 3, 10, 29, 30, 100}, middle \in {29}}
    \cup {[Bare EXCEPT !.patches = {}, !.staticData = "none", !.observed = {}],
          [Bare EXCEPT !.table = EmptyTable, !.staticData = "ready"]}

(***************************************************************************)
(* The ladder seeder and the static data.                                  *)
(***************************************************************************)
LeagueEntry(p) == [puuid |-> p, queue |-> "solo", tierKnown |-> TRUE]
LeaguePages ==
    {<<>>, <<LeagueEntry(1), LeagueEntry(2)>>, <<LeagueEntry(2), LeagueEntry(3)>>,
     <<[LeagueEntry(1) EXCEPT !.queue = "unknown"], LeagueEntry(None),
       [LeagueEntry(3) EXCEPT !.tierKnown = FALSE]>>,
     <<[LeagueEntry(1) EXCEPT !.queue = "unmapped"]>>}
SeedInput(mode, dry, tiers, page, pages, store) ==
    [mode |-> mode, dry |-> dry, tiers |-> tiers, page |-> page, pages |-> pages,
     store |-> store]
SeedCommands == {SeedInput("apex", FALSE, <<"apex">>, None, None, TRUE),
                 SeedInput("apex", TRUE, <<"apex">>, None, None, FALSE),
                 SeedInput("apex", TRUE, <<"apex", "other">>, None, None, FALSE),
                 SeedInput("representative", FALSE, <<"other">>, None, 3, TRUE),
                 SeedInput("representative", TRUE, <<"other">>, 3, None, TRUE)}
SeedLimits == [createCap |-> 1, scanCeiling |-> 3, ladderCap |-> 2, totalCap |-> 3,
               maxPages |-> 2, platformServed |-> TRUE]

RosterEntry(id, key) == [id |-> id, key |-> key]
RosterFiles ==
    {<<RosterEntry(1, "Ahri"), RosterEntry(2, "Zed")>>,
     <<RosterEntry(1, "Ahri")>>, <<RosterEntry(None, "Ahri"), RosterEntry(2, "Zed")>>,
     <<RosterEntry(1, "Ahri"), RosterEntry(1, "Zed")>>}
SyncInput(kind, version, dry) == [kind |-> kind, version |-> version, dry |-> dry]
SyncInputs == {SyncInput("champions", 1, FALSE), SyncInput("champions", 2, FALSE),
               SyncInput("champions", None, TRUE), SyncInput("build", 1, FALSE)}
ItemFiles == {[items |-> {1}, spells |-> {1}, runes |-> {None, 1}],
              [items |-> {None}, spells |-> {}, runes |-> {}]}

=============================================================================
