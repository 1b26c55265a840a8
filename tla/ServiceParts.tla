---------------------------- MODULE ServiceParts ----------------------------
(***************************************************************************)
(* The parts of Services whose invariants are proved.                      *)
(* Every part has its variables among x1 .. x16, in the order in which its *)
(* module declares them, and its constants have its name before theirs.    *)
(***************************************************************************)
EXTENDS Integers

CONSTANTS None,
          CacheClient, CachePatch, CacheAsked, CacheMaxWrites,
          CacheMaxRequests, CacheMaxFaults,
          NamesProcesses, NamesTtl, NamesMaxTime, NamesMaxVersion,
          NamesMaxLoads,
          RefreshClient, RefreshMatch, RefreshDiscoveries, RefreshMaxRequests,
          RefreshMaxFaults,
          HistoryReader, HistoryWriter, HistoryQueue, HistoryCategory,
          HistoryValue, HistoryMaxRows, HistoryMaxTime, HistoryPageLimit,
          RebuildMatch, RebuildChampion, RebuildTier, RebuildContents,
          RebuildFilters, RebuildBatchSize, RebuildMaxRebuilds,
          RebuildMaxChanges, RebuildMaxFaults,
          RanksRows, RanksAccounts, RanksAccount, RanksWorkers,
          RanksPageBounds, RanksLeastFetch, RanksAnswers,
          TimelineMatches, TimelineWorkers, TimelineCallers,
          TimelineMaxAttempts, TimelineTimelineRequired,
          DetailKeys, DetailFilters, DetailPlaced, DetailMaxActions,
          DirectoryAggs, DirectoryDefaultAgg, DirectoryPositions,
          DirectoryTexts, DirectoryMaxPatches,
          PlayerPlayers, PlayerMaxActions, PlayerMaxPolls, PlayerMaxAnswers,
          PageMatches, PageMaxActions,
          InsightReaders, InsightWorkers, InsightAttempts,
          StaticRuns, StaticVersions, StaticInputs, StaticChampionFiles,
          StaticBuildFiles, StaticMinChampions, StaticMaxRetries,
          StaticMaxStarts

VARIABLES part, x1, x2, x3, x4, x5, x6, x7, x8, x9, x10, x11, x12, x13, x14,
                x15, x16

Cache == INSTANCE ChampionStatsCache WITH Client <- CacheClient,
    Patch <- CachePatch, Asked <- CacheAsked, MaxWrites <- CacheMaxWrites,
    MaxRequests <- CacheMaxRequests, MaxFaults <- CacheMaxFaults, data <- x1,
    generation <- x2, bumped <- x3, owed <- x4, pages <- x5, request <- x6,
    asked <- x7, rewrites <- x8, redisFaults <- x9
Names == INSTANCE ChampionNames WITH Processes <- NamesProcesses,
    Ttl <- NamesTtl, MaxTime <- NamesMaxTime, MaxVersion <- NamesMaxVersion,
    MaxLoads <- NamesMaxLoads, now <- x1, published <- x2, redis <- x3,
    memory <- x4, inflight <- x5, refresh <- x6, loads <- x7, served <- x8
Refresh == INSTANCE PlayerRefresh WITH Client <- RefreshClient,
    Match <- RefreshMatch, Discoveries <- RefreshDiscoveries,
    MaxRequests <- RefreshMaxRequests, MaxFaults <- RefreshMaxFaults,
    work <- x1, meta <- x2, lock <- x3, cooldown <- x4, profile <- x5,
    request <- x6, recorded <- x7, overran <- x8, searched <- x9,
    requests <- x10, refreshFaults <- x11
History == INSTANCE PlayerHistory WITH Reader <- HistoryReader,
    Writer <- HistoryWriter, Queue <- HistoryQueue,
    Category <- HistoryCategory, Value <- HistoryValue,
    MaxRows <- HistoryMaxRows, MaxTime <- HistoryMaxTime,
    PageLimit <- HistoryPageLimit, rows <- x1, time <- x2, writing <- x3,
    walk <- x4
Rebuild == INSTANCE AggregateRebuild WITH Match <- RebuildMatch,
    Champion <- RebuildChampion, Tier <- RebuildTier,
    Contents <- RebuildContents, Filters <- RebuildFilters,
    BatchSize <- RebuildBatchSize, MaxRebuilds <- RebuildMaxRebuilds,
    MaxChanges <- RebuildMaxChanges, MaxFaults <- RebuildMaxFaults,
    content <- x1, rows <- x2, marker <- x3, scopes <- x4, work <- x5,
    job <- x6, quiet <- x7, torn <- x8, before <- x9, rebuilds <- x10,
    changes <- x11, rebuildFaults <- x12
Ranks == INSTANCE RankEnrichment WITH Rows <- RanksRows,
    Accounts <- RanksAccounts, Account <- RanksAccount,
    Workers <- RanksWorkers, PageBounds <- RanksPageBounds,
    LeastFetch <- RanksLeastFetch, Answers <- RanksAnswers, status <- x1,
    obs <- x2, job <- x3, work <- x4, call <- x5, page <- x6, todo <- x7,
    cursor <- x8, excused <- x9
Timeline == INSTANCE MatchTimeline WITH Matches <- TimelineMatches,
    Workers <- TimelineWorkers, Callers <- TimelineCallers,
    MaxAttempts <- TimelineMaxAttempts,
    TimelineRequired <- TimelineTimelineRequired, status <- x1, linked <- x2,
    timeline <- x3, events <- x4, frames <- x5, ingestion <- x6, job <- x7,
    work <- x8, call <- x9, disturbed <- x10
Detail == INSTANCE ChampionDetailPage WITH Keys <- DetailKeys,
    Filters <- DetailFilters, Placed <- DetailPlaced,
    MaxActions <- DetailMaxActions, route <- x1, url <- x2, filters <- x3,
    ready <- x4, notFound <- x5, champion <- x6, generation <- x7,
    statsId <- x8, stats <- x9, statsPending <- x10, tab <- x11, panel <- x12,
    navigation <- x13, calls <- x14, actions <- x15
Directory == INSTANCE ChampionDirectoryPage WITH Aggs <- DirectoryAggs,
    DefaultAgg <- DirectoryDefaultAgg, Positions <- DirectoryPositions,
    Texts <- DirectoryTexts, MaxPatches <- DirectoryMaxPatches, filters <- x1,
    url <- x2, ready <- x3, tail <- x4, syncing <- x5, ranking <- x6,
    directory <- x7, requests <- x8, patches <- x9
Player == INSTANCE PlayerPage WITH Players <- PlayerPlayers,
    MaxActions <- PlayerMaxActions, MaxPolls <- PlayerMaxPolls,
    MaxAnswers <- PlayerMaxAnswers, route <- x1, mounted <- x2, profile <- x3,
    matches <- x4, working <- x5, polling <- x6, refreshing <- x7,
    playstyle <- x8, playstylePending <- x9, playstyleId <- x10,
    failed <- x11, timers <- x12, calls <- x13, actions <- x14, polls <- x15,
    answers <- x16
Page == INSTANCE MatchPage WITH Matches <- PageMatches,
    MaxActions <- PageMaxActions, route <- x1, detail <- x2, tab <- x3,
    timeline <- x4, cached <- x5, inFlight <- x6, calls <- x7, actions <- x8
Insight == INSTANCE InsightQueue WITH Readers <- InsightReaders,
    Workers <- InsightWorkers, Attempts <- InsightAttempts, row <- x1,
    reader <- x2, job <- x3, run <- x4, exhausted <- x5, lost <- x6
Static == INSTANCE StaticData WITH Runs <- StaticRuns,
    Versions <- StaticVersions, Inputs <- StaticInputs,
    ChampionFiles <- StaticChampionFiles, BuildFiles <- StaticBuildFiles,
    MinChampions <- StaticMinChampions, MaxRetries <- StaticMaxRetries,
    MaxStarts <- StaticMaxStarts, patches <- x1, runs <- x2, started <- x3,
    alone <- x4

=============================================================================
