SPECIFICATION Spec
CONSTANTS
    None = None
    w1 = w1
    w2 = w2
    g1 = g1
    g2 = g2
    CacheClient = {w1, w2}
    CachePatch = {1, 2}
    CacheAsked <- Queries
    CacheMaxWrites = 2
    CacheMaxRequests = 2
    CacheMaxFaults = 1
    NamesProcesses = {w1, w2}
    NamesTtl = 1
    NamesMaxTime = 2
    NamesMaxVersion = 2
    NamesMaxLoads = 2
    RefreshClient = {w1, w2}
    RefreshMatch = {g1}
    RefreshDiscoveries = {{g1}}
    RefreshMaxRequests = 2
    RefreshMaxFaults = 1
    HistoryReader = {g1}
    HistoryWriter = {w1}
    HistoryQueue = {420, 900}
    HistoryCategory = {"all", "other"}
    HistoryValue = {1}
    HistoryMaxRows = 3
    HistoryMaxTime = 1
    HistoryPageLimit = 1
    RebuildMatch = {1, 2}
    RebuildChampion = {"a", "b"}
    RebuildTier = {"GOLD"}
    RebuildContents <- Contests
    RebuildFilters = {"b"}
    RebuildBatchSize = 4
    RebuildMaxRebuilds = 1
    RebuildMaxChanges = 1
    RebuildMaxFaults = 1
    MathMatch <- LaneGames
    MathMinute = 10
    MathFloor = 2
    RanksRows = {1, 2}
    RanksAccounts = {g1}
    RanksAccount <- OneAccount
    RanksWorkers = {w1}
    RanksPageBounds <- RunBounds
    RanksLeastFetch = 3
    RanksAnswers <- RankAnswers
    TimelineMatches = {1}
    TimelineWorkers = {w1, w2}
    TimelineCallers = {"search", "backfillIneligible"}
    TimelineMaxAttempts = 2
    TimelineTimelineRequired = TRUE
    ViewGames <- ViewedGames
    DetailKeys = {1, 2}
    DetailFilters = {"f0", "f1", "f2"}
    DetailPlaced = {"f1", "f2"}
    DetailMaxActions = 2
    DirectoryAggs = {"g1", "g2"}
    DirectoryDefaultAgg = "g1"
    DirectoryPositions = {"TOP"}
    DirectoryTexts = {g1}
    DirectoryMaxPatches = 3
    PlayerPlayers = {1, 2}
    PlayerMaxActions = 1
    PlayerMaxPolls = 1
    PlayerMaxAnswers = 1
    PageMatches = {1, 2}
    PageMaxActions = 4
    InsightReaders = {g1, g2}
    InsightWorkers = {w1, w2}
    InsightAttempts = 2
    ChampionInputs <- StatisticsAnswers
    ChampionChampion = "Ahri"
    ChampionMaxRepairAttempts = 1
    PlaystyleWindows <- PlayedWindows
    PlaystyleExploratoryMin = 2
    PlaystyleMaxRepairAttempts = 1
    SettingsEnvironments <- Deployments
    SettingsCommands <- CommandLines
    SettingsPressures <- RiotPressures
    SettingsQuietBound = 4
    ReportsDatabases <- CollectorDatabases
    ReportsRuns = {1, 2}
    ReportsPlayers = {1, 2}
    ReportsConfig <- CollectorLimits
    ReportsFinalizedLimit = 1
    ReportsMaxChanges = 1
    ReportsMaxTime = 1
    SeedPlayers = {1, 2, 3}
    SeedPages <- LeaguePages
    SeedInputs <- SeedCommands
    SeedConfig <- SeedLimits
    SeedMaxElsewhere = 1
    StaticRuns = {w1, w2}
    StaticVersions = {1, 2}
    StaticInputs <- SyncInputs
    StaticChampionFiles <- RosterFiles
    StaticBuildFiles <- ItemFiles
    StaticMinChampions = 2
    StaticMaxRetries = 1
    StaticMaxStarts = 2
SYMMETRY Symmetry
INVARIANT TypeOK
INVARIANT ReadersMissNothing
INVARIANT RefreshesAreHonest
INVARIANT StoredRowsAreTrue
INVARIANT FiguresAgree
INVARIANT PromisesArePursued
INVARIANT SettledPagesAreConsistent
INVARIANT TextsAreSupported
INVARIANT SettingsHold
INVARIANT ReportsAreTrue
INVARIANT StaticDataIsSound
PROPERTY StoredTimelinesStay
CHECK_DEADLOCK FALSE
