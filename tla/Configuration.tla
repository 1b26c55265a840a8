--------------------------- MODULE Configuration ---------------------------
(***************************************************************************)
(* How the processes of the system read one environment, and what the      *)
(* accepted values drive: the cadence of successful refreshes, the pacing  *)
(* of the collector under Riot pressure and the plans of the command line. *)
(* The API, the match worker, the collector and the operator's tools parse *)
(* the same variables with loaders of their own; every loader is a table   *)
(* of rules here, and a process that meets a value its tables refuse does  *)
(* not start.                                                              *)
(***************************************************************************)
EXTENDS Integers, FiniteSets, TLC, RawValues

CONSTANTS
    Environments,   \* the environments an operator may deploy: knob -> raw value
    Commands,       \* command lines: [tool |-> .., args |-> flag -> raw value]
    Pressures,      \* the Riot pressure a pacing loop may observe
    QuietBound,     \* how long a series of refreshes without new matches is followed
    None            \* no configuration, no plan

(***************************************************************************)
(* Raw values and the rules that read them.                                *)
(***************************************************************************)
Rule(type, lo, hi, d, set) == [type |-> type, lo |-> lo, hi |-> hi, d |-> d, set |-> set]
AnyInt            == 2000000000                   \* stands for the safe integers
Bounded(lo, hi, d)  == Rule("bounded", lo, hi, d, {})
Clamped(lo, max, d) == Rule("clamped", lo, max, d, {})
Positive(d)       == Bounded(1, AnyInt, d)
NonNegative(d)    == Bounded(0, AnyInt, d)
Fraction(lo, hi, d) == Rule("fraction", lo, hi, d, {})
Flag(d)           == Rule("flag", 0, 0, d, {})
Name(d)           == Rule("name", 0, 0, d, {})
Verbatim(d)       == Rule("verbatim", 0, 0, d, {})
Strict(d)         == Rule("strict", 0, 0, d, {})
Required(set)     == Rule("required", 0, 0, "", set)
Choice(d, set)    == Rule("choice", 0, 0, d, set)
StrictChoice(d, set) == Rule("strictChoice", 0, 0, d, set)
Some(d, set)      == Rule("list", 0, 0, d, set)   \* a non-empty list from a set

NotTrimmed  == "a value with its white space"
IsWord(raw) == raw.kind \in {"word", "padded"}

(* A blank value stands for an unset one, except where a rule says not. *)
AsksDefault(rule, raw) ==
    \/ raw.kind = "unset" /\ rule.type # "required"
    \/ raw.kind = "blank" /\ rule.type \notin {"required", "strict", "strictChoice", "verbatim"}

AcceptsInt(rule, raw) ==
    /\ raw.kind = "int"
    /\ raw.n >= rule.lo
    /\ rule.type = "clamped" \/ raw.n <= rule.hi

AcceptsFraction(rule, raw) ==
    LET n == IF raw.kind = "int" THEN 100 * raw.n ELSE raw.n
    IN raw.kind \in {"int", "fraction"} /\ n \in rule.lo .. rule.hi

Accepts(rule, raw) ==
    \/ AsksDefault(rule, raw)
    \/ CASE rule.type \in {"bounded", "clamped"} -> AcceptsInt(rule, raw)
         [] rule.type = "fraction" -> AcceptsFraction(rule, raw)
         [] rule.type = "flag"     -> raw.kind = "flag"
         [] rule.type \in {"name", "strict"} -> IsWord(raw)
         [] rule.type = "verbatim" -> IsWord(raw) \/ raw.kind = "blank"
         [] rule.type = "list"     -> raw.kind = "list" /\ raw.set # {} /\ raw.set \subseteq rule.set
         [] OTHER                  -> IsWord(raw) /\ raw.s \in rule.set

Read(rule, raw) ==
    IF AsksDefault(rule, raw) THEN rule.d
    ELSE CASE rule.type = "bounded"  -> raw.n
           [] rule.type = "clamped"  -> IF raw.n < rule.hi THEN raw.n ELSE rule.hi
           [] rule.type = "fraction" -> IF raw.kind = "int" THEN 100 * raw.n ELSE raw.n
           [] rule.type = "flag"     -> raw.n = 1
           [] rule.type = "list"     -> raw.set
           [] rule.type = "verbatim" -> IF raw.kind = "word" THEN raw.s ELSE NotTrimmed
           [] OTHER                  -> raw.s

RawIn(env, knob) == IF knob \in DOMAIN env THEN env[knob] ELSE Unset
TableAccepts(table, env) == \A k \in DOMAIN table : Accepts(table[k], RawIn(env, k))
ReadTable(table, env) == [k \in DOMAIN table |-> Read(table[k], RawIn(env, k))]

(***************************************************************************)
(* The collector's table (collector.config.ts), knob by knob.              *)
(***************************************************************************)
MaxDuration       == 7 * 24 * Hour
LeaseSafetyMargin == Minute
Platforms         == {"na1", "euw1", "kr"}      \* a sample of the routes Riot has

ApexTiers == {"CHALLENGER", "GRANDMASTER", "MASTER"}
HighTiers == {"DIAMOND", "EMERALD", "PLATINUM"}
MidTiers  == {"GOLD"}
LowTiers  == {"SILVER", "BRONZE", "IRON"}
RepresentativeTiers == HighTiers \cup MidTiers \cup LowTiers

Duration(lo, d) == Bounded(lo, MaxDuration, d)
AnyPriority(d)  == Bounded(-AnyInt, AnyInt, d)
QueueId(d)      == Bounded(0, 1000000, d)
OptionalPlatform == Choice("none", Platforms)

(* As it would be without the hard maxima. *)
UncappedRunKnobs ==
    [batchSize         |-> Positive(10), concurrency |-> Positive(2),
     matchesPerPlayer  |-> Positive(20), maxMatchIdsPerRun |-> Positive(200),
     maxEnqueuePerRun  |-> Positive(200)]

RunKnobs ==
    [batchSize         |-> Clamped(1, 50, 10),
     concurrency       |-> Clamped(1, 5, 2),
     matchesPerPlayer  |-> Clamped(1, 100, 20),
     maxMatchIdsPerRun |-> Clamped(1, 1000, 200),
     maxEnqueuePerRun  |-> Clamped(1, 1000, 200)]

CadenceKnobs ==
    [warmRefreshIntervalMs |-> Duration(Minute, 6 * Hour),
     minRefreshIntervalMs  |-> Duration(Minute, 6 * Hour),
     hotRefreshIntervalMs  |-> Duration(Second, Hour),
     coldRefreshIntervalMs |-> Duration(Minute, 48 * Hour),
     coldAfterZeroNewRuns  |-> Bounded(1, 10000, 3),
     maxConsecutiveZeroNewMatchRuns |-> Bounded(1, 1000000, 100)]

TimingKnobs ==
    [baseBackoffMs      |-> Duration(1, 15 * Minute),
     maxBackoffMs       |-> Duration(1, 24 * Hour),
     maxBackoffExponent |-> Bounded(0, 32, 8),
     playerTimeoutMs    |-> Duration(1, 10 * Minute),
     leaseDurationMs    |-> Duration(1, 15 * Minute),
     staleRunAfterMs    |-> Duration(1, 2 * Hour)]

PriorityKnobs ==
    [priorityMin  |-> AnyPriority(0),   priorityMax  |-> AnyPriority(1000),
     hotPriority  |-> AnyPriority(100), warmPriority |-> AnyPriority(50),
     coldPriority |-> AnyPriority(10),
     ladderInitialPriority      |-> AnyPriority(0),     \* unset: the warm priority
     productRootInitialPriority |-> AnyPriority(0)]     \* unset: the hot priority

ScheduleSizeKnobs ==
    [scheduleBatchSize            |-> Clamped(1, 50, 10),
     scheduleConcurrency          |-> Clamped(1, 5, 2),
     schedulerLeaseSafetyMarginMs |-> Duration(0, 5 * Minute),
     schedulerLeaseMs             |-> Duration(1, Hour)]

ScheduleKnobs ==
    [schedulerEnabled             |-> Flag(FALSE),
     scheduleIntervalMs           |-> Bounded(Minute, 24 * Hour, 15 * Minute),
     scheduleMaxMatchesPerPlayer  |-> Clamped(1, 100, 20),
     scheduleMaxMatchIds          |-> Clamped(1, 1000, 200),
     scheduleMaxEnqueue           |-> Clamped(1, 1000, 200),
     schedulerRateLimitCooldownMs |-> Duration(0, 15 * Minute),
     riotShared429CooldownMinMs   |-> Duration(0, 15 * Minute),
     maxPendingIngestionJobs      |-> Clamped(0, 50000, 500),
     scheduleQueueId              |-> QueueId(420),
     schedulePlatform             |-> OptionalPlatform,
     estimatedRequestsPerEnqueuedMatch |-> Bounded(0, 1000, 2),
     enrollFromBootstrap          |-> Flag(FALSE),
     enrollFromSearch             |-> Flag(FALSE)]

ExpansionKnobs ==
    [expandFromParticipants                |-> Flag(FALSE),
     expansionMaxDepth                     |-> Bounded(0, 3, 1),
     expansionMaxNewPlayersPerMatch        |-> Clamped(0, 9, 3),
     expansionMaxNewPlayersPerSourcePlayer |-> Clamped(0, 50, 5),
     expansionMaxNewPlayersPerRun          |-> Clamped(0, 200, 20),
     expansionMaxTrackedPlayers            |-> Clamped(0, 5000, 500),
     expansionQueueId                      |-> QueueId(420)]

CapKnobs ==
    [platformAllowlist          |-> Some({"na1"}, Platforms),
     totalTrackedPlayersHardCap |-> Bounded(1, 50000, 5000),
     ladderMaxTotal             |-> Bounded(1, 20000, 3000),
     ladderMaxNewPerRun         |-> Bounded(1, 1000, 100)]

LadderKnobs ==
    [ladderQueueType            |-> Choice("RANKED_SOLO_5x5", {"RANKED_SOLO_5x5"}),
     ladderTiers                |-> Some({"CHALLENGER", "GRANDMASTER"}, ApexTiers),
     ladderRepresentativeTiers  |-> Some(HighTiers \cup MidTiers, RepresentativeTiers),
     ladderMaxPagesPerTierDivision |-> Bounded(1, 5, 1),
     ladderMaxCandidatesScanned |-> Bounded(1, 5000, 500),
     ladderPlatform             |-> OptionalPlatform]

CollectorKnobs ==
    RunKnobs @@ CadenceKnobs @@ TimingKnobs @@ PriorityKnobs @@ ScheduleSizeKnobs
      @@ ScheduleKnobs @@ ExpansionKnobs @@ CapKnobs @@ LadderKnobs

Given(env, knob) == RawIn(env, knob).kind \notin {"unset", "blank"}

(* What the loader fills in from other knobs: the legacy alias of the warm *)
(* interval and the two initial priorities.                                *)
CollectorConfig(env) ==
    LET c == ReadTable(CollectorKnobs, env)
        warm == IF Given(env, "warmRefreshIntervalMs")
                THEN c.warmRefreshIntervalMs ELSE c.minRefreshIntervalMs
    IN [c EXCEPT !.warmRefreshIntervalMs = warm,
                 !.minRefreshIntervalMs = warm,
                 !.ladderInitialPriority =
                     IF Given(env, "ladderInitialPriority") THEN @ ELSE c.warmPriority,
                 !.productRootInitialPriority =
                     IF Given(env, "productRootInitialPriority") THEN @ ELSE c.hotPriority]

(* The alias is parsed only when the warm interval is not given. *)
CollectorTableAccepts(env) ==
    \A k \in DOMAIN CollectorKnobs :
        \/ k = "minRefreshIntervalMs" /\ Given(env, "warmRefreshIntervalMs")
        \/ Accepts(CollectorKnobs[k], RawIn(env, k))

CadenceIsOrdered(c) ==
    /\ c.hotRefreshIntervalMs < c.warmRefreshIntervalMs
    /\ c.warmRefreshIntervalMs < c.coldRefreshIntervalMs
    /\ c.hotPriority >= c.warmPriority
    /\ c.warmPriority >= c.coldPriority

(* As it would be without the check. *)
AnyStreakBound(c) == TRUE

StreakReachesCold(c) == c.maxConsecutiveZeroNewMatchRuns >= c.coldAfterZeroNewRuns

LeasesNest(c) ==
    /\ c.leaseDurationMs > c.playerTimeoutMs + LeaseSafetyMargin
    /\ c.staleRunAfterMs > c.leaseDurationMs

PrioritiesFit(c) ==
    /\ c.priorityMin <= c.priorityMax
    /\ c.ladderInitialPriority <= c.productRootInitialPriority

CeilDiv(a, b) == (a + b - 1) \div b

MinimumSchedulerLease(c) ==
    CeilDiv(c.scheduleBatchSize, c.scheduleConcurrency) * c.playerTimeoutMs
      + c.schedulerLeaseSafetyMarginMs

CapsNest(c) ==
    /\ c.ladderMaxTotal <= c.totalTrackedPlayersHardCap
    /\ c.ladderMaxNewPerRun <= c.ladderMaxTotal
    /\ c.ladderPlatform # "none" => c.ladderPlatform \in c.platformAllowlist

CollectorAccepts(env) ==
    /\ CollectorTableAccepts(env)
    /\ LET c == CollectorConfig(env)
       IN /\ CadenceIsOrdered(c)
          /\ StreakReachesCold(c)
          /\ LeasesNest(c)
          /\ PrioritiesFit(c)
          /\ c.schedulerLeaseMs > MinimumSchedulerLease(c)
          /\ CapsNest(c)

(***************************************************************************)
(* The tables of the match worker (apps/worker/src/config.ts).             *)
(***************************************************************************)
IngestionKnobs ==
    [ingestionQueueName          |-> Name("match-ingestion"),
     ingestionConcurrency        |-> Bounded(1, 32, 2),
     ingestionJobAttempts        |-> Bounded(1, 20, 5),
     ingestionBackoffBaseMs      |-> Bounded(100, Minute, 2 * Second),
     ingestionBackoffMaxMs       |-> Bounded(Second, 10 * Minute, Minute),
     riotShared429CooldownMinMs  |-> Duration(0, 15 * Minute),
     timelineFetchEnabled        |-> Flag(TRUE),
     storeRawPayloads            |-> Flag(FALSE),
     timelineRequiredForComplete |-> Flag(FALSE),
     normalizationVersion        |-> Bounded(1, 100, 1)]

TimelineKnobs ==
    [timelineQueueName          |-> Name("match-timeline"),
     timelineConcurrency        |-> Bounded(1, 32, 1),
     timelineJobAttempts        |-> Bounded(1, 20, 5),
     timelineBackoffBaseMs      |-> Bounded(100, Minute, 2 * Second),
     timelineBackoffMaxMs       |-> Bounded(Second, 10 * Minute, Minute),
     riotShared429CooldownMinMs |-> Duration(0, 15 * Minute),
     storeRawPayloads           |-> Flag(FALSE)]

AggregationKnobs ==
    [aggregationQueueName       |-> Name("champion-aggregation"),
     aggregationConcurrency     |-> Bounded(1, 32, 2),
     aggregationJobAttempts     |-> Bounded(1, 20, 5),
     sourceNormalizationVersion |-> Name("1"),
     aggregationVersion         |-> Name("2"),
     matchupAggregationVersion  |-> Name("1"),
     confidenceLevel            |-> Fraction(1, 99, 95)]

RankKnobs ==
    [rankQueueName              |-> Name("participant-rank-enrichment"),
     rankConcurrency            |-> Bounded(1, 8, 1),
     rankJobAttempts            |-> Bounded(1, 20, 5),
     rankBackoffBaseMs          |-> Bounded(100, Minute, 2 * Second),
     rankBackoffMaxMs           |-> Bounded(Second, 10 * Minute, Minute),
     observationFreshnessMs     |-> Duration(Minute, 6 * Hour),
     riotShared429CooldownMinMs |-> Duration(0, 15 * Minute)]

Providers == {"openai_compatible"}
AiKnobs ==
    [aiEnabled    |-> Flag(FALSE),
     aiProvider   |-> Choice("openai_compatible", Providers),
     aiBaseUrl    |-> Name("http://localhost:11434/v1"),
     aiModel      |-> Name("qwen2.5:14b")]

WorkerChampionAiKnobs == AiKnobs @@
    [championAiQueueName   |-> Name("champion-ai-insight"),
     championAiConcurrency |-> Bounded(1, 8, 1),
     championAiJobAttempts |-> Bounded(1, 20, 3),
     aiTimeoutMs           |-> Bounded(Second, 10 * Minute, Minute),
     aiTemperature         |-> Fraction(-AnyInt, AnyInt, 20),
     aiMaxOutputTokens     |-> Bounded(1, 16000, 1200),
     aiMaxRepairAttempts   |-> Bounded(0, 5, 1)]

WorkerPlaystyleAiKnobs == AiKnobs @@
    [playstyleAiQueueName   |-> Name("player-ai-playstyle"),
     playstyleAiConcurrency |-> Bounded(1, 8, 1),
     playstyleAiJobAttempts |-> Bounded(1, 20, 3),
     aiTimeoutMs            |-> Bounded(Second, 10 * Minute, Minute),
     aiTemperature          |-> Fraction(-AnyInt, AnyInt, 20),
     aiMaxOutputTokens      |-> Bounded(1, 16000, 1200),
     aiMaxRepairAttempts    |-> Bounded(0, 5, 1)]

(* As it would be had the copy drifted from the collector's. *)
DriftedExpansionKnobs ==
    [expansionMaxNewPlayersPerRun |-> Clamped(0, 500, 20),
     totalTrackedPlayersHardCap   |-> Bounded(0, 50000, 5000)]

(* The worker's own copy of the collector's expansion table: the smallest  *)
(* accepted total cap is 0 here and 1 in the collector.                    *)
WorkerExpansionKnobs ==
    [expandFromParticipants                |-> Flag(FALSE),
     expansionMaxDepth                     |-> Bounded(0, 3, 1),
     expansionMaxNewPlayersPerMatch        |-> Clamped(0, 9, 3),
     expansionMaxNewPlayersPerSourcePlayer |-> Clamped(0, 50, 5),
     expansionMaxNewPlayersPerRun          |-> Clamped(0, 200, 20),
     expansionMaxTrackedPlayers            |-> Clamped(0, 5000, 500),
     expansionQueueId                      |-> QueueId(420),
     platformAllowlist                     |-> Some({"na1"}, Platforms),
     totalTrackedPlayersHardCap            |-> Bounded(0, 50000, 5000)]

(***************************************************************************)
(* The tables of the API (apps/api/src/config) and of the Riot client.     *)
(***************************************************************************)
PlayerRefreshKnobs ==
    [cooldownSeconds        |-> NonNegative(120),
     profileCacheTtlSeconds |-> Positive(60),
     masteryLimit           |-> Positive(10),
     masterySnapshotMinAgeSeconds |-> Positive(3600),
     defaultMatchCount      |-> Positive(20),
     maxMatchCount          |-> Positive(100),
     defaultMatchQueueId    |-> NonNegative(-1),          \* -1: every queue
     rankedSoloQueueId      |-> NonNegative(420),
     ingestionQueueName     |-> Name("match-ingestion"),
     ingestionJobAttempts   |-> Bounded(1, 20, 5),
     matchIngestionReconcileBatchSize |-> Positive(100),
     timelineQueueName      |-> Verbatim("match-timeline"),
     timelineJobAttempts    |-> Bounded(1, 20, 5),
     matchTimelineSearchBackfillEnabled |-> Flag(FALSE),
     refreshLockTtlSeconds  |-> Positive(60)]

ChampionStatsKnobs ==
    [defaultPlatform            |-> Required(Platforms),
     defaultQueueId             |-> NonNegative(420),
     sourceNormalizationVersion |-> Strict("1"),
     aggregationVersion         |-> Strict("2"),
     minimumSample              |-> Positive(30),
     confidenceLevel            |-> Fraction(1, 99, 95),
     cacheTtlSeconds            |-> Positive(60),
     buildAggregationVersion    |-> Strict("1"),
     matchupAggregationVersion  |-> Strict("1"),
     matchupDisplayFloor        |-> Positive(10)]

ChampionAiKnobs == AiKnobs @@
    [aiTimeoutMs           |-> Positive(Minute),
     aiTemperature         |-> Fraction(-AnyInt, AnyInt, 20),
     aiMaxOutputTokens     |-> Positive(1200),
     aiMaxRepairAttempts   |-> NonNegative(1),
     championAiQueueName   |-> Name("champion-ai-insight"),
     championAiJobAttempts |-> Positive(3),
     championAiStalePendingMs |-> Positive(2 * Minute),
     championAiFailedRetryMs  |-> Positive(Minute)]

PlaystyleAiKnobs == AiKnobs @@
    [aiTimeoutMs            |-> Positive(Minute),
     aiTemperature          |-> Fraction(-AnyInt, AnyInt, 20),
     aiMaxOutputTokens      |-> Positive(1200),
     aiMaxRepairAttempts    |-> NonNegative(1),
     playstyleAiQueueName   |-> Name("player-ai-playstyle"),
     playstyleAiJobAttempts |-> Positive(3),
     playstyleAiStalePendingMs |-> Positive(2 * Minute),
     playstyleAiFailedRetryMs  |-> Positive(Minute)]

Locales == {"en_US", "ko_KR"}            \* a sample of language_REGION
DataDragonKnobs ==
    [locale           |-> StrictChoice("en_US", Locales),
     staticCacheTtlSeconds |-> Bounded(60, 604800, 21600),
     staticRequestTimeoutMs |-> Bounded(100, 2 * Minute, 10 * Second)]

StaticSyncKnobs ==
    [locale           |-> StrictChoice("en_US", Locales),
     staticRequestTimeoutMs |-> Bounded(100, 2 * Minute, 10 * Second),
     staticVersion    |-> StrictChoice("latest", {"latest", "16.10.1"}),
     minChampions     |-> Bounded(1, 10000, 100),
     syncMaxRetries   |-> Bounded(0, 10, 2)]

RiotKnobs ==
    [riotTimeoutMs       |-> Bounded(100, 2 * Minute, 10 * Second),
     riotMaxRetries      |-> Bounded(0, 5, 2),
     riotMaxRetryDelayMs |-> Bounded(0, Minute, 5 * Second),
     riotBaseDomain      |-> StrictChoice("api.riotgames.com", {"api.riotgames.com"}),
     riotProviderMode    |-> Choice("mock", {"real", "mock"})]

BudgetKnobs ==
    [budgetEnabled        |-> Flag(TRUE),
     utilization          |-> Fraction(10, 100, 75),
     shortLimit           |-> Bounded(1, 10000, 20),
     shortWindowSeconds   |-> Bounded(1, 3600, 1),
     longLimit            |-> Bounded(1, 100000, 100),
     longWindowSeconds    |-> Bounded(1, 86400, 120),
     enrichmentMaxShare   |-> Fraction(5, 90, 35),
     productReservedShare |-> Fraction(0, 50, 10),
     maxInlineWaitMs      |-> Bounded(0, Minute, 2 * Second),
     observeHeaders       |-> Flag(TRUE),
     redisKeyPrefix       |-> Name("riot:request-budget")]

SharesFit(c) == c.enrichmentMaxShare + c.productReservedShare <= 95

BootstrapKnobs ==
    [bootstrapQueueId        |-> QueueId(420),
     defaultMaxMatches       |-> Bounded(1, 10000, 100),
     hardMaxMatches          |-> Bounded(1, 10000, 500),
     bootstrapPageSize       |-> Bounded(1, 100, 100),
     fileMaxPlayers          |-> Bounded(1, 1000, 25),
     bootstrapMaxConcurrency |-> Bounded(1, 10, 3),
     waitTimeoutMs           |-> Bounded(100, Hour, 2 * Minute),
     waitPollIntervalMs      |-> Bounded(100, Minute, 2 * Second)]

AggregateToolKnobs ==
    [aggregationBatchSize |-> Positive(50),
     minimumSample        |-> Positive(30),
     rebuildConfirmed     |-> Choice("", {"YES"})]

(***************************************************************************)
(* The loaders, and the processes that run them before anything else.  A   *)
(* process takes its whole configuration or does not start.  The worker    *)
(* reads the request budget only with the real provider, and its expansion *)
(* table with each completed match, after it has started.                  *)
(***************************************************************************)
Tables ==
    [collector |-> CollectorKnobs, ingestion |-> IngestionKnobs, timeline |-> TimelineKnobs,
     aggregation |-> AggregationKnobs, rank |-> RankKnobs,
     workerChampionAi |-> WorkerChampionAiKnobs, workerPlaystyleAi |-> WorkerPlaystyleAiKnobs,
     workerExpansion |-> WorkerExpansionKnobs, playerRefresh |-> PlayerRefreshKnobs,
     championStats |-> ChampionStatsKnobs, championAi |-> ChampionAiKnobs,
     playstyleAi |-> PlaystyleAiKnobs, dataDragon |-> DataDragonKnobs,
     staticSync |-> StaticSyncKnobs, riot |-> RiotKnobs, budget |-> BudgetKnobs,
     bootstrap |-> BootstrapKnobs, aggregateTool |-> AggregateToolKnobs]
Loaders == DOMAIN Tables

Config(loader, env) ==
    IF loader = "collector" THEN CollectorConfig(env) ELSE ReadTable(Tables[loader], env)

(* The default number of matches is held against the hard maximum only     *)
(* when the operator gives it.                                             *)
CrossChecks(loader, env) ==
    LET c == Config(loader, env)
    IN CASE loader = "playerRefresh" -> c.defaultMatchCount <= c.maxMatchCount
         [] loader = "budget"        -> SharesFit(c)
         [] loader = "bootstrap"     -> Given(env, "defaultMaxMatches")
                                          => c.defaultMaxMatches <= c.hardMaxMatches
         [] OTHER                    -> TRUE

Loads(loader, env) ==
    IF loader = "collector" THEN CollectorAccepts(env)
    ELSE TableAccepts(Tables[loader], env) /\ CrossChecks(loader, env)

ApiLoaders ==
    {"playerRefresh", "championStats", "championAi", "playstyleAi", "dataDragon",
     "collector", "riot", "budget"}
WorkerLoaders ==
    {"ingestion", "timeline", "aggregation", "rank", "workerChampionAi",
     "workerPlaystyleAi", "riot"}

Processes == {"api", "worker", "expansion", "bootstrap", "staticSync", "aggregates"}

VARIABLES
    env,        \* the environment every process is started with
    config,     \* loader -> what it makes of the environment, or None when it throws
    player,     \* the schedule of one tracked player
    quiet,      \* refreshes in a row that found no new match (what happened, not the counter)
    last        \* the last thing a tool did: a plan made of a command line, or a pause

vars == <<env, config, player, quiet, last>>

LoadersOf(process) ==
    CASE process = "api"       -> ApiLoaders
      [] process = "worker"    ->
           WorkerLoaders \cup (IF config["riot"] # None /\ config["riot"].riotProviderMode = "real"
                               THEN {"budget"} ELSE {})
      [] process = "expansion" -> {"workerExpansion"}
      [] process = "bootstrap" -> {"bootstrap"} \cup ApiLoaders
      [] process = "staticSync" -> {"staticSync"}
      [] process = "aggregates" -> {"aggregateTool", "aggregation"}
Running(process) == \A l \in LoadersOf(process) : config[l] # None

(***************************************************************************)
(* The cadence of successful refreshes (collector-refresh-policy.ts).      *)
(***************************************************************************)
ClampInt(n, min, max) == IF n < min THEN min ELSE IF n > max THEN max ELSE n

ActivityTier(enqueuedNew, streak, c) ==
    IF enqueuedNew >= 1 THEN "HOT"
    ELSE IF streak >= c.coldAfterZeroNewRuns THEN "COLD" ELSE "WARM"

StreakAfter(enqueuedNew, streak, c) ==
    IF enqueuedNew >= 1 THEN 0
    ELSE IF streak + 1 < c.maxConsecutiveZeroNewMatchRuns
         THEN streak + 1 ELSE c.maxConsecutiveZeroNewMatchRuns

DelayOf(tier, c) ==
    CASE tier = "HOT"  -> c.hotRefreshIntervalMs
      [] tier = "WARM" -> c.warmRefreshIntervalMs
      [] tier = "COLD" -> c.coldRefreshIntervalMs
PriorityOf(tier, c) ==
    CASE tier = "HOT"  -> c.hotPriority
      [] tier = "WARM" -> c.warmPriority
      [] tier = "COLD" -> c.coldPriority

ScheduleAfter(enqueuedNew, streak, c) ==
    LET after == StreakAfter(enqueuedNew, streak, c)
        tier == ActivityTier(enqueuedNew, after, c)
    IN [streak |-> after, tier |-> tier, delay |-> DelayOf(tier, c),
        priority |-> ClampInt(PriorityOf(tier, c), c.priorityMin, c.priorityMax)]

Refresh(enqueuedNew) ==
    /\ Running("api") /\ last = None
    /\ quiet < QuietBound
    /\ player' = ScheduleAfter(enqueuedNew, player.streak, config["collector"])
    /\ quiet' = IF enqueuedNew >= 1 THEN 0 ELSE quiet + 1
    /\ UNCHANGED <<env, config, last>>

(***************************************************************************)
(* The pacing of batch loops (collector-riot-pressure.ts).                 *)
(***************************************************************************)
MinMeaningfulWait == 5 * Second
MaxSuggestedWait  == Minute
PaceKnobs ==
    [softLongSafetyMargin |-> Bounded(0, 50, 4),
     hardLongWindow       |-> Bounded(2, 100000, 85),
     softEnrichPending    |-> Bounded(0, 10000, 40),
     hardEnrichPending    |-> Bounded(1, 100000, 120),
     longSoftMinEnrichPending |-> Bounded(0, 10000, 1),
     softWaitMs     |-> Bounded(MinMeaningfulWait, MaxSuggestedWait, 15 * Second),
     hardWaitMs     |-> Bounded(MinMeaningfulWait, MaxSuggestedWait, 25 * Second),
     cooldownWaitMs |-> Bounded(MinMeaningfulWait, MaxSuggestedWait, 20 * Second)]

LeastOf(set) == CHOOSE n \in set : \A m \in set : n <= m
MostOf(set)  == CHOOSE n \in set : \A m \in set : m <= n

EffectiveWindowLimit(limit, utilization) == MostOf({1, (limit * utilization) \div 100})

SoftLongWindow(budget, pace) ==
    LET effective == EffectiveWindowLimit(budget.longLimit, budget.utilization)
    IN LeastOf({MostOf({1, effective - pace.softLongSafetyMargin}), effective,
                pace.hardLongWindow - 1})

PaceAccepts ==
    /\ config["budget"] # None
    /\ TableAccepts(PaceKnobs, env)
    /\ LET pace == ReadTable(PaceKnobs, env)
       IN /\ pace.softEnrichPending < pace.hardEnrichPending
          /\ SoftLongWindow(config["budget"], pace) < pace.hardLongWindow

WaitMs(fallback, suggested) ==
    IF suggested <= 0 THEN fallback
    ELSE LeastOf({MaxSuggestedWait, MostOf({MinMeaningfulWait, suggested})})

HardPressure(p, pace) ==
    p.enrich >= pace.hardEnrichPending \/ p.long >= pace.hardLongWindow
(* As it would be with the backlog test turned round. *)
IdleSoftPressure(p, pace, softLong) ==
    \/ p.enrich > pace.softEnrichPending
    \/ p.long > softLong /\ p.enrich <= pace.longSoftMinEnrichPending
SoftPressure(p, pace, softLong) ==
    \/ p.enrich > pace.softEnrichPending
    \/ p.long > softLong /\ p.enrich >= pace.longSoftMinEnrichPending

(* How long a loop that observes p waits before its next batch; 0: it      *)
(* goes on.                                                                *)
PressureWait(p) ==
    LET pace == ReadTable(PaceKnobs, env)
    IN IF p.cooldown THEN WaitMs(pace.cooldownWaitMs, p.suggested)
       ELSE IF HardPressure(p, pace) THEN WaitMs(pace.hardWaitMs, p.suggested)
       ELSE IF SoftPressure(p, pace, SoftLongWindow(config["budget"], pace))
            THEN WaitMs(pace.softWaitMs, p.suggested)
       ELSE 0

(* Tools keep nothing between two runs and share nothing with the cadence, *)
(* so a behaviour follows one run of one tool or the refreshes of a player. *)
Untouched == last = None /\ player.delay = 0
Pause(p) ==
    /\ Untouched
    /\ PaceAccepts
    /\ last' = [load |-> p, wait |-> PressureWait(p)]
    /\ UNCHANGED <<env, config, player, quiet>>

(***************************************************************************)
(* Command lines.  A flag is given with a raw value, or as a switch; help  *)
(* is answered before unknown flags are refused by the tools that have it. *)
(***************************************************************************)
Switches ==
    [seed |-> {"reactivate", "json"},       setStatus |-> {"force", "reset-failures", "json"},
     run |-> {"dry-run", "json"},           status |-> {"json", "help"},
     coverage |-> {"json", "help"},         audit |-> {"json", "help"},
     scheduler |-> {"help"},                schedulerTrigger |-> {"json", "help"},
     schedulerStatus |-> {"json", "help"},  ladder |-> {"dry-run", "json", "help"},
     bootstrap |-> {"dry-run", "json", "wait"}, staticSync |-> {"dry-run", "json"},
     aggregates |-> {"help", "json", "dry-run", "confirm", "include-all-platform",
                     "include-all-tiers-and-position", "include-all-regional-route",
                     "include-all-queue"},
     timelineBackfill |-> {"help", "dry-run", "include-ineligible"}]

Valued ==
    [seed |-> {"game-name", "tag-line", "platform", "file", "priority", "concurrency"},
     setStatus |-> {"tracked-player-id", "status"},
     run |-> {"sample-discovery", "platform", "queue", "batch-size", "concurrency",
              "max-matches", "max-match-ids", "max-enqueue"},
     status |-> {"platform", "queue"},      coverage |-> {"platform", "queue"},
     audit |-> {}, scheduler |-> {}, schedulerTrigger |-> {}, schedulerStatus |-> {},
     ladder |-> {"platform", "mode", "tiers", "division", "page", "max-pages-per-division"},
     bootstrap |-> {"game-name", "tag-line", "platform", "file", "queue", "max-matches",
                    "concurrency"},
     staticSync |-> {},
     aggregates |-> {"batch-size", "patch", "queue", "platform", "champion",
                     "aggregation-version", "source-normalization-version"},
     timelineBackfill |-> {"limit", "since"}]

Gives(args, flag) == flag \in DOMAIN args
Arg(args, flag) == IF Gives(args, flag) THEN args[flag] ELSE Unset

(* Number("  ") is 0, and no default is taken for it. *)
AsNumber(raw) == IF raw.kind = "blank" THEN Num(0) ELSE raw
FlagAccepts(rule, args, flag) == Gives(args, flag) => Accepts(rule, AsNumber(args[flag]))
FlagRead(rule, args, flag) == Read(rule, AsNumber(Arg(args, flag)))

(* The numbers a tool takes, with their bounds and defaults. *)
Numbers(tool) ==
    LET c == config["collector"]
        b == config["bootstrap"]
        a == config["aggregateTool"]
        none == [f \in {} |-> 0]
        queue == [f \in {"queue"} |-> QueueId(420)]
    IN CASE tool = "run" -> queue @@
              [f \in {"batch-size"} |-> Bounded(1, 50, c.batchSize)] @@
              [f \in {"concurrency"} |-> Bounded(1, 5, c.concurrency)] @@
              [f \in {"max-matches"} |-> Bounded(1, 100, c.matchesPerPlayer)] @@
              [f \in {"max-match-ids"} |-> Bounded(1, 1000, c.maxMatchIdsPerRun)] @@
              [f \in {"max-enqueue"} |-> Bounded(1, 1000, c.maxEnqueuePerRun)]
         [] tool \in {"status", "coverage"} -> queue
         [] tool = "seed" ->
              [f \in {"concurrency"} |-> Bounded(1, LeastOf({c.concurrency, 5}), 1)]
         [] tool = "bootstrap" ->
              [f \in {"queue"} |-> QueueId(b.bootstrapQueueId)] @@
              [f \in {"max-matches"} |-> Bounded(1, b.hardMaxMatches, b.defaultMaxMatches)] @@
              [f \in {"concurrency"} |-> Bounded(1, b.bootstrapMaxConcurrency, 1)]
         [] tool = "aggregates" ->
              [f \in {"batch-size"} |-> Positive(a.aggregationBatchSize)]
         [] OTHER -> none

PlatformIsAllowed(args) ==
    Gives(args, "platform") =>
        /\ IsWord(args["platform"])
        /\ args["platform"].s \in config["collector"].platformAllowlist

(* One player by name, or a file of them, and not both. *)
Identity == {"game-name", "tag-line", "platform"}
NamesTargets(args) ==
    /\ \A f \in Identity \cup {"file"} : Gives(args, f) => IsWord(args[f])
    /\ IF Gives(args, "file") THEN Identity \cap DOMAIN args = {}
       ELSE Identity \subseteq DOMAIN args /\ args["platform"].s \in Platforms

SeedFileMaxPlayers == 25
FileFits(tool, args, players) ==
    Gives(args, "file") =>
        players \in 1 .. (IF tool = "seed" THEN SeedFileMaxPlayers
                          ELSE config["bootstrap"].fileMaxPlayers)

Representative(args) == Gives(args, "mode") /\ args["mode"].s = "representative"
LadderTiers(args) ==
    IF Gives(args, "tiers") THEN args["tiers"].set
    ELSE IF Representative(args) THEN config["collector"].ladderRepresentativeTiers
    ELSE config["collector"].ladderTiers

(* As it would be without the special case. *)
MasterLikeAnother(args) == TRUE

(* Master is a long list: an apex seed reads it only when asked by name. *)
MasterIsNamed(args) ==
    ~Representative(args) /\ "MASTER" \in LadderTiers(args) => Gives(args, "tiers")

Pages == Bounded(1, config["collector"].ladderMaxPagesPerTierDivision, 1)
Divisions == {"I", "II", "III", "IV"}
DivisionIsValid(args) ==
    Gives(args, "division") => IsWord(args["division"]) /\ args["division"].s \in Divisions
PagesAreBounded(args) ==
    IF Representative(args)
    THEN /\ Gives(args, "page") # Gives(args, "max-pages-per-division")
         /\ Gives(args, "page") => Gives(args, "division")
         /\ FlagAccepts(Pages, args, "page")
         /\ FlagAccepts(Pages, args, "max-pages-per-division")
         /\ DivisionIsValid(args)
    ELSE {"division", "page", "max-pages-per-division"} \cap DOMAIN args = {}

LadderAccepts(args) ==
    LET c == config["collector"]
        allowed == IF Representative(args) THEN RepresentativeTiers ELSE ApexTiers
    IN /\ Gives(args, "platform") /\ PlatformIsAllowed(args)
       /\ c.ladderPlatform = "none" \/ args["platform"].s = c.ladderPlatform
       /\ Accepts(Choice("apex", {"apex", "representative"}), Arg(args, "mode"))
       /\ Gives(args, "tiers") => Accepts(Some({}, allowed), args["tiers"])
       /\ MasterIsNamed(args)
       /\ PagesAreBounded(args)

AsksHelp(tool, args) == "help" \in Switches[tool] /\ Gives(args, "help")
(* The worker's tools parse every flag even when help is asked. *)
HelpComesFirst(tool) == tool \notin {"aggregates", "timelineBackfill"}

FlagsAreKnown(tool, args) ==
    /\ DOMAIN args \subseteq Switches[tool] \cup Valued[tool]
    /\ \A f \in DOMAIN args \cap Valued[tool] : args[f].kind \notin {"missing", "switch"}

StatusValues == {"ACTIVE", "PAUSED", "SUSPENDED"}

SeedAccepts(args, players) ==
    /\ NamesTargets(args) /\ FileFits("seed", args, players)
    /\ Gives(args, "file") \/ FlagAccepts(Bounded(-AnyInt, AnyInt, 0), args, "priority")

SetStatusAccepts(args) ==
    /\ {"tracked-player-id", "status"} \subseteq DOMAIN args
    /\ args["status"].s \in StatusValues

RunAccepts(args) ==
    /\ PlatformIsAllowed(args)
    /\ FlagAccepts(Bounded(1, 50, 1), args, "sample-discovery")
    /\ Gives(args, "sample-discovery") => Gives(args, "dry-run")

BootstrapAccepts(args, players) == NamesTargets(args) /\ FileFits("bootstrap", args, players)

AggregatesAccept(args) ==
    \A f \in {"queue", "champion"} : FlagAccepts(Positive(1), args, f)

TimelineBackfillAccepts(args) ==
    /\ Gives(args, "limit") \/ Gives(args, "help")
    /\ FlagAccepts(Bounded(1, 500, 1), args, "limit")
    /\ Gives(args, "since") => IsWord(args["since"])

ToolAccepts(tool, args, players) ==
    CASE tool = "seed"       -> SeedAccepts(args, players)
      [] tool = "setStatus"  -> SetStatusAccepts(args)
      [] tool = "run"        -> RunAccepts(args)
      [] tool \in {"status", "coverage"} -> PlatformIsAllowed(args)
      [] tool = "ladder"     -> LadderAccepts(args)
      [] tool = "bootstrap"  -> BootstrapAccepts(args, players)
      [] tool = "aggregates" -> AggregatesAccept(args)
      [] tool = "timelineBackfill" -> TimelineBackfillAccepts(args)
      [] OTHER -> TRUE

ArgsAccepted(tool, args, players) ==
    \/ HelpComesFirst(tool) /\ AsksHelp(tool, args)
    \/ /\ FlagsAreKnown(tool, args)
       /\ \A f \in DOMAIN Numbers(tool) : FlagAccepts(Numbers(tool)[f], args, f)
       /\ ToolAccepts(tool, args, players)

(* The process a tool needs: the collector's tools load its table, parse   *)
(* their flags and then boot the API's modules.                            *)
HostOf(tool) ==
    CASE tool = "bootstrap"        -> "bootstrap"
      [] tool = "staticSync"       -> "staticSync"
      [] tool = "aggregates"       -> "aggregates"
      [] tool = "timelineBackfill" -> "worker"
      [] OTHER                     -> "api"

(* Every rebuild that changes rows asks for a confirmation, by flag or by  *)
(* environment.                                                            *)
Confirmed(tool, args) ==
    /\ tool = "aggregates"
    /\ Gives(args, "confirm") \/ config["aggregateTool"].rebuildConfirmed = "YES"

PlanOf(tool, args, players) ==
    [help      |-> AsksHelp(tool, args),
     numbers   |-> [f \in DOMAIN Numbers(tool) |-> FlagRead(Numbers(tool)[f], args, f)],
     switches  |-> DOMAIN args \cap Switches[tool],
     tiers     |-> IF tool = "ladder" THEN LadderTiers(args) ELSE {},
     pages     |-> IF tool # "ladder" \/ ~Representative(args) THEN {}
                   ELSE IF Gives(args, "page") THEN {args["page"].n}
                   ELSE 1 .. args["max-pages-per-division"].n,
     confirmed |-> Confirmed(tool, args)]

Refused == [refused |-> TRUE]
HelpOnly == [help |-> TRUE]

Command(line) ==
    LET tool == line.tool
        outcome ==
          IF ~Running(HostOf(tool)) \/ ~ArgsAccepted(tool, line.args, line.players)
          THEN Refused
          ELSE IF AsksHelp(tool, line.args) THEN HelpOnly
          ELSE PlanOf(tool, line.args, line.players)
    IN /\ Untouched
       /\ last' = [line |-> line, outcome |-> outcome]
       /\ UNCHANGED <<env, config, player, quiet>>

Init ==
    /\ env \in Environments
    /\ config = [l \in Loaders |-> IF Loads(l, env) THEN Config(l, env) ELSE None]
    /\ player = [streak |-> 0, tier |-> "HOT", delay |-> 0, priority |-> 0]
    /\ quiet = 0
    /\ last = None

Next ==
    \/ \E n \in {0, 1} : Refresh(n)
    \/ \E p \in Pressures : Pause(p)
    \/ \E line \in Commands : Command(line)

Spec == Init /\ [][Next]_vars

-----------------------------------------------------------------------------
(* Every loader throws or gives a value for each of its knobs, and a       *)
(* schedule is one of the tiers.                                           *)
TypeOK ==
    /\ DOMAIN config = Loaders
    /\ \A l \in Loaders : config[l] = None \/ DOMAIN config[l] = DOMAIN Tables[l]
    /\ player.tier \in {"HOT", "WARM", "COLD"}
    /\ player.streak \in Nat /\ quiet \in 0 .. QuietBound

(* Two processes deployed with one environment work with the same value of *)
(* every variable they share, although each has a parser and a default of  *)
(* its own: the same queue names and attempts, aggregation versions,       *)
(* expansion caps, timeouts and shared cooldown.  The one exception is a   *)
(* timeline queue name with white space around it, which the API does not  *)
(* trim.                                                                   *)
ProcessesAgree ==
    \A p, q \in Processes : Running(p) /\ Running(q) =>
        \A l \in LoadersOf(p), m \in LoadersOf(q) :
            \A k \in DOMAIN config[l] \cap DOMAIN config[m] :
                \/ config[l][k] = config[m][k]
                \/ k = "timelineQueueName" /\ NotTrimmed \in {config[l][k], config[m][k]}

(* The cadence follows what the refreshes really found, whatever the caps  *)
(* on its counter: a player whose last refresh found a match is HOT, one   *)
(* that was quiet for as long as the threshold is COLD and not before, and *)
(* a quieter player never gets a shorter delay or a higher priority than   *)
(* its schedule had.                                                       *)
CadenceFollowsActivity ==
    player.delay > 0 =>
        LET c == config["collector"]
        IN /\ player.tier = "HOT" <=> quiet = 0
           /\ player.tier = "COLD" <=> quiet >= c.coldAfterZeroNewRuns
           /\ \A enqueuedNew \in {0, 1} :
                LET next == ScheduleAfter(enqueuedNew, player.streak, c)
                IN enqueuedNew = 0 => next.delay >= player.delay
                                      /\ next.priority <= player.priority

(* A pacing loop never reads more pressure as less: whenever it waits, it  *)
(* waits under any heavier load too; and every wait is long enough not to  *)
(* spin and short enough to look again.  An empty enrichment backlog does  *)
(* not stop it below the hard long-window threshold unless the cooldown    *)
(* does or the operator set the threshold for soft waits to nothing.       *)
Heavier(p, q) ==
    /\ q.cooldown => p.cooldown
    /\ p.long >= q.long /\ p.enrich >= q.enrich /\ p.suggested = q.suggested
PacingIsMonotone ==
    last # None /\ "wait" \in DOMAIN last =>
        /\ last.wait # 0 => last.wait \in MinMeaningfulWait .. MaxSuggestedWait
        /\ \A p \in Pressures :
              Heavier(p, last.load) /\ last.wait # 0 => PressureWait(p) # 0
        /\ LET pace == ReadTable(PaceKnobs, env)
           IN /\ last.load.enrich = 0 /\ ~last.load.cooldown
              /\ last.load.long < pace.hardLongWindow /\ pace.longSoftMinEnrichPending > 0
              => last.wait = 0

IsPlan == last # None /\ "line" \in DOMAIN last /\ "numbers" \in DOMAIN last.outcome

(* A flag left out means the same as its default written out: the default  *)
(* is a value the flag accepts.  (The bootstrap's number of matches is the *)
(* exception, when only its hard maximum is configured.)                   *)
DefaultsCanBeWritten ==
    IsPlan =>
        LET tool == last.line.tool
            written == [f \in DOMAIN last.outcome.numbers |-> Num(last.outcome.numbers[f])]
            args == last.line.args @@ written
        IN \/ /\ tool = "bootstrap" /\ ~Given(env, "defaultMaxMatches")
              /\ Given(env, "hardMaxMatches")
           \/ /\ ArgsAccepted(tool, args, last.line.players)
              /\ PlanOf(tool, args, last.line.players) = last.outcome

(* A ladder seed reads the long Master list, or more than the configured   *)
(* pages, only when the command line says so.                              *)
LadderPlansAreAsked ==
    IsPlan /\ last.line.tool = "ladder" =>
        LET args == last.line.args
            c == config["collector"]
        IN /\ "MASTER" \in last.outcome.tiers =>
                Gives(args, "tiers") /\ "MASTER" \in args["tiers"].set
           /\ last.outcome.pages \subseteq 1 .. c.ladderMaxPagesPerTierDivision
           /\ last.outcome.pages = {} => last.outcome.tiers \subseteq ApexTiers
           /\ args["platform"].s \in c.platformAllowlist

(* The policies the configuration drives do what their names say. *)
PoliciesHold ==
    CadenceFollowsActivity /\ PacingIsMonotone /\ DefaultsCanBeWritten /\ LadderPlansAreAsked

=============================================================================
