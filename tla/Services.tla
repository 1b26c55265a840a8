------------------------------ MODULE Services ------------------------------
(***************************************************************************)
(* The services that share no state with each other: caches, pages,        *)
(* queues, reports and commands.  A behaviour is of one part, chosen at    *)
(* the start, and only the variables of that part change in it.            *)
(***************************************************************************)
EXTENDS ServiceParts

CONSTANTS MathMatch, MathMinute, MathFloor,
          ViewGames,
          ChampionInputs, ChampionChampion, ChampionMaxRepairAttempts,
          PlaystyleWindows, PlaystyleExploratoryMin,
          PlaystyleMaxRepairAttempts,
          SettingsEnvironments, SettingsCommands, SettingsPressures,
          SettingsQuietBound,
          ReportsDatabases, ReportsRuns, ReportsPlayers, ReportsConfig,
          ReportsFinalizedLimit, ReportsMaxChanges, ReportsMaxTime,
          SeedPlayers, SeedPages, SeedInputs, SeedConfig, SeedMaxElsewhere

vars == <<part, x1, x2, x3, x4, x5, x6, x7, x8, x9, x10, x11, x12, x13, x14,
                x15, x16>>

(***************************************************************************)
(* The other parts.                                                        *)
(***************************************************************************)
Math == INSTANCE MatchupMath WITH Match <- MathMatch, Minute <- MathMinute,
    Floor <- MathFloor, page <- x1, matchups <- x2, champions <- x3
View == INSTANCE MatchView WITH Games <- ViewGames, game <- x1, product <- x2,
    stored <- x3, metrics <- x4, page <- x5
Champion == INSTANCE ChampionInsight WITH Inputs <- ChampionInputs,
    Champion <- ChampionChampion,
    MaxRepairAttempts <- ChampionMaxRepairAttempts, input <- x1,
    context <- x2, call <- x3, said <- x4, result <- x5
Playstyle == INSTANCE PlaystyleInsight WITH Windows <- PlaystyleWindows,
    ExploratoryMin <- PlaystyleExploratoryMin,
    MaxRepairAttempts <- PlaystyleMaxRepairAttempts, window <- x1,
    context <- x2, call <- x3, said <- x4, result <- x5
Settings == INSTANCE Configuration WITH Environments <- SettingsEnvironments,
    Commands <- SettingsCommands, Pressures <- SettingsPressures,
    QuietBound <- SettingsQuietBound, env <- x1, config <- x2, player <- x3,
    quiet <- x4, last <- x5
Reports == INSTANCE CollectorReports WITH Databases <- ReportsDatabases,
    Runs <- ReportsRuns, Players <- ReportsPlayers, Config <- ReportsConfig,
    FinalizedLimit <- ReportsFinalizedLimit, MaxChanges <- ReportsMaxChanges,
    MaxTime <- ReportsMaxTime, db <- x1, clock <- x2, changes <- x3,
    job <- x4, done <- x5
Seed == INSTANCE LadderSeed WITH Players <- SeedPlayers, Pages <- SeedPages,
    Inputs <- SeedInputs, Config <- SeedConfig,
    MaxElsewhere <- SeedMaxElsewhere, accounts <- x1, tracked <- x2,
    depth <- x3, total <- x4, ladder <- x5, cooldown <- x6, elsewhere <- x7,
    run <- x8

Parts == {"cache", "names", "refresh", "history", "rebuild", "math", "ranks",
          "timeline", "view", "detail", "directory", "player", "match",
          "insight", "champion", "playstyle", "settings", "reports", "seed",
          "static"}
Rest3 == <<part, x4, x5, x6, x7, x8, x9, x10, x11, x12, x13, x14, x15, x16>>
Rest4 == <<part, x5, x6, x7, x8, x9, x10, x11, x12, x13, x14, x15, x16>>
Rest5 == <<part, x6, x7, x8, x9, x10, x11, x12, x13, x14, x15, x16>>
Rest6 == <<part, x7, x8, x9, x10, x11, x12, x13, x14, x15, x16>>
Rest8 == <<part, x9, x10, x11, x12, x13, x14, x15, x16>>
Rest9 == <<part, x10, x11, x12, x13, x14, x15, x16>>
Rest10 == <<part, x11, x12, x13, x14, x15, x16>>
Rest11 == <<part, x12, x13, x14, x15, x16>>
Rest12 == <<part, x13, x14, x15, x16>>
Rest15 == <<part, x16>>
Rest16 == <<part>>
Unused16 == TRUE
Unused15 == x16 = None
Unused14 == x15 = None /\ Unused15
Unused13 == x14 = None /\ Unused14
Unused12 == x13 = None /\ Unused13
Unused11 == x12 = None /\ Unused12
Unused10 == x11 = None /\ Unused11
Unused9 == x10 = None /\ Unused10
Unused8 == x9 = None /\ Unused9
Unused7 == x8 = None /\ Unused8
Unused6 == x7 = None /\ Unused7
Unused5 == x6 = None /\ Unused6
Unused4 == x5 = None /\ Unused5
Unused3 == x4 = None /\ Unused4

ASSUME ServicesAssumption ==
    /\ Cache!ConstantsAssumption /\ Cache!AskedAssumption /\ Names!ConstantsAssumption
    /\ Refresh!ConstantsAssumption /\ Timeline!ConstantsAssumption
    /\ Detail!ConstantsAssumption /\ Directory!ConstantsAssumption /\ Page!ConstantsAssumption
    /\ History!ConstantsAssumption /\ Rebuild!ConstantsAssumption /\ Math!ConstantsAssumption
    /\ Ranks!ConstantsAssumption /\ Static!ConstantsAssumption

Init ==
    \/ part = "cache" /\ Cache!Init /\ Unused9
    \/ part = "names" /\ Names!Init /\ Unused8
    \/ part = "refresh" /\ Refresh!Init /\ Unused11
    \/ part = "history" /\ History!Init /\ Unused4
    \/ part = "rebuild" /\ Rebuild!Init /\ Unused12
    \/ part = "math" /\ Math!Init /\ Unused3
    \/ part = "ranks" /\ Ranks!Init /\ Unused9
    \/ part = "timeline" /\ Timeline!Init /\ Unused10
    \/ part = "view" /\ View!Init /\ Unused5
    \/ part = "detail" /\ Detail!Init /\ Unused15
    \/ part = "directory" /\ Directory!Init /\ Unused9
    \/ part = "player" /\ Player!Init /\ Unused16
    \/ part = "match" /\ Page!Init /\ Unused8
    \/ part = "insight" /\ Insight!Init /\ Unused6
    \/ part = "champion" /\ Champion!Init /\ Unused5
    \/ part = "playstyle" /\ Playstyle!Init /\ Unused5
    \/ part = "settings" /\ Settings!Init /\ Unused5
    \/ part = "reports" /\ Reports!Init /\ Unused5
    \/ part = "seed" /\ Seed!Init /\ Unused8
    \/ part = "static" /\ Static!Init /\ Unused4

Next ==
    \/ part = "cache" /\ Cache!Next /\ UNCHANGED Rest9
    \/ part = "names" /\ Names!Next /\ UNCHANGED Rest8
    \/ part = "refresh" /\ Refresh!Next /\ UNCHANGED Rest11
    \/ part = "history" /\ History!Next /\ UNCHANGED Rest4
    \/ part = "rebuild" /\ Rebuild!Next /\ UNCHANGED Rest12
    \/ part = "math" /\ Math!Next /\ UNCHANGED Rest3
    \/ part = "ranks" /\ Ranks!Next /\ UNCHANGED Rest9
    \/ part = "timeline" /\ Timeline!Next /\ UNCHANGED Rest10
    \/ part = "view" /\ View!Next /\ UNCHANGED Rest5
    \/ part = "detail" /\ Detail!Next /\ UNCHANGED Rest15
    \/ part = "directory" /\ Directory!Next /\ UNCHANGED Rest9
    \/ part = "player" /\ Player!Next /\ UNCHANGED Rest16
    \/ part = "match" /\ Page!Next /\ UNCHANGED Rest8
    \/ part = "insight" /\ Insight!Next /\ UNCHANGED Rest6
    \/ part = "champion" /\ Champion!Next /\ UNCHANGED Rest5
    \/ part = "playstyle" /\ Playstyle!Next /\ UNCHANGED Rest5
    \/ part = "settings" /\ Settings!Next /\ UNCHANGED Rest5
    \/ part = "reports" /\ Reports!Next /\ UNCHANGED Rest5
    \/ part = "seed" /\ Seed!Next /\ UNCHANGED Rest8
    \/ part = "static" /\ Static!Next /\ UNCHANGED Rest4

Spec == Init /\ [][Next]_vars

(* Each part keeps its variables in range.                                 *)
TypeOK ==
    /\ part \in Parts
    /\ part = "cache" => Cache!TypeOK
    /\ part = "names" => Names!TypeOK
    /\ part = "refresh" => Refresh!TypeOK
    /\ part = "history" => History!TypeOK
    /\ part = "rebuild" => Rebuild!TypeOK
    /\ part = "math" => Math!TypeOK
    /\ part = "ranks" => Ranks!TypeOK
    /\ part = "timeline" => Timeline!TypeOK
    /\ part = "detail" => Detail!TypeOK
    /\ part = "directory" => Directory!TypeOK
    /\ part = "player" => Player!TypeOK
    /\ part = "match" => Page!TypeOK
    /\ part = "insight" => Insight!TypeOK
    /\ part = "champion" => Champion!TypeOK
    /\ part = "playstyle" => Playstyle!TypeOK
    /\ part = "settings" => Settings!TypeOK
    /\ part = "reports" => Reports!TypeOK
    /\ part = "seed" => Seed!TypeOK
    /\ part = "static" => Static!TypeOK

(***************************************************************************)
(* The properties of the parts.                                            *)
(***************************************************************************)
(* Readers miss nothing they were promised: a statistics response is not   *)
(* older than the last INCR before its generation was read, names are      *)
(* younger than their time to live or were fetched after they were asked   *)
(* for, and walking the pages of a history meets each row that was there   *)
(* when the walk began.                                                    *)
ReadersMissNothing ==
    /\ part = "cache" => Cache!ResponsesAreCurrent
    /\ part = "names" => Names!NamesAreYoung
    /\ part = "history" => History!WalksMissNothing

(* A refresh that is reported complete has its matches linked, and two     *)
(* refreshes of one player run together only after one outlived its lock.  *)
RefreshesAreHonest ==
    part = "refresh" => Refresh!CompleteIsHonest /\ Refresh!RefreshesExcludeEachOther

(* Stored rows agree with what they are made from: a rebuild that says it  *)
(* is complete left the rows of the matches, and a timeline marked as      *)
(* stored has its events and frames.                                       *)
StoredRowsAreTrue ==
    /\ part = "rebuild" => Rebuild!RebuiltRowsAreTrue
    /\ part = "timeline" => Timeline!TimelinesAreWhole

(* A stored timeline is given up only to a new ingestion of its match.     *)
StoredTimelinesStay ==
    [][part = "timeline" => Timeline!TimelineStays]_vars

(* Figures that are computed along two ways agree: a matchup and its       *)
(* mirror, a rollup and its parts, and what the match page derives with    *)
(* what the worker stored.                                                 *)
FiguresAgree ==
    /\ part = "math" => Math!MatchupsMirror /\ Math!RollupsAddUp
    /\ part = "view" => View!PagesAgree

(* What was promised is pursued: an unresolved rank row has a job or a     *)
(* reason, an answer is used again while it is fresh and the pages of a    *)
(* backfill leave no hole, a pending insight has a job, and a page whose   *)
(* playstyle is pending asks again.                                        *)
PromisesArePursued ==
    /\ part = "ranks" =>
          Ranks!RowsArePursued /\ Ranks!AnswersAreReused /\ Ranks!PagesHaveNoHoles
    /\ part = "insight" => Insight!PendingIsPursued
    /\ part = "player" => Player!PlaystyleIsPursued

(* A page at rest shows one thing: what its address and its filters ask.   *)
SettledPagesAreConsistent ==
    /\ part = "detail" => Detail!SettledPageIsConsistent
    /\ part = "directory" => Directory!SettledDirectoryIsConsistent
    /\ part = "match" => Page!SettledMatchIsConsistent

(* A text of the model is published only when each of its statements is    *)
(* supported by the numbers it was given.                                  *)
TextsAreSupported ==
    /\ part = "champion" => Champion!InsightsAreSupported
    /\ part = "playstyle" => Playstyle!PlaystylesAreSupported

(* An environment that the processes accept means the same to all of them, *)
(* and what they derive from it keeps within its limits.                   *)
SettingsHold ==
    part = "settings" => Settings!ProcessesAgree /\ Settings!PoliciesHold

(* What an operator is told is true: the findings of an audit, the sums of *)
(* a report and the counters of a ladder seeding.                          *)
ReportsAreTrue ==
    /\ part = "reports" => Reports!AuditIsExact /\ Reports!ReportsAddUp
    /\ part = "seed" => Seed!SeedTellsTheTruth

(* The static data that readers take is whole, one patch is active after a *)
(* sync that none overlapped, and a sync reports what it did.              *)
StaticDataIsSound == part = "static" => Static!StaticDataIsSound

=============================================================================
