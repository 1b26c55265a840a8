------------------------- MODULE ServiceInvariants -------------------------
(***************************************************************************)
(* The inductive invariants of the parts, for ServicePartsProofs and       *)
(* ServicesProofs.  The names of what is said about a part, and of its     *)
(* variables, begin with the name of the part.                             *)
(***************************************************************************)
EXTENDS ServiceParts, FiniteSets, Sequences

-----------------------------------------------------------------------------
(***************************************************************************)
(* The cache of the champion statistics.                                   *)
(***************************************************************************)
cacheData == x1
cacheGeneration == x2
cacheBumped == x3
cacheOwed == x4
cachePages == x5
cacheRequest == x6
cacheAsked == x7
cacheRewrites == x8
cacheRedisFaults == x9

-----------------------------------------------------------------------------
(***************************************************************************)
(* The names of the champions.                                             *)
(***************************************************************************)
namesNow == x1
namesPublished == x2
namesRedis == x3
namesMemory == x4
namesInflight == x5
namesRefresh == x6
namesLoads == x7
namesServed == x8

(***************************************************************************)
(* The inductive invariant: a list that is live in memory expires a time   *)
(* to live after it was fetched, not after it was put there, and a load    *)
(* stores what it fetched after it began, whenever its callers asked.      *)
(***************************************************************************)
NamesVersion == Nat \cup {None}
NamesStored == [version : NamesVersion, fetchedAt : Int, writtenAt : Int]
NamesList == [version : NamesVersion, fetchedAt : Int, expiresAt : Int]
NamesLoad == [stage : {"redis", "delete", "version", "file", "store", "keep"}, began : Int, asked : Int,
         version : NamesVersion, fetchedAt : Int \cup {None}]
NamesServed == [version : NamesVersion, fetchedAt : Int, began : Int, asked : Int, at : Int]

NamesTypes ==
  /\ namesNow \in Int /\ namesPublished \in Nat
  /\ namesRedis \in NamesStored \cup {None}
  /\ namesMemory \in [NamesProcesses -> NamesList \cup {None}]
  /\ namesInflight \in [NamesProcesses -> NamesLoad \cup {None}]
  /\ namesRefresh \in [NamesProcesses -> NamesLoad \cup {None}]
  /\ namesServed \in [NamesProcesses -> NamesServed \cup {None}]
NamesExpires(list) == list.expiresAt = list.fetchedAt + NamesTtl \/ list.expiresAt <= namesNow
NamesListsExpire == \A p \in NamesProcesses : namesMemory[p] # None => NamesExpires(namesMemory[p])
NamesFetched(load) ==
  /\ load.began <= load.asked /\ load.asked <= namesNow
  /\ load.stage \in {"store", "keep"} =>
        load.fetchedAt \in Int /\ load.began <= load.fetchedAt
NamesLoadsFetch ==
  \A p \in NamesProcesses : /\ namesInflight[p] # None => NamesFetched(namesInflight[p])
                            /\ namesRefresh[p] # None => NamesFetched(namesRefresh[p])
NamesServedAreYoung ==
  \A p \in NamesProcesses : namesServed[p] # None =>
     /\ namesServed[p].began <= namesServed[p].asked
     /\ \/ namesServed[p].at - namesServed[p].fetchedAt < NamesTtl
        \/ namesServed[p].fetchedAt >= namesServed[p].began

NamesIInv == NamesTypes /\ NamesListsExpire /\ NamesLoadsFetch /\ NamesServedAreYoung

-----------------------------------------------------------------------------
(***************************************************************************)
(* Refreshing a player.                                                    *)
(***************************************************************************)
refreshWork == x1
refreshMeta == x2
refreshLock == x3
refreshCooldown == x4
refreshProfile == x5
refreshRequest == x6
refreshRecorded == x7
refreshOverran == x8
refreshSearched == x9
refreshRequests == x10
refreshRefreshFaults == x11

(***************************************************************************)
(* The inductive invariant.                                                *)
(***************************************************************************)
RefreshAnswerState == {None, "REFRESH_COOLDOWN", "REFRESH_IN_PROGRESS", "ERROR", "STALE", "IDLE",
                "RATE_LIMITED", "PARTIAL", "PROCESSING", "COMPLETE", "FAILED"}
RefreshAnswerType == [state : RefreshAnswerState, list : SUBSET RefreshMatch]
RefreshRequestType ==
  [kind : Refresh!Kind \cup {None}, step : Refresh!Step, own : SUBSET RefreshMatch, seen : SUBSET RefreshMatch,
   linked : SUBSET RefreshMatch, durable : UNION {[S -> {Refresh!Durable(stage) : stage \in Refresh!Stage}] : S \in SUBSET RefreshMatch},
   limited : BOOLEAN, answer : RefreshAnswerType]

RefreshTypes ==
  /\ refreshWork \in [RefreshMatch -> Refresh!Stage] /\ refreshRequest \in [RefreshClient -> RefreshRequestType]
  /\ refreshMeta \in SUBSET RefreshMatch /\ refreshRecorded \in SUBSET RefreshMatch
  /\ refreshLock \in RefreshClient \cup {None} /\ refreshProfile \in {None} \cup RefreshAnswerType
  /\ refreshCooldown \in BOOLEAN /\ refreshOverran \in BOOLEAN /\ refreshSearched \in BOOLEAN
  /\ refreshRequests \in 0..RefreshMaxRequests /\ refreshRefreshFaults \in 0..RefreshMaxFaults

\* Lists come from one answer of the provider.
RefreshListsAreFinite ==
  IsFiniteSet(refreshMeta) /\ \A c \in RefreshClient : IsFiniteSet(refreshRequest[c].own) /\ IsFiniteSet(refreshRequest[c].seen)

\* Only a refresh takes the steps of the lock and of the meta value's times,
\* only a refresh or a search records a list.
RefreshSteps == {"cooldown", "lock", "startedRead", "startedWrite", "invalidate", "completedRead",
                 "completedWrite", "setCooldown", "release"}
RefreshKindsKeepToTheirSteps ==
  \A c \in RefreshClient :
    /\ refreshRequest[c].step \in RefreshSteps => refreshRequest[c].kind = "refresh"
    /\ refreshRequest[c].step \in {"resolve", "sync", "enqueue", "discoveredRead", "discoveredWrite"} =>
         refreshRequest[c].kind \in {"refresh", "search"}
    /\ refreshRequest[c].kind = "search" => refreshSearched

\* What was found linked is of the list, and stays linked.
RefreshLinkedIsLinked ==
  \A c \in RefreshClient : refreshRequest[c].step \in {"durable", "bull"} =>
    refreshRequest[c].linked \subseteq {m \in Refresh!List(c) : refreshWork[m] = "linked"}

RefreshHonest(answer) ==
  answer.state = "COMPLETE" =>
    answer.list # {} /\ \A m \in answer.list : refreshWork[m] = "linked"
RefreshAnswersAreHonest ==
  /\ refreshProfile # None => RefreshHonest(refreshProfile)
  /\ \A c \in RefreshClient : RefreshHonest(refreshRequest[c].answer)

\* Until a lock expires under its refresh, who refreshes holds it.
RefreshHoldsLock == ~refreshOverran => \A c \in RefreshClient : Refresh!InRefresh(c) => refreshLock = c

\* Undisturbed, what was read of the meta value is what it still is.
RefreshMetaIsRecorded ==
  ~refreshOverran /\ ~refreshSearched /\ refreshRefreshFaults = 0 =>
    /\ refreshMeta = refreshRecorded
    /\ \A c \in RefreshClient : refreshRequest[c].step \in {"startedWrite", "completedWrite"} => refreshRequest[c].seen = refreshMeta

RefreshIInv == /\ RefreshTypes /\ RefreshListsAreFinite /\ RefreshKindsKeepToTheirSteps /\ RefreshLinkedIsLinked
               /\ RefreshAnswersAreHonest /\ RefreshHoldsLock /\ RefreshMetaIsRecorded

Refreshing(r) == r.kind = "refresh" /\ r.step \notin {"idle", "cooldown", "lock", "done"}
RefreshListOf(r) == IF r.own # {} THEN r.own ELSE r.seen
RefreshFitsItsKind(r, search) ==
  /\ r.step \in RefreshSteps => r.kind = "refresh"
  /\ r.step \in {"resolve", "sync", "enqueue", "discoveredRead", "discoveredWrite"} =>
       r.kind \in {"refresh", "search"}
  /\ r.kind = "search" => search
RefreshAboutToWriteBack(r) == r.step \in {"startedWrite", "completedWrite"}

-----------------------------------------------------------------------------
(***************************************************************************)
(* The timelines of the matches.                                           *)
(***************************************************************************)
timelineStatus == x1
timelineLinked == x2
timelineTimeline == x3
timelineEvents == x4
timelineFrames == x5
timelineIngestion == x6
timelineJob == x7
timelineWork == x8
timelineCall == x9
timelineDisturbed == x10

-----------------------------------------------------------------------------
(***************************************************************************)
(* The histories of a player.                                              *)
(***************************************************************************)
historyRows == x1
historyTime == x2
historyWriting == x3
historyWalk == x4

(***************************************************************************)
(* The inductive invariant.  Between two pages the rows that a walk still  *)
(* owes its reader are below its cursor.                                   *)
(***************************************************************************)
HistoryRow == [at : Nat, id : Nat, group : HistoryQueue, value : HistoryValue]
\* Rows of a table are told apart by their ids, so that listing them has one order.
HistoryListable(S) == S \subseteq HistoryRow /\ IsFiniteSet(S) /\ \A r, s \in S : r.id = s.id => r = s
HistoryWalkType == [step : {"idle", "walking", "done"}, table : History!Table \cup {None}, filter : SUBSET HistoryQueue,
             cursor : HistoryRow \cup {None}, seen : Seq(HistoryRow), due : SUBSET HistoryRow]
HistoryOwed(w) == {row \in w.due : \A i \in 1..Len(w.seen) : w.seen[i] # row}
HistoryTypes ==
  /\ historyRows \in [History!Table -> SUBSET HistoryRow] /\ \A t \in History!Table : HistoryListable(historyRows[t])
  /\ historyTime \in Nat
  /\ \A w \in HistoryWriter : historyWriting[w].step = "insert" =>
       historyWriting[w].table \in History!Table /\ historyWriting[w].group \in HistoryQueue /\ historyWriting[w].value \in HistoryValue
  /\ historyWalk \in [HistoryReader -> HistoryWalkType]
HistoryFollowsRows(w, there) ==
  /\ \A i \in 1..Len(w.seen) - 1 : History!Before(w.seen[i], w.seen[i + 1])
  /\ w.step = "walking" =>
       /\ w.table \in History!Table
       /\ w.cursor = IF w.seen = <<>> THEN None ELSE w.seen[Len(w.seen)]
       /\ \A row \in w.due : row \in there[w.table] /\ row.group \in w.filter
       /\ \A row \in HistoryOwed(w) : History!BelowCursor(row, w.cursor)
  /\ w.step = "done" => HistoryOwed(w) = {}
HistoryIInv == HistoryTypes /\ \A r \in HistoryReader : HistoryFollowsRows(historyWalk[r], historyRows)

\* The rows below the cursor, whether they need more than one page, the rows
\* on the page and their number.
HistoryBelow(table, filter, cursor) == {row \in historyRows[table] : row.group \in filter /\ History!BelowCursor(row, cursor)}
HistoryMore(table, filter, cursor) == Len(History!ListHistory(table, filter, cursor, HistoryPageLimit + 1)) > HistoryPageLimit
HistoryItems(table, filter, cursor) ==
  LET list == History!ListHistory(table, filter, cursor, HistoryPageLimit + 1)
  IN IF HistoryMore(table, filter, cursor) THEN SubSeq(list, 1, HistoryPageLimit) ELSE list
HistoryLength(table, filter, cursor) ==
  IF HistoryMore(table, filter, cursor) THEN HistoryPageLimit ELSE Cardinality(HistoryBelow(table, filter, cursor))

-----------------------------------------------------------------------------
(***************************************************************************)
(* The rebuilds of the aggregates.                                         *)
(***************************************************************************)
rebuildContent == x1
rebuildRows == x2
rebuildMarker == x3
rebuildScopes == x4
rebuildWork == x5
rebuildJob == x6
rebuildQuiet == x7
rebuildTorn == x8
rebuildBefore == x9
rebuildRebuilds == x10
rebuildChanges == x11
rebuildRebuildFaults == x12

(***************************************************************************)
(* The inductive invariant: while no match changes, what the command has   *)
(* worked off already is as the matches say, what it holds in memory is    *)
(* what it will write, and the rest is as it was or as the matches say, or *)
(* a gap that a run of the worker has torn.  The runs whose figures are    *)
(* not from before a change hold what the matches say.                     *)
(***************************************************************************)
\* What a table shows for a key: no row counts no match.
RebuildShow(table, key) == IF key \in DOMAIN table THEN table[key] ELSE {}
RebuildPaged == {"builds", "matchups"}
RebuildFields == {"step", "kind", "champion", "category", "dry", "page", "listed", "todo", "batch", "made"}
RebuildStepOf(kind) ==
  {"list", "done", "failed", "refused"} \cup
  (IF kind = "champions" THEN {"existing", "fold", "write", "markers", "scopes"} ELSE {"delete", "create"})
RebuildWorkFields == {"step", "loaded", "pairs", "made", "old"}
RebuildTypes ==
  /\ DOMAIN rebuildRows = Rebuild!Kind /\ DOMAIN rebuildJob = RebuildFields
  /\ DOMAIN rebuildWork = RebuildMatch /\ \A m \in RebuildMatch : DOMAIN rebuildWork[m] = RebuildWorkFields
  /\ rebuildJob.step = "idle" \/ rebuildJob.kind \in Rebuild!Kind
RebuildSame(kind, key) == Rebuild!Shown(kind, key) \in {Rebuild!Old(kind, key), Rebuild!Truth(kind, key)} \/ Rebuild!Torn(kind, key)
RebuildFigures(w) ==
  ~w.old => /\ w.step = "write" => \A key \in DOMAIN w.made : w.made[key] = Rebuild!Truth("champions", key)
            /\ w.step \in {"delete", "create"} =>
                  \A key \in DOMAIN w.made : w.made[key] = Rebuild!Truth("matchups", key)
RebuildWorkFollows == \A m \in RebuildMatch : RebuildFigures(rebuildWork[m]) /\ (rebuildQuiet => ~rebuildWork[m].old)
RebuildJobFits ==
  /\ rebuildJob.kind \in Rebuild!Kind /\ rebuildJob.step \in RebuildStepOf(rebuildJob.kind)
  /\ rebuildJob.step \in {"fold", "write", "markers", "scopes", "delete", "create"} => ~rebuildJob.dry
RebuildOthersAreSame ==
  \A kind \in Rebuild!Kind : \A key :
     ~(kind = rebuildJob.kind /\ kind \in RebuildPaged /\ Rebuild!InFilter(rebuildJob, key)) => RebuildSame(kind, key)
RebuildPagesFollow ==
  rebuildJob.kind \in RebuildPaged =>
    /\ rebuildJob.page \subseteq Rebuild!Completed
    /\ rebuildJob.step \in {"delete", "create"} => \A key \in DOMAIN rebuildJob.made : Rebuild!InFilter(rebuildJob, key)
    /\ \A key : Rebuild!InFilter(rebuildJob, key) =>
         /\ rebuildJob.step \in {"list", "delete", "refused"} => RebuildSame(rebuildJob.kind, key)
         /\ rebuildJob.step \in {"delete", "create"} => RebuildShow(rebuildJob.made, key) = Rebuild!Expected(key)
         /\ rebuildJob.step = "create" => Rebuild!Shown(rebuildJob.kind, key) \in {{}, Rebuild!Truth(rebuildJob.kind, key)}
         /\ rebuildJob.step = "failed" => Rebuild!Shown(rebuildJob.kind, key) = {} \/ RebuildSame(rebuildJob.kind, key)
         /\ rebuildJob.step = "done" => IF rebuildJob.dry THEN RebuildSame(rebuildJob.kind, key)
                                 ELSE \/ Rebuild!Shown(rebuildJob.kind, key) \in {Rebuild!Expected(key), Rebuild!Truth(rebuildJob.kind, key)}
                                      \/ Rebuild!Torn(rebuildJob.kind, key)
RebuildBatchesFollow ==
  rebuildJob.kind = "champions" =>
    /\ rebuildJob.step = "write" => \A key \in DOMAIN rebuildJob.made : rebuildJob.made[key] = Rebuild!Truth("champions", key)
    /\ \A key : Rebuild!InFilter(rebuildJob, key) =>
         /\ rebuildJob.step = "existing" => key \in rebuildJob.todo \/ Rebuild!Truth("champions", key) = {}
         /\ rebuildJob.step \in {"fold", "write"} =>
              \/ key \in rebuildJob.todo \/ Rebuild!Shown("champions", key) = Rebuild!Truth("champions", key)
              \/ rebuildJob.step = "write" /\ key \in DOMAIN rebuildJob.made
         /\ rebuildJob.step \in {"markers", "scopes"} \/ (rebuildJob.step = "done" /\ ~rebuildJob.dry) =>
              Rebuild!Shown("champions", key) = Rebuild!Truth("champions", key)
RebuildFollows == RebuildJobFits /\ RebuildOthersAreSame /\ RebuildPagesFollow /\ RebuildBatchesFollow
RebuildIInv == RebuildTypes /\ RebuildWorkFollows /\ (rebuildQuiet /\ rebuildJob.step # "idle" => RebuildFollows)

\* A row becomes what the matches say, a gap, or stays, and so does a gap.
RebuildMoved(kind, key) ==
  \/ Rebuild!Shown(kind, key)' = Rebuild!Truth(kind, key)
  \/ Rebuild!Torn(kind, key)'
  \/ Rebuild!Shown(kind, key)' = Rebuild!Shown(kind, key) /\ (Rebuild!Torn(kind, key) => Rebuild!Torn(kind, key)')

\* Rows change to what the matches say; only a paged rebuild does more in its scope.
RebuildRowsMove ==
  \A kind \in Rebuild!Kind : \A key :
     \/ RebuildMoved(kind, key)
     \/ kind = rebuildJob.kind /\ kind \in RebuildPaged /\ Rebuild!InFilter(rebuildJob, key)

-----------------------------------------------------------------------------
(***************************************************************************)
(* The synchronisation of the static data.                                 *)
(***************************************************************************)
staticPatches == x1
staticRuns == x2
staticStarted == x3
staticAlone == x4

(***************************************************************************)
(* The inductive invariant.  A run in its transaction holds its version    *)
(* alone, so that the champions it found there are those it commits to;    *)
(* one that nothing overlapped knows which patches are active.             *)
(***************************************************************************)
StaticRunFields == {"input", "version", "attempt", "stage", "file", "roster", "build", "aims", "off",
              "overlapped", "committed", "result", "counts", "reported"}
StaticStages == {"version", "file", "full", "check", "ready", "upserted", "aimed", "off", "verify", "done"}
\* From the file on, from its roster on, from the checks on.
StaticWithFile == {"full", "check", "ready", "upserted", "aimed", "off"}
StaticWithRoster == StaticWithFile \ {"full"}
StaticChecked == StaticWithRoster \ {"check"}
StaticIds(file) == {file[i].id : i \in DOMAIN file}
StaticIsRosterOf(roster, file) ==
  /\ roster \in Static!Rosters /\ DOMAIN roster = StaticIds(file)
  /\ \A c \in DOMAIN roster : \E i \in DOMAIN file : file[i].id = c /\ roster[c].key = file[i].key
\* Enough champions; no two of one key.
StaticBig(patch) == Cardinality(DOMAIN patch.champions) >= StaticMinChampions
StaticApart(stored) == \A c, d \in DOMAIN stored : c # d => stored[c].key # stored[d].key
StaticPatchFits(patch) ==
  /\ patch \in Static!PatchRow /\ IsFiniteSet(DOMAIN patch.champions)
  /\ StaticApart(patch.champions) /\ (patch.active => StaticBig(patch))
StaticActive(db) == {v \in StaticVersions : db[v] # None /\ db[v].active}
StaticPatchesFit(db) == DOMAIN db = StaticVersions /\ \A v \in StaticVersions : db[v] = None \/ StaticPatchFits(db[v])

StaticRunTypes(run) ==
  /\ DOMAIN run = StaticRunFields /\ run.stage \in StaticStages /\ run.input \in StaticInputs
  /\ run.version \in StaticVersions \cup {None}
  /\ run.stage \notin {"version", "done"} => run.version \in StaticVersions
  /\ run.overlapped \in BOOLEAN
StaticContent(run) ==
  /\ run.stage \in {"full", "check", "aimed", "off", "verify"} => run.input.kind = "champions"
  /\ run.input.kind = "champions" =>
       /\ run.stage \in StaticWithFile => run.file \in StaticChampionFiles
       /\ run.stage \in StaticWithRoster => StaticIsRosterOf(run.roster, run.file)
       /\ run.stage \in StaticChecked => ~Static!CountIsLow(run.file) /\ ~Static!DuplicateIdentity(run.file)
  /\ run.input.kind = "build" /\ run.stage \in StaticChecked =>
       run.build \subseteq {"item", "spell", "rune"} \X Static!BuildNumbers
StaticTold(run) ==
  /\ run.stage \in StaticChecked => ~run.input.dry
  /\ run.stage \notin {"verify", "done"} => ~run.committed /\ ~run.reported
  /\ run.committed => ~run.input.dry
  /\ run.stage = "verify" => run.committed
  /\ run.stage # "done" => run.result = None
  /\ run.result = "ok" /\ ~run.input.dry => run.committed
  /\ run.result = "failed" /\ run.committed => ~run.reported
  /\ run.counts # None => run.counts.new + run.counts.changed + run.counts.unchanged = run.counts.discovered
StaticKnows(run, db) ==
  /\ run.stage \in {"aimed", "off"} => ~Static!KeyClash(Static!ChampionsOf(db, run.version), run.file)
  /\ run.stage = "verify" => StaticBig(db[run.version])
  /\ run.stage = "verify" \/ run.committed => run.version \in StaticVersions /\ db[run.version] # None
  /\ run.stage = "aimed" => \A v \in run.aims : v \in StaticVersions \ {run.version} /\ db[v] # None
  /\ run.stage = "off" => \A v \in run.off : v \in StaticVersions \ {run.version} /\ db[v] # None
  /\ run.stage = "aimed" /\ ~run.overlapped => run.aims = Static!OtherActive(run.version, db)
  /\ run.stage = "off" /\ ~run.overlapped => run.off = Static!OtherActive(run.version, db)
StaticFits(run, db) == StaticRunTypes(run) /\ StaticContent(run) /\ StaticTold(run) /\ StaticKnows(run, db)

StaticExclude ==
  \A r, q \in StaticRuns :
    r # q /\ Static!At(r, Static!InTransaction) /\ Static!At(q, Static!InTransaction) =>
      staticRuns[r].version # staticRuns[q].version /\ staticRuns[r].overlapped
StaticIInv ==
  /\ StaticPatchesFit(staticPatches) /\ DOMAIN staticRuns = StaticRuns
  /\ \A r \in StaticRuns : staticRuns[r] = None \/ StaticFits(staticRuns[r], staticPatches)
  /\ StaticExclude
  /\ staticAlone => Cardinality(StaticActive(staticPatches)) = 1

-----------------------------------------------------------------------------
(***************************************************************************)
(* The queue of the AI insights.                                           *)
(***************************************************************************)
insightRow == x1
insightReader == x2
insightJob == x3
insightRun == x4
insightExhausted == x5
insightLost == x6

(***************************************************************************)
(* The inductive invariant.  A live job is not enough to have a PENDING    *)
(* row pursued: the run that holds it must not be past its own end, with   *)
(* no request left that would notice.                                      *)
(***************************************************************************)
InsightEnds == {"completed", "failed", "delayed", "exhausted"}
InsightRunType == [pc : {"idle", "generate", "end"}, owner : BOOLEAN,
            to : {None} \cup InsightEnds]
InsightTypes ==
  /\ insightRow \in [status : {"none", "PENDING", "READY", "FAILED"}, result : BOOLEAN, old : BOOLEAN]
  /\ insightReader \in [InsightReaders -> {"idle", "upsert", "look", "remove", "add", "unpublished"}]
  /\ insightJob \in [state : {"none", "completed", "failed"} \cup Insight!LiveStates, attempts : Nat]
  /\ insightRun \in [InsightWorkers -> InsightRunType]
  /\ insightExhausted \in {0, 1} /\ insightLost \in BOOLEAN

\* A run that says how it ended says it with one of the queue's ends.
InsightEndsAreEnds ==
  \A w \in InsightWorkers : /\ insightRun[w].pc = "end" => insightRun[w].to \in InsightEnds
                            /\ insightRun[w].pc = "idle" => ~insightRun[w].owner

\* The queue hands the job to one run at a time.
InsightOneOwner ==
  /\ \A w \in InsightWorkers : insightRun[w].owner => insightJob.state = "active"
  /\ insightJob.state = "active" => \E w \in InsightWorkers : insightRun[w].owner
  /\ \A v, w \in InsightWorkers : insightRun[v].owner /\ insightRun[w].owner => v = w

InsightPublishing(g) == insightReader[g] \in {"look", "remove", "add", "unpublished"}
InsightPursued ==
  insightRow.status = "PENDING" /\ ~insightLost /\ insightExhausted = 0 /\ (\A g \in InsightReaders : ~InsightPublishing(g)) =>
    /\ insightJob.state \in Insight!LiveStates
    /\ \A w \in InsightWorkers : insightRun[w].owner => \/ insightRun[w].pc = "generate"
                                                        \/ insightRun[w].to \in {"delayed", "exhausted"}
InsightReadyHasText == insightRow.status = "READY" => insightRow.result

InsightIInv == InsightTypes /\ InsightEndsAreEnds /\ InsightOneOwner /\ InsightPursued /\ InsightReadyHasText

-----------------------------------------------------------------------------
(***************************************************************************)
(* The page of a champion.                                                 *)
(***************************************************************************)
detailRoute == x1
detailUrl == x2
detailFilters == x3
detailReady == x4
detailNotFound == x5
detailChampion == x6
detailGeneration == x7
detailStatsId == x8
detailStats == x9
detailStatsPending == x10
detailTab == x11
detailPanel == x12
detailNavigation == x13
detailCalls == x14
detailActions == x15

(***************************************************************************)
(* The inductive invariant.                                                *)
(***************************************************************************)
DetailCallType == [step : {"filters", "metadata", "sync", "stats"} \cup Detail!Panels, generation : Nat, id : Nat,
             key : DetailKeys \cup {None}, filters : DetailFilters \cup {None}]
DetailResponseType == {None} \cup [key : DetailKeys \cup {None}, filters : DetailFilters \cup {None}]
DetailPanelType == [response : DetailResponseType, pending : BOOLEAN, id : Nat]
DetailTypes ==
  /\ detailRoute \in DetailKeys /\ detailUrl \in DetailFilters /\ detailFilters \in DetailFilters \cup {None}
  /\ detailReady \in BOOLEAN /\ detailNotFound \in BOOLEAN /\ detailChampion \in {None, detailRoute}
  /\ detailGeneration \in Nat /\ detailStatsId \in Nat /\ detailNavigation \in Nat /\ detailActions \in Nat
  /\ detailStats \in DetailResponseType /\ detailStatsPending \in BOOLEAN
  /\ detailTab \in Detail!Tabs /\ detailPanel \in [Detail!Panels -> DetailPanelType] /\ detailCalls \subseteq DetailCallType

\* A load has one chain: the filters, then the champion, then the rest.
DetailLoading ==
  /\ \A c \in detailCalls : c.generation <= detailGeneration
  /\ \A c \in detailCalls : Detail!Current(c) =>
       /\ c.step = "filters" => /\ c.id = 0 /\ c.key = detailRoute /\ c.filters = None
                                /\ detailChampion = None /\ ~detailNotFound /\ ~detailReady
       /\ c.step = "metadata" => /\ c.id = 0 /\ c.key = detailRoute /\ c.filters = detailFilters
                                 /\ detailChampion = None /\ ~detailNotFound /\ detailReady /\ detailFilters \in DetailFilters
       /\ c.step = "sync" => detailChampion # None
  /\ detailChampion # None => detailReady /\ ~detailNotFound /\ detailFilters \in DetailFilters

\* The latest navigation of the router is of the present load and carries
\* its filters to the URL.
DetailUrlFollows ==
  /\ \A c \in detailCalls : c.step = "sync" =>
       /\ c.id <= detailNavigation
       /\ c.id = detailNavigation => Detail!Current(c) /\ c.filters = detailFilters /\ detailChampion # None
  /\ detailChampion # None => detailUrl = detailFilters \/ \E c \in detailCalls : c.step = "sync" /\ c.id = detailNavigation

DetailShown == [key |-> detailRoute, filters |-> detailFilters]

\* Statistics of other filters come only while a navigation of the present
\* load is under way, whose end asks again.
DetailStatsFollow ==
  /\ \A c \in detailCalls : c.step = "stats" => c.id <= detailStatsId
  /\ detailChampion # None /\ (\A c \in detailCalls : ~(Detail!Current(c) /\ c.step = "sync")) =>
       /\ detailStats \in {None, DetailShown}
       /\ \A c \in detailCalls : c.step = "stats" /\ Detail!Current(c) /\ c.id = detailStatsId =>
            c.key = detailRoute /\ c.filters = detailFilters
       /\ detailStatsPending => \E c \in detailCalls : c.step = "stats" /\ Detail!Current(c) /\ c.id = detailStatsId

DetailPanelsFollow ==
  \A p \in Detail!Panels :
    /\ \A c \in detailCalls : c.step = p => c.id <= detailPanel[p].id
    /\ Detail!Wanted(p, detailFilters, detailChampion, detailTab) =>
         /\ \A c \in detailCalls : c.step = p /\ c.id = detailPanel[p].id =>
              Detail!Current(c) /\ c.key = detailChampion /\ c.filters = detailFilters
         /\ IF detailPanel[p].pending THEN \E c \in detailCalls : c.step = p /\ c.id = detailPanel[p].id
            ELSE detailPanel[p].response \in {None, [key |-> detailChampion, filters |-> detailFilters]}

DetailIInv == DetailTypes /\ DetailLoading /\ DetailUrlFollows /\ DetailStatsFollow /\ DetailPanelsFollow

DetailIsCallOf(c, step, id, key, f) ==
  /\ c \in DetailCallType /\ c.step = step /\ c.generation = detailGeneration /\ Detail!Current(c)
  /\ c.id = id /\ c.key = key /\ c.filters = f

-----------------------------------------------------------------------------
(***************************************************************************)
(* The directory of the champions.                                         *)
(***************************************************************************)
directoryFilters == x1
directoryUrl == x2
directoryReady == x3
directoryTail == x4
directorySyncing == x5
directoryRanking == x6
directoryDirectory == x7
directoryRequests == x8
directoryPatches == x9

(***************************************************************************)
(* The inductive invariant.  The URL holds the filters whose loads were    *)
(* asked for last; between Assign and Synced the filters are a patch       *)
(* ahead of it.                                                            *)
(***************************************************************************)
DirectoryTable == [agg : DirectoryAggs, position : DirectoryPositions \cup {None}]
DirectoryList == [text : DirectoryTexts \cup {None}]
DirectoryRankingType == [shown : DirectoryTable \cup {None}, wanted : DirectoryTable \cup {None}, updating : BOOLEAN,
                pending : BOOLEAN, error : BOOLEAN, id : Nat]
DirectoryType == [shown : DirectoryList \cup {None}, pending : BOOLEAN, error : BOOLEAN, id : Nat]
DirectoryRequestType == [of : {"ranking"}, id : Nat, asked : DirectoryTable]
                 \cup [of : {"directory"}, id : Nat, asked : DirectoryTexts \cup {None}]

DirectoryTypes ==
  /\ directoryFilters \in Directory!Filters \cup {None} /\ directoryUrl \in Directory!Filters /\ directoryReady \in BOOLEAN
  /\ directoryTail \in Seq(Directory!Patches) /\ directorySyncing \in BOOLEAN
  /\ directoryRanking \in DirectoryRankingType /\ directoryDirectory \in DirectoryType
  /\ directoryRequests \subseteq DirectoryRequestType /\ directoryPatches \in Nat

DirectoryPatchesInTurn ==
  /\ ~directoryReady => /\ directoryFilters = None /\ directoryTail = <<>> /\ ~directorySyncing /\ directoryRequests = {}
                        /\ directoryRanking.id = 0 /\ directoryDirectory.id = 0 /\ ~directoryRanking.pending /\ ~directoryRanking.updating
                        /\ directoryRanking.wanted = None /\ directoryRanking.shown = None
  /\ directoryReady => /\ directoryFilters \in Directory!Filters
                       /\ IF directorySyncing THEN directoryTail # <<>> /\ directoryFilters = Directory!Patched(directoryUrl, Head(directoryTail)) ELSE directoryUrl = directoryFilters

\* The latest request of the ranking is for the URL's table and is on its
\* way for as long as the ranking is pending; an assigned patch may announce
\* the next one.
DirectoryRankingIsOfUrl ==
  /\ \A r \in directoryRequests : r.of = "ranking" => r.id <= directoryRanking.id
  /\ directoryReady /\ Directory!Rankable(directoryUrl) =>
       /\ \A r \in directoryRequests : r.of = "ranking" /\ r.id = directoryRanking.id => r.asked = Directory!TableOf(directoryUrl)
       /\ IF directoryRanking.pending THEN \E r \in directoryRequests : r.of = "ranking" /\ r.id = directoryRanking.id
          ELSE directoryRanking.error \/ directoryRanking.shown = Directory!TableOf(directoryUrl)
       /\ ~directoryRanking.pending /\ (~directorySyncing \/ Directory!Directory(Head(directoryTail))) =>
            ~directoryRanking.updating /\ directoryRanking.wanted = None
  /\ directoryReady /\ ~Directory!Rankable(directoryUrl) =>
       /\ \A r \in directoryRequests : r.of = "ranking" => r.id # directoryRanking.id
       /\ ~directoryRanking.pending /\ ~directoryRanking.updating /\ directoryRanking.wanted = None /\ directoryRanking.shown = None

DirectoryIsOfUrl ==
  /\ \A r \in directoryRequests : r.of = "directory" => r.id <= directoryDirectory.id
  /\ directoryReady =>
       /\ \A r \in directoryRequests : r.of = "directory" /\ r.id = directoryDirectory.id => r.asked = directoryUrl.text
       /\ IF directoryDirectory.pending THEN \E r \in directoryRequests : r.of = "directory" /\ r.id = directoryDirectory.id
          ELSE directoryDirectory.error \/ directoryDirectory.shown = [text |-> directoryUrl.text]

DirectoryIInv == DirectoryTypes /\ DirectoryPatchesInTurn /\ DirectoryRankingIsOfUrl /\ DirectoryIsOfUrl

-----------------------------------------------------------------------------
(***************************************************************************)
(* The page of a match.                                                    *)
(***************************************************************************)
pageRoute == x1
pageDetail == x2
pageTab == x3
pageTimeline == x4
pageCached == x5
pageInFlight == x6
pageCalls == x7
pageActions == x8

(***************************************************************************)
(* The inductive invariant.                                                *)
(***************************************************************************)
PageTypes ==
  /\ pageRoute \in PageMatches /\ pageCached \in {None, pageRoute} /\ pageTab \in BOOLEAN /\ pageInFlight \in BOOLEAN
  /\ pageDetail \in [shown : PageMatches \cup {None}, pending : BOOLEAN, failed : BOOLEAN, id : Nat]
  /\ pageTimeline \in [shown : PageMatches \cup {None}, pending : BOOLEAN, failed : BOOLEAN]
  /\ pageCalls \subseteq [step : {"detail", "timeline"}, id : Nat, match : PageMatches] /\ pageActions \in Nat

\* The latest request of the detail is about the route, and while it is
\* awaited it is under way.
PageDetailIsOfRoute ==
  /\ \A c \in pageCalls : c.step = "detail" => c.id <= pageDetail.id /\ (c.id = pageDetail.id => c.match = pageRoute)
  /\ IF pageDetail.pending THEN \E c \in pageCalls : c.step = "detail" /\ c.id = pageDetail.id
     ELSE pageDetail.shown = (IF pageDetail.failed THEN None ELSE pageRoute)

\* So is a request for the timeline that is cached, whatever else arrives.
PageTimelineIsCached ==
  /\ pageTab => pageCached = pageRoute
  /\ pageTimeline.shown \in {None, pageCached}
  /\ pageCached # None =>
       IF pageTimeline.pending THEN \E c \in pageCalls : c.step = "timeline" /\ c.match = pageCached
       ELSE pageTimeline.shown = pageCached \/ (pageTimeline.failed /\ pageTimeline.shown = None)

PageIInv == PageTypes /\ PageDetailIsOfRoute /\ PageTimelineIsCached

-----------------------------------------------------------------------------
(***************************************************************************)
(* The page of a player.                                                   *)
(***************************************************************************)
playerRoute == x1
playerMounted == x2
playerProfile == x3
playerMatches == x4
playerWorking == x5
playerPolling == x6
playerRefreshing == x7
playerPlaystyle == x8
playerPlaystylePending == x9
playerPlaystyleId == x10
playerFailed == x11
playerTimers == x12
playerCalls == x13
playerActions == x14
playerPolls == x15
playerAnswers == x16

(***************************************************************************)
(* The inductive invariant.  The latest load has one request, that of the  *)
(* player of the route, or one timer; requests of earlier loads have       *)
(* smaller ids and change nothing.                                         *)
(***************************************************************************)
PlayerAsked == Player!Call("playstyle", playerPlaystyleId, None)
PlayerRequests ==
  \A c \in playerCalls : c.step = "playstyle" =>
    c.id \in Nat /\ c.id =< playerPlaystyleId /\ (c.id = playerPlaystyleId => c = PlayerAsked)
PlayerIInv ==
  /\ playerPlaystyleId \in Nat /\ playerTimers \subseteq {playerPlaystyleId} /\ PlayerRequests
  /\ playerTimers # {} => PlayerAsked \notin playerCalls
  /\ playerPlaystyle # None => playerPlaystyle.player = playerRoute
  /\ playerPlaystylePending => PlayerAsked \in playerCalls
  /\ playerMounted /\ playerPlaystyle # None =>
       (playerPlaystyle.status = "PENDING" => PlayerAsked \in playerCalls \/ playerTimers # {} \/ playerFailed)

-----------------------------------------------------------------------------
(***************************************************************************)
(* The ranks of the participants.                                          *)
(***************************************************************************)
ranksStatus == x1
ranksObs == x2
ranksJob == x3
ranksWork == x4
ranksCall == x5
ranksPage == x6
ranksTodo == x7
ranksCursor == x8
ranksExcused == x9

(***************************************************************************)
(* The inductive invariant.  A run that has read its rows writes no other, *)
(* so a row committed since is pursued by its own enqueue, and that leaves *)
(* the identity excused when it finds the run under way.                   *)
(***************************************************************************)
RanksRunAnswers == RanksAnswers \cup {"RESOLVED_RANKED", "RESOLVED_UNRANKED"}
RanksRunType == [pc : {"load", "ask", "apply"}, account : RanksAccounts, owner : BOOLEAN, rows : SUBSET RanksRows,
            answer : {None} \cup RanksRunAnswers]
RanksTypes ==
  /\ ranksStatus \in [RanksRows -> {"absent", "RESOLVED_RANKED", "RESOLVED_UNRANKED"} \cup Ranks!Unresolved]
  /\ ranksObs \in [RanksAccounts -> {None} \cup
                [status : {"RESOLVED_RANKED", "RESOLVED_UNRANKED", "FAILED_RETRYABLE"}, fresh : BOOLEAN]]
  /\ ranksJob \in [RanksAccounts -> {"none", "done", "failed"} \cup Ranks!LiveStates]
  /\ DOMAIN ranksWork = RanksWorkers /\ \A w \in RanksWorkers : ranksWork[w] = Ranks!Idle \/ ranksWork[w] \in RanksRunType
  /\ DOMAIN ranksCall = Ranks!Callers
  /\ \A c \in Ranks!Callers : ranksCall[c] = Ranks!NoCall \/ ranksCall[c] \in [pc : {"look", "remove", "add"}, account : RanksAccounts]

RanksBusy(w) == ranksWork[w].pc \in {"load", "ask", "apply"}
RanksOwns(w) == RanksBusy(w) /\ ranksWork[w].owner

\* Who has the lock of a job executes it, and nobody else has it.
RanksOneOwner ==
  /\ \A w \in RanksWorkers : RanksOwns(w) => ranksJob[ranksWork[w].account] = "active"
  /\ \A v, w \in RanksWorkers : RanksOwns(v) /\ RanksOwns(w) /\ ranksWork[v].account = ranksWork[w].account => v = w

RanksCalling(a) == \E c \in Ranks!Callers : ranksCall[c].pc # "idle" /\ ranksCall[c].account = a
RanksCovered(a) == RanksCalling(a) \/ a \in ranksExcused

\* What a run has read, and what it has not.
RanksRunsKnowTheirRows ==
  \A w \in RanksWorkers :
    /\ RanksBusy(w) => \A r \in ranksWork[w].rows : RanksAccount[r] = ranksWork[w].account
    /\ ranksWork[w].pc = "apply" => ranksWork[w].answer \in RanksRunAnswers
    /\ ranksWork[w].pc = "ask" => ranksWork[w].answer = None
    /\ RanksOwns(w) /\ ranksWork[w].pc # "load" =>
         \A r \in RanksRows : RanksAccount[r] = ranksWork[w].account /\ ranksStatus[r] \in Ranks!Unresolved /\ r \notin ranksWork[w].rows =>
           RanksCovered(ranksWork[w].account)

\* A run that is to ask found no answer it could have used again.
RanksAsksAreNeeded ==
  \A w \in RanksWorkers :
    RanksOwns(w) /\ ranksWork[w].pc # "apply" /\ ranksWork[w].answer = None =>
      ~Ranks!Reusable(ranksWork[w].account) \/ ranksWork[w].account \in ranksExcused

RanksPursued(a) == ranksJob[a] \in Ranks!LiveStates \cup {"failed"} \/ RanksCovered(a)
RanksRowsFollow == \A r \in RanksRows : ranksStatus[r] \in Ranks!Unresolved => RanksPursued(RanksAccount[r])

RanksRunsInv == RanksTypes /\ RanksOneOwner /\ RanksRunsKnowTheirRows /\ RanksAsksAreNeeded /\ RanksRowsFollow

\* What the first read of a backfill left out was not pending, or came after
\* more rows than a page holds.
RanksPageType == [after : RanksRows \cup {0}, bound : RanksPageBounds, pending : SUBSET RanksRows, known : SUBSET RanksRows]
RanksBeyond(r) ==
  /\ Cardinality(ranksPage.pending) >= Ranks!FetchLimit(ranksPage.bound)
  /\ \A q \in ranksPage.pending : q < r
RanksPageFollows ==
  /\ ranksCursor \in RanksRows \cup {0}
  /\ ranksPage # None =>
       /\ ranksPage \in RanksPageType
       /\ \A r \in ranksPage.known :
            /\ ranksStatus[r] # "absent"
            /\ ranksStatus[r] = "PENDING" /\ r > ranksPage.after => r \in ranksPage.pending \/ RanksBeyond(r)

RanksIInv == RanksRunsInv /\ RanksPageFollows

\* What is looked at.
RanksCandidateType == [row : RanksRows, status : Ranks!Unresolved]

=============================================================================
