# Verification of league-helper

TLA+ models of the parts of league-helper whose correctness depends on interleavings, failures
and counters; the TLC configurations that check them on small instances; and TLAPS proofs, for
every value of the constants, of what matters most. Every definition is translated from the
code; `PROJECT.json` maps each one to the lines it stands for.

Contents: [the system](#1-the-system), [the models](#2-the-models), [the runs](#3-the-runs),
[the proofs](#4-the-proofs), [what the models found](#5-observations),
[what is left out](#6-what-is-not-modelled), [the plan](#7-plan).

## 1. The system

`apps/api` (NestJS) answers the web client, finds the matches of a player and enqueues them.
`apps/worker` runs six BullMQ workers. `packages/server-riot` is the Riot client both use, with
a request budget and a cooldown shared by all processes. Postgres is the durable truth; Redis
holds the queues, the caches, the cooldown and the budget. Nothing spans the two stores, so
every hand-over between them (commit a row, then publish a job) can be cut in half, and each
half has a repair command.

| Component | State | Operations | What is hard |
|---|---|---|---|
| Match ingestion (`queues/match-ingestion`, `enqueue-discovered-matches.ts`, `ingestion-reconciliation.service.ts`) | match and participant rows, one ingestion record and one BullMQ job per match | discover, publish, process, persist, complete, fail and retry; commands `reconcile` and `retry` | blind status writes of several processes over one record; duplicate executions after a lost lock; crashes between the commit and the follow-ups |
| Champion aggregation (`queues/champion-aggregation`) | aggregate rows, recalc scope row, processing marker, cache generation | scope upsert, enqueue, recalculate, conditional clear, follow-up, `reconcile` | an upsert and a clear of one scope row; jobs absorbed by a job that is about to end; failures between scope, generation and matchups |
| Participant enrolment (`collector/participant-expansion.*`, `ladder-enrollment.*`, `tracked-player.repository.ts`) | tracked players, three global counters, counters per run and per source player | enrol a root, a ladder player, the participants of a match | counters tested and incremented by concurrent transactions; partial failures inside one; a run deleted under way |
| Population collector (`population-collector.service.ts`) | player leases, run rows | claim a wave, refresh its players, settle, fold, finalise | parallel workers, timeouts that do not cancel, leases that expire under their owner |
| Collector scheduler (`collector-scheduler.service.ts`) | one row: lease, generation, adaptive state | tick: acquire, gate, run, record, release | a tick that outlives its lease |
| Riot request budget and cooldown (`riot-request-budget.ts`, `riot-shared-cooldown.ts`, `riot-client.ts`) | three sorted sets, pressure, cooldown | reserve, wait, retry, observe headers, publish a cooldown | clocks of several machines, limits that differ by process, lost replies |
| Participant rank enrichment (`queues/participant-rank-enrichment`, `backfill-participant-ranks-core.ts`) | rank status of participant rows, observations, one job per identity | publish, ask League-v4 or reuse, write by id, backfill page by page | rows committed while a job runs; a job that ends between a probe and a publication; holes between pages |
| Match timeline (`queues/match-timeline`, `match-timeline.processor.ts`) | timeline row with its coverage, events, frames, one job per match | ingest, refetch, enrich, backfill | three writers, a coverage read before network calls, a job that outlives its lock |
| Match page data (`match-timeline.mapper.ts`, `packages/shared`) | stored events and frames | allowlist, metrics, public timeline, filters | the same figure computed in worker, API and client |
| Player refresh and status | Redis lock, cooldown, cached profile, list of discovered matches | lock, discover, release; compute status | blind DEL of a lock that expired; a read-modify-write of several writers |
| Player histories | snapshots, linked matches | insert on change, page by cursor | rows that arrive under a walk, equal times |
| Champion statistics cache | generation, cached pages | read, fill, invalidate by INCR | a fill that started before the INCR |
| Champion names | list in memory and in Redis per locale | load, share a load, refresh | two clocks of age, loads that overlap, a Redis that keeps a load waiting |
| Aggregate rebuilds (`rebuild-core.ts`, three commands) | aggregate, build and matchup rows of a scope | enumerate, fold, delete, create, mark | matches that change under a rebuild, the worker beside it, partial failure |
| Matchup and champion figures (`packages/match-analytics`) | sums in rows | pair, accumulate, roll up, merge, rank | mirror and order independence, missing data |
| AI insights (champion, playstyle) | insight row PENDING, READY, FAILED; text | publish, generate, repair, validate, record | a failed handler over a later READY; claims without evidence |
| Web pages (champion, directory, player, match) | filters, URL, what is shown, requests under way | navigate, load, poll | answers out of order after the user has moved on |
| Ladder seeding | candidates, accounts, counters | fetch pages, look up, resolve, enrol | others enrol under it, caps, errors half way |
| Collector reports (audit, status, coverage, preview) | none of their own | series of queries | a collector at work between two queries |
| Static data (`sync-champion-static`, `sync-build-static`) | patches, champions, items | fetch, check, store, activate, verify | two syncs, a crash, a partial file |
| Configuration and command lines | settings of each process | parse, check, derive | one variable read by several loaders, boundaries |
| Riot schemas, rendering, worker's text reports | none of their own | mapping | nothing concurrent |

How they interact:

    refresh / collector run --> discovery --> record + match-ingestion job
                                                    |
            Riot client <-- budget, cooldown <--  processor --> match COMPLETED
                                                    |
                 +----------------------+-----------+------------+
                 v                      v                        v
         champion aggregation   participant expansion   rank enrichment, timeline
                 |                      |                        |
          generation INCR        tracked players  -->  next collector run
                                                                 |
                                              champion aggregation (ranks changed)

What makes each component correct:

- **Match ingestion**: a match somebody asked for is stored in the end, or its record is one a
  repair command looks for; its follow-ups are taken although the process may die before them;
  whoever asks again gets it linked to his account.
- **Champion aggregation**: an aggregate row that is not the fold of the stored participants
  is either about to be recalculated or one that `reconcile` finds; the clear of a scope row
  never drops a key that was added meanwhile; jobs and follow-ups end.
- **Enrolment**: counters are the numbers of rows; caps, quotas and depth hold; a source is
  never rewritten.
- **Collector**: a claim is settled once and by its owner; a run that returned holds no lease
  and its row says what happened; a run ends.
- **Scheduler**: an owner that lost its lease does not change what the next one records.
- **Budget**: no window is overfilled, the product's reserve and the enrichment share hold, an
  active cooldown stops everybody, waits are exact and bounded.
- **Rank enrichment**: aggregates follow the ranks written (checked with aggregation).
- **Reads** (statistics cache, names, histories): an answer is not older than the generation or
  the walk allows, or, but for callers that a slow load keeps waiting, the time to live; a walk
  misses nothing that was there.
- **Refresh**: a refresh reported complete has its matches linked; two refreshes of a player run
  together only after one outlived its lock.
- **Stored rows** (rebuild, timeline): a rebuild that succeeded left exactly the rows of its
  matches, unless one changed under it or the worker was at work on older figures, or left a gap;
  a stored timeline is whole and is not given up.
- **Promises** (ranks, insights, playstyle): what is pending has a job, a reason, or a poll.
- **Pages**: at rest, a page shows what its address and its filters ask for.
- **Texts**: each statement of a published text is supported by the numbers it was given.
- **Settings, reports, seeding, static data**: processes that accept one environment agree on
  it; what an operator is told is true; what readers take is whole.

## 2. The models

| Module | Models |
|---|---|
| `ChampionAggregation` | triggers, scope row, job, run, follow-up, generation, `reconcile` |
| `TrackedPopulation` | abstract: a population with a cap per source that only grows |
| `Enrollment` | the three enrolments as transactions with row locks; implements `TrackedPopulation` |
| `PlayerClaims` | abstract: leases of players, settled at most once on what was claimed |
| `PopulationCollector` | the run of the collector, its waves and parallel workers |
| `CollectorScheduler` | composes the runs with the ticks that start them; implements `PlayerClaims` |
| `RequestBudget` | the Lua reservation, the waits around it, observed limits, pressure, cooldown |
| `MatchIngestion` | one match through discovery, record, job, executions, repair commands |
| `ChampionStatsCache`, `ChampionNames`, `PlayerHistory` | what the API reads: cached pages, cached names, walks through histories |
| `PlayerRefresh` | refresh and search of a player, their lock and status |
| `AggregateRebuild`, `MatchupMath` | the rebuild commands; the figures in the rows |
| `RankEnrichment`, `MatchTimeline` | the two other queues that follow an ingestion |
| `MatchView` | a timeline from Riot's answer to the rows of the match page |
| `ChampionDetailPage`, `ChampionDirectoryPage`, `PlayerPage`, `MatchPage` | the controllers of the web client's pages |
| `InsightQueue`, `ChampionInsight`, `PlaystyleInsight` | the queue of both insights; context, generation and validation of each |
| `RawValues`, `Configuration` | raw settings; loaders, derived policies, command lines |
| `LadderSeed`, `CollectorReports`, `StaticData` | ladder seeding; audit, status, coverage, preview; the syncs |
| `ServiceParts`, `Services`, `MCServices` | the twenty services as parts of one specification; their inputs for TLC |
| `ServiceInvariants` | the inductive invariants of the services that are proved |
| `MC*` | instances of the others for TLC |
| `*Proofs` | theorems and proofs |

### ChampionAggregation

An aggregate row is the *set of participants folded into it*: the arithmetic of the fold is
abstracted, the order of read, fold, write, clear, INCR and matchups is not. A dimension key is
a slot (patch, route, queue, position, champion) and a bucket (tier, ALL, UNKNOWN). Triggers
(`ingest`, `reingest`, `link`, `enrich`, `reconcile`) are executions in memory with one step per
statement that others can see; each ends with `upsertChampionRecalcScope` as the code has it
(read in one step, write in another, READ COMMITTED) and the enqueue with its probe, removal of
a retained job and add. An ingestion decides from the ranks it read before its transaction
(`known`), which others may have changed by then. The BullMQ job has attempts, stalls and the
retained state; its run is `recalculateChampionAggregatesForMatch`, one phase per statement (the
matchups are scanned, deleted and created in three, with no transaction around them), with the
follow-up the worker takes after completion. `FaultKinds` names what may be lost: an execution
before or after the scope row, one in the job (by an error that is retried or one that no retry
helps), the write of the marker that a failed job makes, one by a stall, at the generation INCR,
at the follow-up.

### TrackedPopulation and Enrollment

`Enrollment` has the tables as variables and each enrolment as a process that holds row locks:
`held` is the set of rows its transaction has updated, and what it has reserved becomes visible
at the commit. Lock order is budget, population, run, source quota, then the insert, which
conflicts with a player enrolled meanwhile and rolls everything back. An expansion takes a
window of candidates, looks each one up, and continues after a rejection; a reservation against
a run that has disappeared is tried once more without attribution, outside the block that catches
rejections and conflicts, so that one of those thrown then ends the expansion. `DropRun` is external:
nothing in the code deletes a run, but the foreign key and the retry are written for it.
`TrackedPopulation` says in thirty lines what all this is for: a source never changes, and the
population, overall and per source, grows only below its ceilings.

### PlayerClaims, PopulationCollector and CollectorScheduler

`PopulationCollector` models `runOnce`: pre-flight, waves with shares allotted before any work,
one process per claimed player (skip for a cooldown, discover, time out, publish a cooldown,
settle), the fold of the outcomes into the run row, the release of leases, the terminal status,
and the catch branch with its own failures. `CollectorScheduler` adds the scheduler row and the
ticks, and a run started from the command line. The events from outside (expiry of a lease or
of the cooldown, an operator changing a player's status, a player becoming due, a throw, a
crash) are limited by `MaxEvents`. `PlayerClaims` is the contract of the lease: only the holder
settles, at most once, on the streak it claimed with, and only a lapsed claim is taken over.

### RequestBudget

Time is a counter; each process reads it with an error of at most `Skew`. `Script` is the Lua
script, atomic as Redis runs it: test the cooldown and the pressure, prune with the caller's
reading, test short window, long window, product reserve and enrichment share in that order,
then add or return a wait.
Around it are the inline waits with their deadline, the calls that fail or whose reply is lost,
the retries after transport errors and 5xx, the 429s whose cooldown is published, and the
headers that change a process's limits and the shared pressure. Keys expire as Redis expires
them. `granted` and `published` are history variables. Integer division of the percentages is kept.

### MatchIngestion

One match, its stored roster (a PUUID per slot, with the account each slot is linked to), the
accounts, the ingestion record, the BullMQ job with its lock holder, and three kinds of processes: a
*searcher* is the discovery of one player (classify, probe the job, create the record, look for a
finished job, remove it, add the new one, mark QUEUED), a *worker* is an execution of the processor
(mark RUNNING, inspect the stored match, fetch, write, commit, complete the record, follow-ups; or
the failure path with its classification and its move to delayed), a *command* is `reconcile` or
`retry`. The seven `FaultKinds` are a lost lock (duplicate execution), a crash, a rate limit, Riot
or the database unavailable, an error that is permanent (a refusal, an invalid answer, any other
error of the database, at whatever step), a failed write of the failure itself, and a failed Redis
call: at a probe it counts as no job or ends the caller, depending on the call that fails, and
between removal and addition it leaves none. `followed` and `lost` are history variables; `lost`
names the ways in which the code itself gives a match up (section 5), so that the invariants say
that there is no other.

### The services

The modules named in the second half of the table share no state with each other, or share it only
through what one of the modules above has in detail (a match, a job, a row). Each is complete in
itself, with `Init`, one action per step another actor can see, `Next`, `TypeOK` and its properties;
the first comment of each says what its steps and its abstractions are. `Services` instantiates all
of them as parts of one specification: the variable `part` says which service a behaviour is of,
`x1` to `x16` stand for the variables of that service and are `None` beyond them, and `Next` lets
that service step. Nothing is composed by this, a behaviour never changes its part; a property of
`Services` is the conjunction over the parts it names. Thirteen parts are proved. `ServiceParts` has
their instances and nothing else, so that the provers need not see the other seven, and
`ServiceInvariants` their inductive invariants. `MCServices` has the inputs TLC runs them with.

- **Reads.** `ChampionStatsCache` has one step for each of the five awaits of a request, between
  which workers rewrite rows and INCR generations and single Redis calls fail. Rows are versions,
  so that a response can be compared with what was true since it was asked for. `ChampionNames`
  has the memory of each process, the shared load and the refresh beside it, each with a step for
  every await: Redis, the versions, the champions, Redis again; a caller may join a load at any of
  them. `PlayerHistory`
  walks three tables by cursor while rows are inserted in any order of their times.
- **PlayerRefresh** has the lock with its expiry and blind delete, the cooldown, the cached
  profile and the list of discovered matches, which is read, changed and written back; the
  ingestion of a match is one of a few stages.
- **AggregateRebuild** enumerates, folds and writes the champion rows in batches, and deletes and
  creates the rows of builds and matchups, while matches arrive or change and the worker runs for
  single matches, write by write: fold, write, clear the scope, scan the pairs, delete, create, with
  a failure between any two. A row is the set of matches it counts. `MatchupMath` has the sums:
  kills for every plain total, gold at one minute for the optional differences.
- **RankEnrichment** has the row statuses, the observation that may be used again, the job per
  identity with its delays and retries until BullMQ drops it, the hook of ingestion and the backfill
  with its two reads (PENDING rows, then FAILED_RETRYABLE ones, each up to a limit), its cursor and
  bounds. **MatchTimeline** has the three writers and the job; **MatchView** follows
  one game through worker, API and client and compares what they derive.
- **Pages**: each await of a controller is a record in `calls`, answered in any order or failed.
- **Insights**: `InsightQueue` has row, request, job and executions; the other two build the
  context from the numbers, let the model answer anything within the claims its catalogue allows
  and some it does not, and validate.
- **Configuration**: every variable is a knob with a raw value (`RawValues`: unset, blank,
  a number, a fraction, a flag, a word, a list, text nothing parses), every loader a table of
  rules, one per knob; a process that meets a value its table refuses does not start. What is
  derived (cadence, pacing, windows) and the command lines use the accepted values.
- **LadderSeed**, **CollectorReports**, **StaticData**: a run, a series of queries, and a sync
  with transactions at READ COMMITTED, each next to others that write the same rows. A write of the
  seeder and a commit of a sync may take effect and be reported as failed, when the answer is lost.

## 3. The runs

Run a configuration with `tlc -workers 2 -config <cfg> <module>`. Each passing property has
mutants in `PROJECT.json`: plausible mistakes in mapped definitions, written beside them and marked
"Mutant" or "Mistake", under each of which TLC finds the property violated in the same run; a
property of the services has one for most of its parts.

| Run | Question | Bounds |
|---|---|---|
| `agg_shared` | When everything has settled, does `reconcile` find all that is stale or undone? | 2 matches feeding the same rows, 3 triggers, 1 failure after the scope row, in the job, a stall, or at the follow-up |
| `agg_live` | Does the conditional clear ever drop a key? Is a remaining scope followed up, and does the queue drain? | 1 match, 1 participant, all five triggers, 3 of them one at a time, 2 attempts per job, 1 failure, fair |
| `agg_upsert_race` (violation) | "Never discards prior pending keys from a concurrent enqueue" | 1 match, 2 participants, no failure |
| `enrollment` | Counters, caps, quotas, depth, refinement, termination | 4 players on a chain of two matches, caps 1 to 3, 3 enrolments two at a time, 1 abort, 1 deleted run, fair |
| `enr_window` (violation) | "Repeated processing must not slide to later candidates" | 3 players, 1 match, window of 1 |
| `collector` | Claims, leases, run rows, budgets, progress, scheduler generations | 2 players, 2 runs (ticks or command line), all budgets 2, 1 event from outside |
| `col_overshoot` (violation) | "so parallel work cannot overshoot run budgets" | 2 players, all budgets 1, no event from outside |
| `budget_skew` | Windows and cooldown with two clocks one unit apart | 2 processes, windows 3 and 4, limits 2 and 3, 3 grants, 2 faults |
| `budget_shares` | Reserve, share, long window, exact and bounded waits | 1 caller, 3 workloads, limits 3 or 4, 75 % used, 33 % reserved, 35 % enrichment, 4 grants, 2 faults |
| `ingestion` | Once no job is left to go on, is a match stranded, or its follow-ups forgotten? | 1 searcher, 2 workers, both commands, one of them at a time, 2 attempts, 1 stall, any 2 of the 7 `FaultKinds` |
| `ing_live` | Does whoever keeps refreshing get the match? | 2 searchers, 1 worker, no command, any 2 of the 7 faults, fair |
| `services` | The questions of the twenty services, below | one instance of each, below; 2.0 million states in all |

What the passing runs show, beyond their types:

- **agg_shared** `WhatIsOwedIsReconcilable` (of `StaleIsReconcilable` and
  `EffectsAreReconcilable`): whatever is lost from the scope row on leaves a pending scope or a
  marker that is not COMPLETED, so the repair command finds it. Two matches share each aggregate
  row, so that a fold of one must read the contributors of the other.
- **agg_live** `ClearCoversRow`: a scope row is deleted only by a run that recalculated every
  key in it. `RemainingScopeIsFollowedUp`, `EventuallyQuiescent`.
- **enrollment** `WithinCaps` (the refinement), `BudgetsMatchRows` (the counters equal the rows
  after every step), `RunCountsItsSources` (what a run has enrolled is what its source players have
  enrolled in it), `DepthOnlyShrinks`, `GrowthIsBounded` (the depth of a source is read once and may
  change under the expansion; the quotas of runs), `EnrollmentsEnd`.
- **collector** `ClaimsSettledOnce` (the refinement of `PlayerClaims`), `EndedRunsHoldNoLease`,
  `RunsCountTruly` (the counters folded from parallel outcomes equal a history of what was
  settled, and stay within the budgets), `StaleTicksChangeNothing`, `RunsMakeProgress` (each step
  of a run that its process survives lowers a measure), `NobodyIsStuck` (each run and tick that
  is not over can step).
- **budget_skew** `ShortWindowHolds`, `CooldownIsKept`; **budget_shares** `LimitsAreKept`,
  `WaitIsExact`, `WaitsAreBounded`: in no stretch of `Sure(window) = window - 2 * Skew` are more
  requests let through than the largest limit in use allows. Two readings `Skew` apart may
  each lose `Skew` at an end, so no longer stretch is guaranteed. With no skew it is the window
  itself.
- **ingestion** `NothingIsForgotten` (of `NothingIsStranded` and `FollowUpsAreNotForgotten`):
  whenever no job is live or about to be added in the place of none, whoever else is in the middle
  of something, the match is complete with its follow-ups, or its record is one a repair command
  looks for, or `lost` says why not. **ing_live** `SearchersGetTheirMatch`.
- **services**:
  - `ReadersMissNothing`: a response concerns what was asked and shows rows at least as new as at
    the last successful INCR before its request read the generation (`ResponsesAreCurrent`); no list
    of names in memory is older than its time to live, whichever way it came, and no caller is given
    an older one unless a slow Redis kept it waiting, and then one fetched after it asked or after
    the load it joined began (`NamesAreYoung`); a walk shows no row twice and every row that was
    there when it began (`WalksMissNothing`).
  - `RefreshesAreHonest`: who is told COMPLETE has every match of the list linked
    (`CompleteIsHonest`); refreshes exclude each other unless one outlives its lock, and then
    lose no discovery unless a search or a failure came between (`RefreshesExcludeEachOther`).
  - `StoredRowsAreTrue`: a rebuild under which no match changed, and no run of the worker went on
    with figures from before the last change, leaves exactly the rows of its filters and matches,
    and one that failed, or was refused or dry, leaves each row as it was, as it should be, or
    (builds and matchups) gone; the worker beside it adds at worst a gap, a matchup row that one of
    its runs deleted and did not create (`RebuiltRowsAreTrue`); the coverage of a timeline says what
    its events and frames hold, but for metrics that could not be computed, when FAILED stands
    beside it (`TimelinesAreWhole`). `StoredTimelinesStay`: a stored
    timeline is given up only to a new ingestion, or after a run that lost its job.
  - `FiguresAgree`: a matchup and its mirror, a roll-up and its parts, in any order and split of
    the matches; deaths, gold, filters and coverage of the match page with what the worker stored.
    Each filter of the page lists what "All" lists, except that of several objectives of one type
    at one time "All" shows the first in place of each.
  - `PromisesArePursued`: an unresolved rank row has a job (`RowsArePursued`; `excused` names the
    exceptions, among them a failed job that BullMQ dropped for its age), League-v4 is not asked
    while an answer is fresh, a page of a backfill passes over no row of the status it ends in,
    whatever happens between its two reads (`PagesHaveNoHoles`), a PENDING insight has a live job or
    somebody about to publish or end it, a playstyle shown as pending is asked for again.
  - `SettledPagesAreConsistent`: when no call of the present load is under way, detail page,
    directory and match page show what their route, URL and filters say.
  - `TextsAreSupported`: a stored text cites only what the model was shown, on samples large
    enough; and what is sent to the model can be answered.
  - `SettingsHold`: processes with one environment agree on every variable they share
    (`ProcessesAgree`, but for one queue name); cadence follows activity, pacing is monotone,
    defaults can be written out, ladder plans are what was asked (`PoliciesHold`).
  - `ReportsAreTrue`: an audit names every fault that stood from its first query to its last, and
    exactly the faults when nothing disturbed it (`AuditIsExact`); sums of a report agree
    (`ReportsAddUp`); the counters of a seeding are what it did, whatever others enrol
    (`SeedTellsTheTruth`).
  - `StaticDataIsSound`: an active patch has its champions, a sync that none overlapped leaves one
    active patch, and a sync reports what it stored unless an answer of the database is lost.

### Why the bounds are enough

The aggregation needs one key that changes between the upsert of one trigger and the clear of a run,
which three triggers and one participant give; sharing needs two matches, in `agg_shared`.
`Concurrency` is 1 in all of them (see section 5 for 2). In `enrollment` two transactions are under
way at once and a third may follow; caps of 1 to 3 are all reached, and the chain of two matches is
the shortest with a player of depth 2 to reject. Two players and two runs are enough for every
conflict over a lease, and budgets of 2 let a wave hold one or two players and leave a rest for the
next. In `budget_skew` three grants overfill a limit of 2 and `Skew = 1` makes every pair of
readings differ both ways; `budget_shares` has limits at which the roundings of the three
percentages differ. One caller is enough there because the script is atomic: what a second caller
could add between two calls, the same caller adds. In the ingestion runs two workers are the
execution that lost its lock and the one that took over; two faults reach every pair of failures;
`CommandsAtOnce = 1` keeps the two commands from overlapping each other, not from overlapping the
rest, and `NothingForgotten` is proved without it. The stored match may already be there with a
stale roster row, as the tests have it (`match-ingestion.processor.test.ts`,
`match-persistence.test.ts`): in `ing_live` its player asks for it and the match is ingested again,
in `ingestion` it is another player's, and stays as it is.

In `services` each part has the actors its question needs and the inputs that tell the branches
of its code apart (`MCServices`):

| Part | Bounds |
|---|---|
| cache | 2 requests, 5 queries, 2 patches, 2 rewrites, 1 failed Redis call |
| names | 2 processes, one caller each at a time, time to live 1, clock to 2, 2 versions, 2 loads |
| refresh | 2 clients, 1 match, 2 requests, 1 fault |
| history | 1 reader, 1 writer, 3 rows, 2 times, pages of 1 row |
| rebuild | 2 matches, 2 champions, 1 filter, 1 rebuild, 1 change, 1 fault, any runs of the worker |
| math, view | 6 games, with a missing opponent, remake, champion 0, late frames; all 256 choices of 8 events, 3 series of frames |
| ranks | 2 rows of 1 identity, 1 worker, answers unranked, rate limited and unauthorised, reads of 3 rows |
| timeline | 1 match, 2 workers, 2 callers, 2 attempts |
| detail, directory, player, match | 2 champions, 3 filters, 2 actions; 3 patches of filters; 2 players, 1 action, 1 poll; 2 matches, 4 actions |
| insight, champion, playstyle | 2 requests, 2 executions, 2 attempts; 19 contexts; windows of up to 8 matches, 1 repair |
| settings | 63 environments, 31 command lines, 36 pressures |
| reports | 20 databases, 1 change by the collector, 1 unit of time |
| seed, static | 3 players, 5 pages, 1 enrolled elsewhere; 2 syncs, 2 versions, 4 files |

Two overlapping actors are what every one of these protocols can go wrong with, and one failure is
what they promise to survive. Two cases the modules have are not reached there: a file that swaps
the keys of two champions (`KeyClash`), and an unavailable League-v4, which takes the branch of a
rate limit.

Deadlock is checked in the ingestion runs. The others stop when their bounded triggers,
enrolments, runs, actions or clock are used up and turn it off; there termination is a property
instead (`EventuallyQuiescent`, `EnrollmentsEnd`, `RunsMakeProgress` with `NobodyIsStuck`),
except in the services.
Symmetry is used for writers, processes, players of the collector, workers, and the clients and
processes of the services, in runs without liveness properties.

### Fairness

- `ChampionAggregation!Fairness`: executions under way, the queue and its follow-ups, and the
  retry of an ingestion left IN_PROGRESS go on. Node processes are up and BullMQ delivers.
  Triggers, failures and the reconcile command are not fair.
- `Enrollment!FairSpec`: each enrolment goes on. Weak fairness suffices because one lock order
  makes every wait end.
- `MatchIngestion!Fairness`: players refresh again, and workers go on. No repair command and no
  failure is fair. Discovery is fair as a whole, since a player who comes back starts over.
- The collector and the budget use none: `RunsMakeProgress` is a measure that every step of a
  run lowers (proved), and `NobodyIsStuck` says that a step is enabled (model-checked);
  `WaitsAreBounded` bounds each wait.
- The services use none: what should happen in the end is stated as an invariant, that somebody
  is left to do it.

## 4. The proofs

`tlapm <Module>Proofs.tla` checks them. All hold for every value of the constants that meets the
assumptions: finite sets where cardinalities are taken, caps and limits that are natural numbers,
percentages within the range the code accepts, marks that differ from what they mark. These are
`ASSUME`s of the modules that TLC runs on their own, and evaluated there. The services are run as
parts of `Services`, which instantiates them; their assumptions are definitions, the theorems about
a part have them as hypotheses, and the assumption of `Services` (`ServicesAssumption`) is that all
of them hold, which TLC evaluates for the instance it runs.

| Module | Theorems |
|---|---|
| `ChampionAggregationProofs` | `Inductive`, `TypeCorrect`, `ClearCovers`, `OwedReconcilable` |
| `EnrollmentProofs` | `Inductive`, `TypeCorrect`, `BudgetsAccurate`, `GrowthBounded`, `RunCountsSources`, `DepthShrinks`, `RefinesPopulation` |
| `CollectorProofs` | `Inductive`, `TypeCorrect`, `NoLeaseLeft`, `CountsAreTrue`, `StaleTicks`, `RefinesClaims`, `RunsEnd` |
| `RequestBudgetProofs` | `Invariant`, `TypeCorrect`, `WindowHolds`, `LimitsHold`, `CooldownWins`, `WaitsEnd`, `WaitsAreExact` |
| `MatchIngestionProofs` | `Inductive`, `TypeCorrect`, `NothingForgotten` |
| `ServicePartsProofs` | `CacheInductive`, `CacheTypeCorrect`, `CacheCurrent`, `TimelineInductive`, `TimelineTypeCorrect`, `TimelineWhole`, `TimelineStays`, `HistoryInductive`, `HistoryComplete`, `RebuildInductive`, `RebuildRowsAreTrue`, `StaticInductive`, `StaticSound`, `DetailInductive`, `DetailSettles`, `PageInductive`, `PageSettles`, `RanksInductive`, `RanksArePursued` |
| `ServicesProofs` | `NamesInductive`, `NamesAreYoung`, `RefreshInductive`, `RefreshIsHonest`, `InsightInductive`, `InsightIsPursued`, `DirectoryInductive`, `DirectorySettles`, `PlayerInductive`, `PlayerIsPursued`; of `Services`: `ReadersAreServed`, `RefreshesHonest`, `StoredRowsTrue`, `TimelinesStay`, `PagesSettle`, `PromisesPursued`, `StaticDataSound` |
| `SumLemmas` | what a sum over a finite set is |

Each inductive invariant `IInv` is a conjunction of named parts, stated at the end of the
component's module or at the head of its proofs; the proofs have a lemma for each action or group of
actions, and under it one step for each part the action can disturb. In the proofs of the services,
each part has a section (its invariant is in `ServiceInvariants`): lemmas about its operators,
`InitIInv`, one lemma per action or group of them, `NextIInv` and `IInvSuffices`, all with the
part's name before theirs. That a step of `Services` in a part is one of the part's own
(`StepsOfCache` and so on) carries each invariant over.

**Aggregation.** `ClearCoversRow` is about one step, the clear: the row is deleted if it still
holds what the run loaded. That run recalculated every key it loaded (`RunsCoverLoaded`) only
because the phases between read and clear leave `loaded` and `affected` alone, and both are sets of
keys only because the rows of stored matches have their dimensions (`StoredMatchesArePlaced`) and
triggers under way are about matches (`WritersHaveTargets`).

`OwedReconcilable` proves `WhatIsOwedIsReconcilable` for the setting in which the code keeps it,
`OneFailureSetting`: matches are ingested once and their rows enriched, one row per match, by any
number of concurrent executions; one job runs at a time; at most one thing fails, and not before the
scope row is durable nor at the INCR; a stalled job is redelivered; an enrichment ends with an
answer. Matches, slots, tiers, executions, triggers and attempts are arbitrary. None of these
hypotheses can be dropped: without any one of them TLC finds a counterexample (section 5). The
second invariant, `OwedInv`, follows what is owed. A match *owes* while it has a scope row, a marker
that is not COMPLETED, or an execution that will store a scope row (`Owing`), which only a clear
ends (`OwingStays`). So the question is what a clear may leave behind: it deletes the row it loaded,
and from its read on a run covers the rows as they are, unless an enrichment has changed them since
(`RunsCoverMatch`). That enrichment then still has to store its key, or has stored it and made the
row another than the one loaded, because the key of a row that is not enriched yet is pending
nowhere before (`KeysAreAnnounced`). After the clear the run itself stands for the generation and
the matchups (`GenerationIsPursued`, `MatchupsArePursued`), and if the one failure takes it, the
redelivered job finds no scope row and leaves the marker FAILED (`ToFail`). Aggregates only lag
behind: contributors grow, so a fold is never ahead of them (`NothingExtra`), and who is missing
belongs to a match that owes (`AggregatesCatchUp`).

**Enrolment.** The argument is the lock order: every transaction updates the budget row first, so at
most one is past it (`OneTransaction`); what it has reserved was free when it tested and still is
(`ReservedIsFree`), because only it can commit. `ReservedByPc` says which rows it holds. Hence the
counters equal the rows, and a commit that adds a row stays below the ceilings: the step maps to
`Enroll` of `TrackedPopulation`, every other step to a stutter. Growth needs what an expansion
knows at each of its steps (`GrowthByPc`): the depth test it passed is about the depth it will
write, whatever becomes of its source, and a reserved place of a run or a source is below its
quota. That the two quotas agree (`RunCountsItsSources`) is an equation between a counter and a
sum; `ReservedTogether` says that a transaction which can commit has a place in both or in neither.

**Collector.** `IInv` has four parts. Claims: a run holds no lease once it has released (`RunInv`),
and while a claim lasts nobody else moves the streak it was made on (`StreakIsKept`), because who
takes over a lapsed lease changes the owner first; from this follow `NoLeaseLeft` and the
refinement, in which a settlement maps to `SettleSuccess` or `SettleFailure`, claims to `Claim`, and
all else to what the contract leaves to the environment (`Lapse`, `Operator`) or to stutters.
Counts: what the refreshes of a wave may still find fits in what is left of each budget
(`SharesFit`), a sum over players that the shares were cut from, and the history agrees with the row
and the outcomes not yet folded (`TallyAgrees`). Ticks: generations are handed out in order
(`TicksInOrder`), so an owner is never older than the last one that recorded. Types, last, bound all
counters. `RunsEnd` needs the sum again: the measure adds up what is left to do for each player.

**Budget.** The properties speak of history, the script of its sets, so the invariant ties them: a
grant that a later reading could still count is in its set (`NothingRecentHasLeft`) whatever reading
pruned it or whatever expiry dropped the key; readings are within `Skew` (`ReadingsAreClose`); the
cooldown covers all that was published (`PublishedIsCovered`); a deadline is where it was first set
(`DeadlinesAreClose`). A grant then finds fewer than the limit in the set, so adding it keeps the
window (`OneMoreFits`, `AdmittedFits`), and windows that end earlier do not see it.

**Ingestion.** With no job to go on, none about to be added, and nothing in `lost`, a record no
command looks for (RUNNING
or COMPLETED) belongs to a finished match: `ClosedIsFinished`. The steps that could break
it are the blind writes, so the invariant says who makes them: the holder of the lock executes the
active job (`HolderExecutes`), so any other write that closes a record is one of those `lost` names;
a failure is recorded only as it was classified (`FailuresAreClassified`); a holder past the commit
still has the match complete (`CompletionStands`); and nothing comes before the record
(`RecordComesFirst`).

**Statistics cache.** Pages are compared with what a generation promises. A counter is never ahead of
the rewrites that were committed (`CountersFollow`); a request's generation is one the counter has
had, and while it is the current one the request was promised what the counter promises
(`RequestsFit`); two requests with one generation were promised the same (`GenerationsPromise`); a
cached page is about what its key is about, and as new as its generation promises to those that have
it or will read it (`PagesFit`). An INCR makes a generation that no request has and no page is stored
under; a fill that began before it stores under the old key. That two keys are equal only for one
scope and generation is a lemma about the key the code builds (`CacheKeysDiffer`).

**Timeline.** `TimelinesAreWhole` is inductive as it stands, because one transaction writes the row
and what its coverage promises. `StoredTimelinesStay` is about who may be about to write: a run that
nothing came between holds the job of its match (`RunsHoldTheirJobs`), jobs have one holder and only
active jobs have one (`JobsAreOrderly`), so a second run of the match cannot have stored anything
since the first one read (`StoredIsNotFetched`).

**Names.** A list in memory expires a time to live after it was *fetched*, not after it was put there
(`NamesListsExpire`). Lists come to memory from Redis and from a load somebody else began, so their
age has to survive both; the proof is that what is kept keeps its `fetchedAt` (`NamesKeptAge`). A
load that Redis keeps waiting after its fetch may hand over a list that has expired by then: what
can be said of it is that it was fetched since the load began (`NamesLoadsFetch`). For the caller that
began the load this is after it asked; a caller that joined later has only that.

**Refresh.** What a request answers is computed from reads that are several steps old.
`RefreshLinkedIsLinked`: what it found linked is in its list and stays linked, so that COMPLETE is
honest whenever it is said (`RefreshAnswersAreHonest`, which also speaks of the cached profile).
`RefreshHoldsLock`: until a lock expires under its refresh, whoever refreshes holds it, so there is one; and
then, unless a search or a failure came between, what it read of the meta value is what it still is,
and that is all that was discovered (`RefreshMetaIsRecorded`).

**Histories.** Rows arrive at any time with any older time, and a cursor is a row. A walk *owes* the
rows that were there when it began and that it has not shown. The invariant is that all it owes are
below its cursor (`HistoryFollowsRows`) and what it has shown is in strict order. A page takes the
greatest rows below the cursor, so it leaves nothing owed above its last row, and a page that is not
full leaves nothing at all (`HistoryListable`: ids tell rows of one time apart, else the order
would not be one).

**Rebuilds.** `RebuildFollows` describes the tables relative to three things: what they showed before,
what the matches say now, and what the command holds in memory. While no match changes, keys outside
the filter are as before or as the matches say (`RebuildOthersAreSame`), since the worker may
recalculate any of them; keys within it are, for the pages of builds and matchups, the same until the
delete, gone or true until the create has ended, and then as expected (`RebuildPagesFollow`); for
champions, still to do, in the batch under way, or true (`RebuildBatchesFollow`). The worker's runs
go on beside all this, each in several writes. What a run holds is what the matches said at its fold
or its scan, so it is true unless a match changed after it (`old`): `RebuildWorkFollows` says so of
every run without that mark, and that while `quiet` no run has it. Hence any write of a run makes
rows true, except that its delete leaves gaps until its create, which may fail; `torn` has those
keys, and a row that is missing is one of them, or missing in truth (`RebuildRowsMove`). If a match
does change, nothing is claimed until runs with older figures are over and another rebuild begins,
which is what `RebuiltRowsAreTrue` says too.

**Static data.** A sync reads, writes and commits in several statements at READ COMMITTED, and two may
overlap. A row lock keeps two transactions off one version (`StaticExclude`), and a transaction that
meets another is marked as overlapped. So the champions a run found in its version are those it
commits to, and a run that none overlapped knows every active patch (`StaticKnows`); the checks of the
file say that it has enough champions and no two of one key, and with the check against what is stored
that rosters only grow and stay apart (`StaticPatchFits`, which speaks of all rows, active or not).
That one patch is active after an undisturbed sync is a cardinality, `staticAlone => ... = 1`. What a
run reports has to be traced from the statement that counted (`StaticTold`).

**Insight queue.** That a PENDING row has a live job is not inductive: the holder of the job may be
past its own end, with the row made PENDING again behind it. `InsightPursued` says what saves it: the
run that holds the job has not ended as completed or failed unless a request is under way that looks
at the job again. `InsightOneOwner` says that the queue hands out the job once.

**Ranks.** An execution writes the rows it has read and no others, so a row committed after the read
depends on its own enqueue; that one leaves a job to begin, or the identity excused when it finds
the run under way. `RanksRunsKnowTheirRows` says it of every execution that still has its lock: an
unresolved row it has not read has an enqueue at work or an excuse. The job that such an execution ends
is then no longer needed, or is delayed or failed, which keeps `RanksRowsFollow`, as does a failed job
that is dropped, since it leaves its identity excused; one that has lost
its lock leaves its identity excused when it asks or writes. `RanksAsksAreNeeded` says that a run
which is to ask found nothing to use again: only an execution without the lock can have stored an
answer since. `RanksOneOwner` says that the queue hands out the job once.

A page of the backfill is selected from two reads, between which rows fail, resolve and arrive. What
the first read owes the second is `RanksPageFollows`: a row known then that is pending now is among
those read, or they were as many as one query returns and all come before it; a status never turns
back to PENDING, so this stays true. That a query returns the first rows of a status, or all of them,
is `RanksReadsAreFirst`. The order in which candidates are taken is total and the bounds are monotone
(`RanksFewerFit`), so whoever comes before a candidate that was taken was taken; a read that was cut
short has more rows than a page may take (`RanksReadsSuffice`), so nothing that it left out comes
before the last one taken (`RanksPagesHaveNone`). That a page has a last candidate, and a set of rows
a least one, is the smallest-subset argument below.

**Player page.** `PlayerRequests`: ids of requests do not pass the id of the latest load, and the
request with that id is for the player of the route, so there is one. A timer is always that of the
latest load, and then its request is not under way.

**Pages.** Every call carries the load it belongs to or a number of its own, and answers come in any
order. The invariants say of each kind of call that the latest one asks what the address, URL and
filters say now, and that what is pending is under way (`DetailStatsFollow`, `DetailPanelsFollow`,
`DirectoryRankingIsOfUrl`, `DirectoryIsOfUrl`, `PageDetailIsOfRoute`, `PageTimelineIsCached`). In the
detail page, statistics for other filters may arrive while a navigation of the present load is under
way, whose end asks again; `DetailUrlFollows` says that such a navigation exists whenever URL and
filters differ. In the directory, patches of filters are applied one after the other
(`DirectoryPatchesInTurn`), and a patch changes the table or the list, never both, so that an
assigned patch may already have announced the next request of one and leaves the other alone.

**Induction over finite sets.** The induction theorems of the library take an operator and cannot be
used here. `SumLemmas` and `CacheGreatestOf` argue with a smallest counterexample instead: the subsets of a
finite set are well-founded under inclusion (`FS_StrictSubsetOrderingWellFounded`), so some smallest
subset fails (`WFMin`), and it does not, with one element less. A sum is compared with a number
of units, whose additivity the library has as facts about cardinalities; that gives the sum over a
set whatever order its elements are taken in.

Two properties were wrong as first stated, which the proofs showed and TLC's bounds had not.
`RunsMakeProgress` did not hold for a step that a dying process takes with it; it is now about the
steps of live processes. `NothingIsForgotten` was checked only when all was at rest, and hid that an
execution without the lock masks a record the commands look for (`masked`, section 5); it now holds
whenever no job is live or about to be added.

Only model-checked:

- liveness under fairness (`EventuallyQuiescent`, `RemainingScopeIsFollowedUp`, `EnrollmentsEnd`,
  `SearchersGetTheirMatch`) and `NobodyIsStuck`, which speaks of `ENABLED`;
- `TextsAreSupported`, `FiguresAgree` for the match page, and the listings behind `ReportsAreTrue`: they are
  about what `SelectSeq`, `FlattenSeq` and other recursive definitions return, and induction over
  their arguments is out of reach of the provers used. For the same reason the sums and folds of the
  matchups are compared with their definitions by TLC;
- `SettingsHold`, a comparison of tables whose entries are the point of the check;
- the types of the services as a whole (`TypeOK` of `Services`); those of the proved parts are part
  of their inductive invariants.

## 5. Observations

Where the code does not do what a comment or document says, with a run that shows it:

1. `agg_upsert_race`. Two upserts of one scope row at READ COMMITTED: the later write replaces
   the keys of the earlier (`champion-aggregation.repository.ts:285`, against line 172). This
   is also why `StaleIsReconcilable` is checked with one participant per match.
2. `enr_window`. The requesting player is dropped before the window is taken, so a second
   tracked participant slides it (`participant-expansion.select.ts:59`, against the repository's
   README, line 459).
3. `col_overshoot`. A timeout does not cancel the discovery, whose enqueues nobody counts
   (`population-collector.service.ts:590`, against line 139).

Seen in the models, without a run of their own:

- *Aggregation.* `scopeRemains` is computed when the scope is cleared, but the job stays live
  through the INCR and the matchups: an enqueue in between is absorbed by it and nothing enqueues
  again (`champion-aggregation.processor.ts:111`). Enrichment writes by id over ranks another job
  has resolved meanwhile (`participant-rank-enrichment.service.ts:202`, comment in line 180). A
  process that dies between the commit of a match and the scope row leaves, behind a COMPLETED
  marker, a stale aggregate that `reconcile` does not find; so do `linkMissingParticipants`, and
  reconcile itself when it writes equal keys again under a run about to clear (the clear compares
  values). With two jobs at a time, contributors are read outside the write transaction and an older
  fold may win. A failed INCR leaves pages of the old generation behind a COMPLETED marker, and so
  does a job that BullMQ fails as stalled after its clear. A run deletes the matchup rows of a
  match's pairs and creates them in two statements without a transaction, after an earlier scan: a
  run that dies between them leaves the pairs without rows until one runs again, and the marker of a
  job that failed is itself written by a statement that may fail and is then only logged. An
  ingestion decides which ranks to keep from rows read before its transaction. An enrichment that
  ends PENDING announces keys which the next one announces again: if that changes the rank after the
  run has read the row, the clear finds equal keys. A reingestion gives a row a tier that an
  enrichment under way overwrites without announcing its key. Two failures are enough where one is
  not: a run dies after its clear and is redelivered; `Job.remove` of a follow-up or an upsert,
  decided on when the job was still retained, removes the redelivered job, and dies before the add
  (`enqueue.ts:98`, `enqueue.ts:182`); matchups and generation stay behind.
- *Ingestion.* `lost` names six holes. `stalledOut`: a job that stalls too often is failed by BullMQ
  without the processor; the record stays RUNNING, which neither command looks for. `unrecorded`:
  the job failed for good while its failure could not be written. `masked`: an execution without the
  lock writes RUNNING over a record that a repair command would have found, when the job is already
  gone and the match unfinished. `undone`: an execution without the lock reads the match before, and
  overwrites it after, another completed it (`match-persistence.ts:175`, comment in lines 159-160).
  `closed`: a record marked COMPLETED because the match is, although its follow-ups were not taken.
  `withdrawn`: a producer removed the finished job, or one that had replaced it since it looked
  (`match-ingestion.producer.ts:79`), and Redis failed before it added its own, while the record
  says RUNNING. `SearchersGetTheirMatch` names the first two, `undone`, and a record that stays
  FAILED or DEAD_LETTERED, where nothing but the retry command helps. A probe that cannot fetch a
  job counts it as absent, one that cannot read the state of a job ends the discovery
  (`match-ingestion.producer.ts:138`). A forced overwrite also keeps the account of a slot whose
  PUUID changed (against `match-persistence.ts:62`).
- *Budget.* A later response with a shorter pressure replaces a longer one (plain SET). Missing
  headers keep the last observed limit, where the coordination report says that they fall back
  to the configured window.
- *Collector.* The row of a run whose process died stays RUNNING. A database error while the
  scheduler's lease is taken or released ends `runLoop`.
- *Reads.* A cached response repeats `requestedFilters` and `usedDefaultPatch`, and a page of
  matchups `resolvedFilters.tier`, of another request with the same key; the label of freshness
  is cached, and read after the rows. The filters page is keyed by the default patch's generation
  and may miss another patch until its time to live. A failed read of the generation uses keys of
  generation 0; a failed INCR leaves stale pages until they expire. In `ChampionNames` a refresh
  does not cancel the load in flight, which may then put an older version over the newer. A caller
  that joins a load while its write to Redis is slow gets a list that was fetched before it asked, and
  that may have outlived its time to live (`data-dragon-champion.service.ts:183`).
- *Refresh.* The cooldown is checked before the lock, so a refresh that waited starts right after
  another completed. The lock is deleted whoever holds it (`player-refresh.service.ts:158`). A
  failed call for match ids overwrites the list of discovered matches with an empty one, so that a
  poll says IDLE; the read-change-write of that value loses a discovery when a search overlaps. A
  COMPLETED record without a link is PROCESSING for ever. Synchronisations that overlap may insert
  a snapshot twice.
- *Rebuilds.* A build or matchup rebuild limited to some pages deletes the rows of all matches in
  its scope; a crash between delete and create leaves the scope empty. The champion rebuild's
  delete drops keys stored after its enumeration and marks COMPLETED, against the comment at
  `rebuild-core.ts:488`. `recalculateMatchupsForMatch` leaves rows of pairs the match no longer has.
  Its scan, `deleteMany` and `createMany` are not one transaction (`rebuild-core.ts:483`, 500, 519 of
  the matchups): beside a rebuild, or another run, a run with an older scan puts older rows over newer
  ones, one that stops after its delete leaves pairs without rows, and an insert of rows that exist by
  then fails, on either side.
- *Figures.* A participant with champion 0 is left out of the pairing but not of the search for an
  opponent by raw position. "Minute 10" of a shorter game is its last frame.
- *Ranks.* The backfill's cursor is the last id of a page that mixes PENDING rows with
  FAILED_RETRYABLE ones, so a resumed backfill skips rows of the other status with lower ids. A
  stale run may overwrite a resolved row. An enqueue that finds the job active reports published,
  though rows committed after the run's load wait for the next one. Removal and add of a job are
  two calls. The two statuses of a page are read in two queries: a row that fails between them is
  looked at twice and may take two places. A failed job is dropped after a day (`enqueue.ts:15`), and
  then only a backfill finds its rows.
- *Timeline.* A permanent answer writes FAILED over a timeline that another writer stored while the
  run asked Riot (`match-timeline.processor.ts:257`); the page then says UNAVAILABLE although the
  rows are there. A refetch whose timeline fails empties the frames of a STORED timeline and keeps
  its events. A backfill that includes ineligible matches reports `alreadyQueued` when a job
  without the flag is live, and that job skips the match. An ingestion sets the coverage to STORED
  before it computes the metrics (`match-ingestion.processor.ts:600`); if that throws, FAILED stands
  beside STORED and the events. Of two frames with one timestamp the
  metrics take the last, the rows the first. In the event stream of all kinds two towers at one
  millisecond are shown as the same row twice (`MatchEventStream.vue:111`), which `PagesAgree` states
  as its exception.
- *Insights.* `upsertPending` wipes a READY text when the reader's read was stale; the exhausted
  handler, or a stalled run that overlaps, overwrites READY with FAILED; a publication that meets a
  run past its read leaves PENDING until `stalePendingMs`. The validation accepts the catalogue id
  of an ability that the model was not shown, does not ask the economy and combat paragraphs for
  evidence of their kind, and does not check the direction of a comparison.
- *Pages.* The detail page clears its statistics so that none are stale before the URL is written,
  but counts the request only after the URL is, so an older response may land between; the
  directory likewise. The directory does not read its filters when only the URL changes. On the
  player page an old poll may stop a newer one, a failed poll of the playstyle leaves its text
  pending, and a profile that arrives after the page was left starts a poll. On the match page
  going to another match and back asks for the timeline twice, and the failure of the later
  request replaces the loaded timeline.
- *Settings.* The worker accepts 0 for `totalTrackedPlayersHardCap` and the API does not, although
  `participant-expansion.config.ts:8` asks both for the same caps; the worker defaults a blank
  aggregation version that the API refuses; the API does not trim the timeline queue name and has
  no upper bounds for the AI settings; the bootstrap's fallback of 100 matches is not compared with
  a smaller hard maximum; a run of 50 players at concurrency 1 may outlast `staleRunAfterMs` and be
  reported stale; shares are added as floats, so 0.9 + 0.05 is refused; a blank number on the
  command line is 0.
- *Reports.* An audit of a collector at work may report a lease as orphaned or left over, or a
  drift of a budget, that no moment had; with more than 100 RUNNING rows, which crashed runs leave,
  live leases look orphaned. READY patches are ordered as text ('16.9' after '16.10') when there is
  no active one. Exit code 1 of the audit is findings or failure alike.
- *Seeding.* `identityResolved` counts a player whose names another process stored meanwhile; one
  entry of an unmapped queue fails the page and the run; a failed later page discards what earlier
  ones had; an Account-v1 error is counted and Riot is asked on; `skipped_cooldown` is `ok`.
  The seeder's own reads are in no try: an error of Redis or the database ends the run without a
  report.
- *Static data.* A build sync of a new version creates its patch READY and without champions;
  without the overlay file a re-sync puts short texts over the full ones; verification comes after
  the commit; two overlapping syncs may leave two active patches until the next; an older pinned
  version is made active again; rows no longer in the file stay. The champion diff compares nested
  values as JSON texts (`sync-champion-static-core.ts:151`), and a `jsonb` column returns keys in an
  order of its own, so champions that did not change may be reported as changed.

## 6. What is not modelled

Within the modelled components: outcome and error codes, priorities and delays, metrics, log
lines; bans, patches and the arithmetic of the folds; timeline contents; batch limits of the
repair commands; graceful shutdown; the budget disabled by configuration and the parsing of
header text; why the scheduler skips. Branches that cannot be reached are left out: the
zero-budget claim (`releaseZeroBudgetClaim`, a wave is never larger than both budgets), the
finalisation conflict, the creation of a record by the worker (a record precedes its job),
`reconcileTrackedPlayerBudgetFromRows` (only tests call it). Follow-ups of a match are one step,
consecutive reads are merged, and a crash is merged with the stall that recovers from it.

In the services: sorting, paging and minimum samples of the statistics (part of every cache key),
the Wilson interval (real arithmetic), the extraction of builds from items, the wording of prompts
and texts, values of the playstyle's metrics, the bootstrap's sequence of calls and its
verification report, limits of the reports' listings (500 leases, 100 runs, 200 mismatches, 50
depths), fields of responses that no property is about, and environment text beyond what
`RawValues` tells apart.

Hazards that are seen in the code and that no property covers: two jobs that fold one aggregate row
at the same time, a later ingestion job that decides from the marker, a job that stalls too often,
a run whose process dies, an error that ends the scheduler's loop, the reconcile command that
closes a record. Section 5 has what the models show of them.

Not modelled: the schemas of requests and responses, the Riot provider's mapping of endpoints, the
worker's reports that print queries as text, templates and styling of the web client, migrations
and deployment. They keep no state and decide nothing that another part depends on.

## 7. Plan

Done, in this order, most important first: (1) `ChampionAggregation`, (2) `TrackedPopulation`
and `Enrollment`, (3) `PlayerClaims`, `PopulationCollector`, `CollectorScheduler`,
(4) `RequestBudget`, (5) `MatchIngestion`, (6) the twenty services of `Services`, (7) proofs of 1,
2, 4 and 5, of 3 but for `NobodyIsStuck`, and of thirteen of the services.

8. Proofs. Aggregation: more than one row per match, once the upsert merges in one statement.
   Services: the counters of a ladder seeding and the findings of an audit, which need their listings
   stated as sets.
9. An abstract cache (a response is never older than the last invalidation before it) implemented
   by `ChampionStatsCache` and, with time for generations, by `ChampionNames`; the composition of
   `MatchIngestion` with `MatchTimeline` and `RankEnrichment`.
