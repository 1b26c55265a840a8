-------------------------- MODULE CollectorReports --------------------------
(***************************************************************************)
(* The read-only reports on the collector: the audit, the status, the      *)
(* coverage and the preview of a run.  A report is a series of queries     *)
(* with no transaction round them, while runs start, claim, enrol and end; *)
(* what the collector does is reduced here to the rows its steps commit.   *)
(* Queries of one table that one promise issues together are one read.     *)
(***************************************************************************)
EXTENDS Integers, FiniteSets, Sequences

LOCAL INSTANCE FiniteSetsExt

CONSTANTS
    Databases,       \* the databases a report may find
    Runs,            \* ids of collector runs, integers
    Players,         \* tracked players and players still to be enrolled
    Config,          \* the limits and durations of the collector's configuration
    FinalizedLimit,  \* how many finalized runs an audit looks at (500 in the code)
    MaxChanges,      \* bound on what the collector does while a report is made
    MaxTime,         \* bound on the clock
    None             \* no row, no report

VARIABLES
    db,        \* the rows: runs, quota, players, budget, scheduler and what coverage reads
    clock,
    changes,   \* how often the database has changed
    job,       \* the report being made, or None
    done       \* the report made, or None

vars == <<db, clock, changes, job, done>>

Rows(table) == {id \in DOMAIN table : table[id] # None}
Select(table, Test(_)) == {id \in Rows(table) : Test(table[id])}

(***************************************************************************)
(* What the collector commits while a report is made.                      *)
(***************************************************************************)
Running(run)   == run.status = "RUNNING"
Finalized(run) == run.status # "RUNNING"
Leased(p)      == p.owner # None
LeaseActive(p, now) == Leased(p) /\ p.until # None /\ p.until > now
Claimable(p)   == p.status = "ACTIVE" /\ p.due /\ (p.until = None \/ p.until <= clock)
                    /\ p.route \in Config.platformAllowlist

(***************************************************************************)
(* The reads.                                                              *)
(***************************************************************************)
Stale(run) == Running(run) /\ run.finish = None /\ run.start < clock - Config.staleAfter

(* The newest finalized runs; a run without an end comes first. *)
Newer(r, q) ==
    LET key(run) == IF run.finish = None THEN MaxTime + 1 ELSE run.finish
        a == db.runs[r]  b == db.runs[q]
    IN \/ key(a) > key(b)
       \/ key(a) = key(b) /\ a.start > b.start
       \/ key(a) = key(b) /\ a.start = b.start /\ r > q
Listed ==
    LET ended == Select(db.runs, Finalized)
    IN {r \in ended : Cardinality({q \in ended : Newer(q, r)}) < FinalizedLimit}

Part(table, ids) == [id \in ids |-> table[id]]
Count(Test(_)) == Cardinality(Select(db.players, Test))
HardMaxDepth == 3
HardMaxTrackedPlayers == 5000

EligibleCount == Count(Claimable)

(* The order of a claim and of its preview: a player never refreshed comes *)
(* before one that was; the rest of the order is the id's.                 *)
Before(p, q) ==
    \/ ~db.players[p].refreshed /\ db.players[q].refreshed
    \/ db.players[p].refreshed = db.players[q].refreshed /\ p < q
Candidates(limit) ==
    LET due == Select(db.players, Claimable)
    IN {p \in due : Cardinality({q \in due : Before(q, p)}) < limit}

(***************************************************************************)
(* Coverage: how dense the aggregates of the newest patch are.             *)
(***************************************************************************)
Positions == {"TOP", "MIDDLE"}           \* of the five
CoveragePatch == IF db.patches = {} THEN None ELSE Max(db.patches)

(* The rows of the patch whose scope is every tier: <<champion, position>> -> sample. *)
Sample(cell) == IF CoveragePatch = db.tablePatch THEN db.table[cell] ELSE 0
Cells(position) == {cell \in DOMAIN db.table : cell[2] = position}
AllCells == DOMAIN db.table
Keys(cells, least) == Cardinality({c \in cells : Sample(c) >= least})
MaxSample(cells) == Max({0} \cup {Sample(c) : c \in cells})

Density(cells) == [gte1 |-> Keys(cells, 1), gte30 |-> Keys(cells, 30),
                   gte100 |-> Keys(cells, 100)]
PositionDensity(position) ==
    [density |-> Density(Cells(position)), max |-> MaxSample(Cells(position))]

(* Mutant: the upper bounds left out of their buckets. *)
HalfOpen(bucket) ==
    CASE bucket = "1-2"   -> 1 .. 1
      [] bucket = "3-9"   -> 3 .. 8
      [] bucket = "10-29" -> 10 .. 28
      [] bucket = "30-99" -> 30 .. 98
      [] bucket = "100+"  -> 100 .. 1000
Buckets == {"1-2", "3-9", "10-29", "30-99", "100+"}
Bucket(bucket) ==
    CASE bucket = "1-2"   -> 1 .. 2
      [] bucket = "3-9"   -> 3 .. 9
      [] bucket = "10-29" -> 10 .. 29
      [] bucket = "30-99" -> 30 .. 99
      [] bucket = "100+"  -> 100 .. 1000     \* any sample of 100 or more
Histogram == [b \in Buckets |-> Cardinality({c \in AllCells : Sample(c) \in Bucket(b)})]

NearFloorMin == 20
NearFloor(cells) ==
    Cardinality({c \in cells : Sample(c) \in NearFloorMin .. Config.minimumSample - 1})

(* The public roster of a patch with READY static data: an active one, or  *)
(* the newest there is.                                                    *)
Roster == {champion \in db.roster : champion < 60000}
ClassicZero ==
    IF db.staticData = "none" THEN [status |-> "unavailable"]
    ELSE [status |-> "available", roster |-> Cardinality(Roster),
          zero |-> Cardinality({c \in Roster : \A cell \in AllCells :
                                    cell[1] = c => Sample(cell) = 0})]

EmptyLadder == [status |-> "partial", missing |-> 0, byTier |-> [t \in {} |-> 0],
                flagged |-> FALSE, warned |-> TRUE]
Apex == {"CHALLENGER", "GRANDMASTER", "MASTER"}
LadderRepresentation ==
    LET IsLadder(p) == p.source = "LADDER" /\ p.route \in Config.platformAllowlist
        roots == Select(db.players, IsLadder)
        tiers == {db.players[p].tier : p \in roots} \ {None}
    IN [status    |-> IF roots = {} \/ db.observed = {} THEN "partial" ELSE "available",
        missing   |-> Cardinality({p \in roots : db.players[p].tier = None}),
        byTier    |-> [t \in tiers |-> Cardinality({p \in roots : db.players[p].tier = t})],
        flagged   |-> tiers # {} /\ tiers \subseteq Apex,
        warned    |-> roots = {} /\ db.observed = {} /\ db.exactTiers = {}]

Snapshot ==
    [status    |-> IF CoveragePatch = None THEN "partial" ELSE "available",
     patch     |-> CoveragePatch,
     positions |-> [p \in Positions |->
        [max |-> MaxSample(Cells(p)), some |-> Keys(Cells(p), 1),
         atFloor |-> Keys(Cells(p), Config.minimumSample), nearFloor |-> NearFloor(Cells(p))]]]

Detail ==
    [patch |-> CoveragePatch, density |-> Density(AllCells), histogram |-> Histogram,
     byPosition |-> [p \in Positions |-> PositionDensity(p)],
     classicZero |-> IF CoveragePatch = None THEN [status |-> "unavailable"] ELSE ClassicZero,
     ladder |-> IF CoveragePatch = None THEN EmptyLadder ELSE LadderRepresentation]

Sources  == {"ADMIN_SEED", "PRODUCT_SEARCH", "BOOTSTRAP", "LADDER", "MATCH_PARTICIPANT"}
FromSource(s) == LET Is(p) == p.source = s IN Count(Is)
Population ==
    LET WithStatus(s) == LET Is(p) == p.status = s IN Count(Is)
        AtDepth(d) == LET Is(p) == p.depth = d IN Count(Is)
    IN [total    |-> Cardinality(Rows(db.players)),
        bySource |-> [s \in Sources |-> FromSource(s)],
        byStatus |-> [s \in {"ACTIVE", "PAUSED", "SUSPENDED"} |-> WithStatus(s)],
        byDepth  |-> [d \in {p.depth : p \in {db.players[q] : q \in Rows(db.players)}} |->
                          AtDepth(d)]]

CapSlot(used, cap) == [used |-> used, cap |-> cap, remaining |-> Max({0, cap - used})]
CapUsage ==
    [matchParticipant |-> CapSlot(FromSource("MATCH_PARTICIPANT"), Config.participantCap),
     ladder           |-> CapSlot(FromSource("LADDER"), Config.ladderCap),
     total            |-> CapSlot(Cardinality(Rows(db.players)), Config.totalCap)]

Activity ==
    LET Active(p) == p.status = "ACTIVE"
        Never(p)  == Active(p) /\ ~p.refreshed
        Cold(p)   == Active(p) /\ p.streak >= Config.coldAfter
        streaks   == {db.players[p].streak : p \in Select(db.players, Active)}
        WithStreak(n) == LET Is(p) == Active(p) /\ p.streak = n IN Count(Is)
    IN [active |-> Count(Active), never |-> Count(Never), cold |-> Count(Cold),
        byStreak |-> [n \in streaks |-> WithStreak(n)]]

StatusRuns ==
    [running |-> Select(db.runs, Running), stale |-> Select(db.runs, Stale), recent |-> Listed]
StatusPlayers(now) ==
    LET InLease(p)  == LeaseActive(p, now)
        Expired(p)  == Leased(p) /\ p.until # None /\ ~LeaseActive(p, now)
    IN [population |-> Population, eligible |-> EligibleCount,
        leased |-> Count(InLease), expired |-> Count(Expired)]

LeaseRow == [owner |-> db.scheduler # None /\ db.scheduler.owner,
             expiry |-> db.scheduler # None /\ db.scheduler.expiry]

(* What one read answers now. *)
Answer(read) ==
    CASE read = "identity"  -> db.duplicates
      [] read = "stale"     -> Select(db.runs, Stale)
      [] read = "finalized" -> Part(db.runs, Listed)
      [] read = "leased"    -> Part(db.players, Select(db.players, Leased))
      [] read = "running"   -> Select(db.runs, Running)
      [] read = "mismatch"  -> LET Differs(p) == ~p.agrees IN Select(db.players, Differs)
      [] read = "negative"  -> LET Is(p) == p.depth < 0 IN Select(db.players, Is)
      [] read = "aboveHard" -> LET Is(p) == p.depth > HardMaxDepth IN Select(db.players, Is)
      [] read = "aboveConfigured" ->
           LET Is(p) == p.depth > Config.expansionMaxDepth /\ p.depth <= HardMaxDepth
           IN Select(db.players, Is)
      [] read = "budget"       -> db.budget
      [] read = "participants" -> FromSource("MATCH_PARTICIPANT")
      [] read = "quotas"       -> db.quota
      [] read = "scheduler"    -> IF db.scheduler = None THEN None ELSE LeaseRow
      [] read = "runs"         -> StatusRuns
      [] read = "players"      -> StatusPlayers(job.now)
      [] read = "tracked"      -> Population
      [] read = "caps"         -> CapUsage
      [] read = "activity"     -> Activity
      [] read = "snapshot"     -> Snapshot
      [] read = "detail"       -> Detail
      [] read = "count"        -> EligibleCount
      [] read = "candidates"   -> Candidates(Config.batchSize)

(* The reads of one set are issued together. *)
Stages ==
    [audit    |-> <<{"identity", "stale", "finalized", "leased", "running", "mismatch"},
                    {"negative"}, {"aboveHard"}, {"aboveConfigured"}, {"budget"},
                    {"participants"}, {"quotas"}, {"scheduler"}>>,
     status   |-> <<{"runs", "players", "budget", "scheduler"}, {"snapshot"}>>,
     coverage |-> <<{"tracked", "caps", "activity", "snapshot"}, {"detail"}>>,
     preview  |-> <<{"count", "candidates"}>>]
Kinds == DOMAIN Stages

Reads == UNION {UNION {Stages[k][i] : i \in DOMAIN Stages[k]} : k \in Kinds}

(* The participants are counted only against a budget, and the configured  *)
(* depth is looked at only when it is below the hard one.                  *)
Needless(read, got) ==
    \/ read = "participants" /\ "budget" \in DOMAIN got /\ got["budget"] = None
    \/ read = "aboveConfigured" /\ Config.expansionMaxDepth >= HardMaxDepth
Pending == Stages[job.kind][job.stage] \ DOMAIN job.got

(***************************************************************************)
(* The findings of an audit, from what its reads answered.                 *)
(***************************************************************************)
Each(code, ids) == {<<code, id>> : id \in ids}
When(code, condition) == IF condition THEN {<<code, "singleton">>} ELSE {}

TimingFindings ==
    Each("UNSAFE_TIMING_CONFIG",
         {limit \in {"staleRunAfterMs", "leaseDurationMs"} :
            IF limit = "staleRunAfterMs" THEN ~(Config.staleAfter > Config.lease)
            ELSE ~(Config.lease > Config.playerTimeout + Config.leaseMargin)})

FinalizedFindings(rows) ==
    LET Where(Test(_)) == {r \in DOMAIN rows : Test(rows[r])}
        NoEnd(x)    == x.finish = None
        Uneven(x)   == x.succeeded + x.failed + x.lost # x.attempted
        Surplus(x)  == x.attempted > x.claimed
        Overfull(x) == x.queued > x.found
        Overskip(x) == x.skipped > x.found
    IN Each("FINALIZED_RUN_MISSING_FINISHED_AT", Where(NoEnd))
         \cup Each("FINALIZED_COUNTER_MISMATCH", Where(Uneven))
         \cup Each("PLAYERS_ATTEMPTED_EXCEEDS_CLAIMED", Where(Surplus))
         \cup Each("MATCHES_ENQUEUED_EXCEEDS_DISCOVERED", Where(Overfull))
         \cup Each("MATCHES_SKIPPED_COMPLETE_EXCEEDS_DISCOVERED", Where(Overskip))

(* Mutant: only the leases of finalized runs are looked for. *)
LeftoversOnly(got) ==
    Each("LEFTOVER_LEASE_FINALIZED_OWNER",
         {p \in DOMAIN got["leased"] : got["leased"][p].owner \in DOMAIN got["finalized"]})
LeaseFindings(got) ==
    LET leased == got["leased"]
        leftover == {p \in DOMAIN leased : leased[p].owner \in DOMAIN got["finalized"]}
        active == {p \in DOMAIN leased : LeaseActive(leased[p], job.now)}
        orphan == {p \in active \ leftover : leased[p].owner \notin got["running"]}
        outside == {p \in active : leased[p].route \notin Config.platformAllowlist}
    IN Each("LEFTOVER_LEASE_FINALIZED_OWNER", leftover) \cup Each("ORPHAN_LEASE_OWNER", orphan)
         \cup Each("ACTIVE_LEASE_UNSUPPORTED_PLATFORM", outside)

ExpansionFindings(got) ==
    LET rows == got["finalized"]
        Has(read) == read \in DOMAIN got
        counted == IF Has("participants") THEN got["participants"] ELSE 0
    IN Each("NEGATIVE_DISCOVERY_DEPTH", got["negative"])
         \cup Each("DISCOVERY_DEPTH_ABOVE_HARD_MAX", got["aboveHard"])
         \cup (IF Has("aboveConfigured")
               THEN Each("DISCOVERY_DEPTH_ABOVE_CONFIGURED_MAX", got["aboveConfigured"]) ELSE {})
         \cup (IF got["budget"] = None
               THEN {<<"MISSING_POPULATION_BUDGET_SINGLETON", "singleton">>}
               ELSE When("NEGATIVE_POPULATION_BUDGET", got["budget"] < 0)
                      \cup When("POPULATION_BUDGET_DRIFT", got["budget"] # counted)
                      \cup When("MATCH_PARTICIPANT_ABOVE_CONFIGURED_CAP",
                                counted \in Config.participantCap + 1 .. HardMaxTrackedPlayers)
                      \cup When("MATCH_PARTICIPANT_ABOVE_HARD_CAP",
                                counted > HardMaxTrackedPlayers))
         \cup Each("NEGATIVE_EXPANSION_COUNTER",
                   {r \in DOMAIN rows : rows[r].considered < 0 \/ rows[r].enrolled < 0})
         \cup Each("SOURCE_QUOTA_RUN_MISMATCH",
                   {r \in DOMAIN rows : got["quotas"][r] # rows[r].enrolled})
         \cup (IF got["scheduler"] = None
               THEN {<<"MISSING_SCHEDULER_STATE_SINGLETON", "singleton">>}
               ELSE When("MALFORMED_SCHEDULER_LEASE_STATE",
                         got["scheduler"].owner # got["scheduler"].expiry))

Findings(got) ==
    TimingFindings
      \cup Each("DUPLICATE_TRACKED_PLAYER_IDENTITY", got["identity"])
      \cup Each("STALE_RUNNING_COLLECTOR_RUN", got["stale"])
      \cup FinalizedFindings(got["finalized"]) \cup LeaseFindings(got)
      \cup Each("DENORMALIZED_MISMATCH", got["mismatch"]) \cup ExpansionFindings(got)

(***************************************************************************)
(* What is wrong with the database now, said without the audit's queries.  *)
(***************************************************************************)
Faults ==
    LET runs == db.runs  players == db.players
        ended == Listed
        Broken(r) ==
            LET x == runs[r]
            IN \/ x.finish = None \/ x.succeeded + x.failed + x.lost # x.attempted
               \/ x.attempted > x.claimed \/ x.queued > x.found \/ x.skipped > x.found
               \/ x.considered < 0 \/ x.enrolled < 0
        Held(p) == players[p].until # None /\ players[p].until > clock
        Stray(p) ==
            LET owner == players[p].owner
            IN IF owner \in Rows(runs) /\ Running(runs[owner]) THEN FALSE
               ELSE Held(p) \/ owner \in ended
        participants == Cardinality({p \in Rows(players) : players[p].source = "MATCH_PARTICIPANT"})
    IN Each("RUN", {r \in ended : Broken(r)})
         \cup Each("STALE", {r \in Rows(runs) : Stale(runs[r])})
         \cup Each("QUOTA", {r \in ended : db.quota[r] # runs[r].enrolled})
         \cup Each("LEASE", {p \in Rows(players) : Leased(players[p]) /\ Stray(p)})
         \cup Each("PLATFORM", {p \in Rows(players) : Leased(players[p]) /\ Held(p)
                                   /\ players[p].route \notin Config.platformAllowlist})
         \cup Each("IDENTITY", db.duplicates)
         \cup Each("MISMATCH", {p \in Rows(players) : ~players[p].agrees})
         \cup Each("DEPTH", {p \in Rows(players) :
                                players[p].depth \notin 0 .. Config.expansionMaxDepth})
         \cup (IF db.budget = None THEN {<<"BUDGET", "singleton">>}
               ELSE When("DRIFT", db.budget # participants)
                      \cup When("BUDGET", db.budget < 0)
                      \cup When("CAP", participants > Config.participantCap))
         \cup (IF db.scheduler = None THEN {<<"SCHEDULER", "singleton">>}
               ELSE When("SCHEDULER", db.scheduler.owner # db.scheduler.expiry))

FaultOf ==
    [code \in {"FINALIZED_RUN_MISSING_FINISHED_AT", "FINALIZED_COUNTER_MISMATCH",
               "PLAYERS_ATTEMPTED_EXCEEDS_CLAIMED", "MATCHES_ENQUEUED_EXCEEDS_DISCOVERED",
               "MATCHES_SKIPPED_COMPLETE_EXCEEDS_DISCOVERED", "NEGATIVE_EXPANSION_COUNTER"}
         |-> "RUN"]
FaultName(code) ==
    CASE code \in DOMAIN FaultOf -> FaultOf[code]
      [] code \in {"LEFTOVER_LEASE_FINALIZED_OWNER", "ORPHAN_LEASE_OWNER"} -> "LEASE"
      [] code = "ACTIVE_LEASE_UNSUPPORTED_PLATFORM"   -> "PLATFORM"
      [] code = "STALE_RUNNING_COLLECTOR_RUN"         -> "STALE"
      [] code = "SOURCE_QUOTA_RUN_MISMATCH"           -> "QUOTA"
      [] code = "DUPLICATE_TRACKED_PLAYER_IDENTITY"   -> "IDENTITY"
      [] code = "DENORMALIZED_MISMATCH"               -> "MISMATCH"
      [] code = "POPULATION_BUDGET_DRIFT"             -> "DRIFT"
      [] code = "UNSAFE_TIMING_CONFIG"                -> "TIMING"
      [] code \in {"MATCH_PARTICIPANT_ABOVE_CONFIGURED_CAP", "MATCH_PARTICIPANT_ABOVE_HARD_CAP"}
           -> "CAP"
      [] code \in {"NEGATIVE_DISCOVERY_DEPTH", "DISCOVERY_DEPTH_ABOVE_HARD_MAX",
                   "DISCOVERY_DEPTH_ABOVE_CONFIGURED_MAX"} -> "DEPTH"
      [] code \in {"MISSING_POPULATION_BUDGET_SINGLETON", "NEGATIVE_POPULATION_BUDGET"} -> "BUDGET"
      [] OTHER -> "SCHEDULER"
Named(findings) == {<<FaultName(f[1]), f[2]>> : f \in findings}

(***************************************************************************)
(* What the collector commits while a report is made.  The report keeps    *)
(* track of the faults that stood all the while, and of those whose two    *)
(* reads an enrolment came between.                                        *)
(***************************************************************************)
Between(first, second, fault) ==
    IF job # None /\ first \in DOMAIN job.got /\ second \notin DOMAIN job.got
    THEN {fault} ELSE {}
Change(new, skewed) ==
    /\ done = None /\ changes < MaxChanges
    /\ db' = new
    /\ changes' = changes + 1
    /\ UNCHANGED <<clock, done>>
    /\ job' = IF job = None THEN None
              ELSE [job EXCEPT !.quiet = FALSE, !.standing = @ \cap Faults',
                               !.skewed = @ \cup skewed]

FreshRun == [status |-> "RUNNING", start |-> clock, finish |-> None, claimed |-> 0,
             attempted |-> 0, succeeded |-> 0, failed |-> 0, lost |-> 0, found |-> 0,
             queued |-> 0, skipped |-> 0, considered |-> 0, enrolled |-> 0]

StartRun(r) ==
    /\ db.runs[r] = None
    /\ Change([db EXCEPT !.runs[r] = FreshRun], {})

Claim(r, p) ==
    /\ r \in Select(db.runs, Running) /\ p \in Select(db.players, Claimable)
    /\ Change([db EXCEPT !.players[p].owner = r, !.players[p].until = clock + Config.lease],
              {})

Release(p) ==
    /\ p \in Select(db.players, Leased)
    /\ Change([db EXCEPT !.players[p].owner = None, !.players[p].until = None,
                         !.players[p].due = FALSE],
              {})

FinalizeRun(r) ==
    /\ r \in Select(db.runs, Running)
    /\ Change([db EXCEPT !.runs[r].status = "COMPLETED", !.runs[r].finish = clock,
                         !.runs[r].claimed = 1, !.runs[r].attempted = 1,
                         !.runs[r].succeeded = 1],
              {})

(* Expansion goes on after the run that found the match has ended. *)
EnrolParticipant(r, p) ==
    /\ r \in Rows(db.runs) /\ db.players[p] = None /\ db.budget # None
    /\ Change([db EXCEPT
           !.players[p] = [source |-> "MATCH_PARTICIPANT", status |-> "ACTIVE", depth |-> 1,
                           owner |-> None, until |-> None, due |-> TRUE, route |-> "home",
                           agrees |-> TRUE, tier |-> None, streak |-> 0, refreshed |-> FALSE],
           !.budget = @ + 1,
           !.runs[r].enrolled = @ + 1, !.runs[r].considered = @ + 1, !.quota[r] = @ + 1],
           Between("budget", "participants", "DRIFT")
             \cup Between("finalized", "quotas", "QUOTA"))

Tick ==
    /\ job # None /\ done = None /\ clock < MaxTime
    /\ clock' = clock + 1
    /\ UNCHANGED <<db, changes, done>>
    /\ job' = [job EXCEPT !.quiet = FALSE, !.standing = @ \cap Faults']

(***************************************************************************)
(* Making a report.                                                        *)
(***************************************************************************)
Begin(kind) ==
    /\ job = None /\ done = None
    /\ job' = [kind |-> kind, stage |-> 1, now |-> clock, got |-> [read \in {} |-> None],
               quiet |-> TRUE, standing |-> Faults, skewed |-> {}]
    /\ UNCHANGED <<db, clock, changes, done>>

(* A read is answered; reads that an earlier answer makes needless are left out. *)
Got(read, answer) ==
    LET got == [r \in DOMAIN job.got \cup {read} |-> IF r = read THEN answer ELSE job.got[r]]
        RestOf(stage) == Stages[job.kind][stage] \ DOMAIN got
        open == {s \in DOMAIN Stages[job.kind] :
                    \E r \in RestOf(s) : ~Needless(r, got)}
    IN job' = [job EXCEPT !.got = got,
                          !.stage = IF open = {} THEN Len(Stages[job.kind]) + 1 ELSE Min(open)]

Complete == job.stage > Len(Stages[job.kind])
Read(read) ==
    /\ job # None /\ done = None
    /\ ~Complete /\ read \in Pending
    /\ Got(read, Answer(read))
    /\ UNCHANGED <<db, clock, changes, done>>

(* A query fails.  Only the density of a status report survives that. *)
Survives(read) == job.kind = "status" /\ read = "snapshot"
Outcome(report, exit) ==
    done' = [kind |-> job.kind, report |-> report, exit |-> exit, quiet |-> job.quiet,
             standing |-> job.standing, skewed |-> job.skewed]
Fail(read) ==
    /\ job # None /\ done = None
    /\ ~Complete /\ read \in Pending
    /\ IF Survives(read)
       THEN Got(read, [status |-> "unavailable"]) /\ UNCHANGED done
       ELSE Outcome(None, 1) /\ job' = None
    /\ UNCHANGED <<db, clock, changes>>

Report(kind, got) ==
    CASE kind = "audit"    -> [findings |-> Findings(got)]
      [] kind = "status"   ->
           [runs |-> got["runs"], players |-> got["players"],
            budget |-> CapSlot(IF got["budget"] = None THEN 0 ELSE got["budget"],
                               Config.participantCap),
            scheduler |-> got["scheduler"], coverage |-> got["snapshot"],
            warnings |-> (IF got["runs"].stale # {} THEN {"stale"} ELSE {})
                           \cup (IF got["snapshot"].status # "available"
                                 THEN {"coverage"} ELSE {})]
      [] kind = "coverage" -> got
      [] kind = "preview"  -> got
Finish ==
    /\ job # None /\ done = None
    /\ Complete
    /\ LET report == Report(job.kind, job.got)
       IN Outcome(report, IF job.kind = "audit" /\ report.findings # {} THEN 1 ELSE 0)
    /\ job' = None
    /\ UNCHANGED <<db, clock, changes>>

Init ==
    /\ db \in Databases
    /\ clock = 0 /\ changes = 0 /\ job = None /\ done = None

Next ==
    \/ \E r \in Runs : StartRun(r) \/ FinalizeRun(r)
    \/ \E r \in Runs, p \in Players : Claim(r, p) \/ EnrolParticipant(r, p)
    \/ \E p \in Players : Release(p)
    \/ Tick
    \/ \E kind \in Kinds : Begin(kind)
    \/ \E read \in Reads : Read(read) \/ Fail(read)
    \/ Finish

Spec == Init /\ [][Next]_vars

TypeOK ==
    /\ clock \in 0 .. MaxTime /\ changes \in 0 .. MaxChanges
    /\ job = None \/ (/\ job.kind \in Kinds /\ job.stage \in 1 .. Len(Stages[job.kind]) + 1
                      /\ DOMAIN job.got \subseteq Reads /\ job.quiet \in BOOLEAN)
    /\ done = None \/ done.exit \in {0, 1}

(***************************************************************************)
(* Properties.                                                             *)
(***************************************************************************)

(* An audit names every fault that stood from its first query to its last, *)
(* whatever the collector did meanwhile, and so exits with 0 only when     *)
(* there was none; the exceptions are the two sums an enrolment may slip   *)
(* into (the participant budget and a run's source quotas, each read in    *)
(* two queries).  An audit nothing disturbed names the faults exactly.     *)
AuditIsExact ==
    (done # None /\ done.kind = "audit" /\ done.report # None) =>
        LET named == Named(done.report.findings)
        IN /\ \A f \in done.standing : f[1] \in done.skewed \/ f \in named
           /\ done.quiet => named \subseteq done.standing \cup Named(TimingFindings)
           /\ (done.exit = 0) = (done.report.findings = {})

(* What a coverage report says of one database fits together: its counts by *)
(* position, by threshold, by bucket and its summary per position agree.    *)
CoverageAddsUp(r) ==
    LET detail == r["detail"]  total == detail.density
        Over(Part2(_)) == MapThenSumSet(Part2, Positions)
        Gte1(p) == detail.byPosition[p].density.gte1
        Gte100(p) == detail.byPosition[p].density.gte100
        InBucket(b) == detail.histogram[b]
    IN /\ total.gte1 = Over(Gte1) /\ total.gte1 = MapThenSumSet(InBucket, Buckets)
       /\ total.gte100 = Over(Gte100) /\ total.gte100 = InBucket("100+")
       /\ total.gte30 = InBucket("30-99") + InBucket("100+")
       /\ r["snapshot"].patch = detail.patch
       /\ \A p \in Positions :
             LET summary == r["snapshot"].positions[p]  density == detail.byPosition[p]
             IN /\ summary.some = density.density.gte1 /\ summary.max = density.max
                /\ (density.max >= 100) = (density.density.gte100 > 0)
                /\ summary.nearFloor + summary.atFloor <= summary.some
       /\ detail.classicZero.status = "available" =>
             /\ detail.classicZero.zero <= detail.classicZero.roster
             /\ total.gte1 = 0 => detail.classicZero.zero = detail.classicZero.roster

PopulationAddsUp(population) ==
    LET BySource(s) == population.bySource[s]
        ByStatus(s) == population.byStatus[s]
        ByDepth(d)  == population.byDepth[d]
    IN /\ population.total = MapThenSumSet(BySource, DOMAIN population.bySource)
       /\ population.total = MapThenSumSet(ByStatus, DOMAIN population.byStatus)
       /\ population.total = MapThenSumSet(ByDepth, DOMAIN population.byDepth)

(* The reports of a collector at rest add up. *)
ReportsAddUp ==
    (done # None /\ done.report # None /\ done.quiet) =>
        LET r == done.report
        IN CASE done.kind = "coverage" ->
                   /\ CoverageAddsUp(r) /\ PopulationAddsUp(r["tracked"])
                   /\ r["caps"].total.used = r["tracked"].total
                   /\ r["caps"].ladder.used = r["tracked"].bySource["LADDER"]
                   /\ LET OfTier(t) == r["detail"].ladder.byTier[t]
                      IN MapThenSumSet(OfTier, DOMAIN r["detail"].ladder.byTier)
                           + r["detail"].ladder.missing <= r["caps"].ladder.used
                   /\ r["activity"].active = r["tracked"].byStatus["ACTIVE"]
                   /\ r["activity"].cold <= r["activity"].active
             [] done.kind = "status" ->
                   /\ PopulationAddsUp(r.players.population)
                   /\ r.runs.stale \subseteq r.runs.running
                   /\ r.runs.recent \cap r.runs.running = {}
                   /\ r.players.eligible + r.players.leased <= r.players.population.total
             [] done.kind = "preview" ->
                   Cardinality(r["candidates"]) = Min({r["count"], Config.batchSize})
             [] OTHER -> TRUE
=============================================================================
