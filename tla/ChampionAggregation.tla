------------------------- MODULE ChampionAggregation -------------------------
(***************************************************************************)
(* Materialised champion aggregates of apps/worker: the triggers that      *)
(* change match rows and request a recalculation, the durable recalc scope *)
(* row, the one BullMQ job per match, its worker, the processing marker,   *)
(* the cache generation and the reconcile CLI.                             *)
(*                                                                         *)
(* An aggregate row is the set of participants folded into it ({} is the   *)
(* deleted row), so a stale row is one that differs from Contributors(k).  *)
(* A dimension key is <<slot, bucket>>: the slot stands for patch, route,  *)
(* queue, position and champion; the bucket is a rank tier, ALL or UNKNOWN.*)
(***************************************************************************)
EXTENDS Integers, FiniteSets

CONSTANTS
  Match, Participant,
  MatchOf,        \* the match of each participant row
  Slot, Tier,     \* non-rank dimensions; rank tiers
  Outcome,        \* what League-v4 may answer an enrichment
  Writer,         \* concurrent trigger executions
  Triggers,       \* which triggers occur in this instance
  FaultKinds,     \* which failures occur in this instance
  MaxTriggers, MaxFaults,          \* exploration bounds
  MaxAttempts, MaxStalls,          \* BullMQ attempts, stalled recoveries
  Concurrency,    \* champion-aggregation jobs active at once
  None            \* absence of a row or of a reference

TriggerKind == {"ingest", "reingest", "link", "enrich", "reconcile"}
FaultKind == {"beforeScope", "afterScope", "job", "marker", "stall", "generation", "followUp"}
Rank == Tier \cup {"PENDING", "RESOLVED_UNRANKED"}
Bucket == Tier \cup {"ALL", "UNKNOWN"}
Key == Slot \X Bucket

ASSUME ConstantsAssumption ==
  /\ MatchOf \in [Participant -> Match]
  /\ Triggers \subseteq TriggerKind /\ FaultKinds \subseteq FaultKind
  /\ Outcome \subseteq Rank
  /\ {MaxTriggers, MaxFaults, MaxStalls} \subseteq Nat
  /\ {MaxAttempts, Concurrency} \subseteq Nat \ {0}
  /\ \A keys \in SUBSET Key : keys # None
  /\ None \notin Match /\ None \notin Participant /\ None \notin Slot
  /\ Tier \cap {"ALL", "UNKNOWN", "PENDING", "RESOLVED_UNRANKED"} = {}

VARIABLES
  status, slot, rank,      \* match and participant rows
  aggregate,      \* the participants folded into each aggregate row
  matchup,        \* matchup aggregates of each match: current, stale, or on
                  \* their way: read, then deleted, and not created yet
  owed,           \* were rows written since the last generation INCR?
  scope,          \* durable recalc scope row of each match
  marker,         \* processing marker of each match
  job,            \* the BullMQ job of each match
  run,            \* the worker's run of that job, in memory
  follow,         \* the follow-up enqueue of each match, in memory
  writer,         \* the trigger executions, in memory
  triggers, faults         \* exploration counters

rowVars == <<status, slot, rank>>
derivedVars == <<aggregate, matchup, owed>>
vars == <<rowVars, derivedVars, scope, marker, job, run, follow, writer, triggers, faults>>

-----------------------------------------------------------------------------
(* Dimension keys and the fold.                                            *)

Players(m) == {p \in Participant : MatchOf[p] = m}

\* ALL always; the exact tier when ranked; UNKNOWN only for a completed
\* lookup without a ranked entry. Unresolved rows feed ALL alone.
ContributedKeys(p) ==
  {<<slot[p], "ALL">>}
    \cup {<<slot[p], t>> : t \in Tier \cap {rank[p]}}
    \cup (IF rank[p] = "RESOLVED_UNRANKED" THEN {<<slot[p], "UNKNOWN">>} ELSE {})

KeysOf(ps) == UNION {ContributedKeys(p) : p \in ps}

Eligible(m) == status[m] = "COMPLETED" /\ Players(m) # {}

Contributors(k) ==
  {p \in Participant : Eligible(MatchOf[p]) /\ k \in ContributedKeys(p)}

CurrentKeys(m) == IF Eligible(m) THEN KeysOf(Players(m)) ELSE {}

EmptyFold == [k \in Key |-> {}]

IdleRun == [phase |-> "idle", loaded |-> {}, affected |-> {}, eligible |-> FALSE,
            folded |-> EmptyFold, remains |-> FALSE]
IdleWriter == [pc |-> "idle", kind |-> "none", match |-> None, who |-> None,
               prev |-> {}, known |-> {}, row |-> None]
NoJob == [state |-> "none", attempts |-> 0, stalls |-> 0]

Init ==
  /\ status = [m \in Match |-> "NONE"]
  /\ slot = [p \in Participant |-> None]
  /\ rank = [p \in Participant |-> "PENDING"]
  /\ aggregate = EmptyFold
  /\ matchup = [m \in Match |-> "current"]
  /\ owed = FALSE
  /\ scope = [m \in Match |-> None]
  /\ marker = [m \in Match |-> "NONE"]
  /\ job = [m \in Match |-> NoJob]
  /\ run = [m \in Match |-> IdleRun]
  /\ follow = [m \in Match |-> "none"]
  /\ writer = [w \in Writer |-> IdleWriter]
  /\ triggers = 0
  /\ faults = 0

-----------------------------------------------------------------------------
(* Triggers. Each ends by storing the scope row and enqueueing.            *)

\* An ingestion job has a deterministic id per match: one runs at a time.
Ingesting(m) == \E w \in Writer : writer[w].match = m /\ writer[w].kind \in {"ingest", "link"}

Begin(w, kind, m, p, pc, prev, known) ==
  /\ writer[w].pc = "idle"
  /\ writer' = [writer EXCEPT ![w] = [pc |-> pc, kind |-> kind, match |-> m, who |-> p,
                                      prev |-> prev, known |-> known, row |-> None]]

Goto(w, pc) == writer' = [writer EXCEPT ![w].pc = pc]

\* The execution returns, or its process is gone: nothing of it survives.
End(w) == writer' = [writer EXCEPT ![w] = IdleWriter]

\* One more trigger, within the exploration bound.
CountTrigger(kind) ==
  /\ kind \in Triggers /\ triggers < MaxTriggers
  /\ triggers' = triggers + 1

\* capturePreviousParticipantSnapshots: the keys of the stored rows.
PreviousKeys(m) == IF status[m] = "NONE" THEN {} ELSE KeysOf(Players(m))

\* existingRankByParticipantId: the rows of a match that have a tier.
KnownRanks(m) == {p \in Players(m) : rank[p] \in Tier}

\* persistNormalizedMatch up to its transaction: read the stored rows. A match
\* left IN_PROGRESS is ingested again by a retry, which is not a new trigger.
IngestLoad(w, m) ==
  /\ ~Ingesting(m)
  /\ \/ status[m] = "NONE" /\ CountTrigger("ingest")
     \/ status[m] = "IN_PROGRESS" /\ UNCHANGED triggers
     \/ status[m] = "COMPLETED" /\ CountTrigger("reingest")
  /\ Begin(w, "ingest", m, None, "persist", PreviousKeys(m), KnownRanks(m))
  /\ UNCHANGED <<rowVars, derivedVars, scope, marker, job, run, follow, faults>>

\* One champion per match: no two rows of a match share a slot.
Placements(m) ==
  {s \in [Players(m) -> Slot] : \A p, q \in Players(m) : s[p] = s[q] => p = q}

\* Mistake: a missing snapshot overwrites an unresolved rank.
SnapshotRank(known, old, found) == IF ~known THEN found ELSE old

\* The rank of a row whose tier was, or was not, known when the rows were read,
\* and whose local snapshot, if any, says found.
PersistedRank(known, old, found) == IF ~known /\ found # None THEN found ELSE old

\* The transaction of persistNormalizedMatch. A local snapshot supplies the tier
\* of a row that had none at the read, whatever the row has become since; other
\* rows keep what they have.
IngestPersist(w) ==
  /\ writer[w].pc = "persist"
  /\ LET m == writer[w].match IN
       /\ status' = [status EXCEPT ![m] = "IN_PROGRESS"]
       /\ \E s \in Placements(m), found \in [Players(m) -> Tier \cup {None}] :
            /\ slot' = [p \in Participant |-> IF p \in Players(m) THEN s[p] ELSE slot[p]]
            /\ rank' = [p \in Participant |-> IF p \in Players(m)
                                                THEN PersistedRank(p \in writer[w].known, rank[p], found[p])
                                                ELSE rank[p]]
       /\ matchup' = [matchup EXCEPT ![m] = "stale"]
  /\ Goto(w, "complete")
  /\ UNCHANGED <<aggregate, owed, scope, marker, job, run, follow, triggers, faults>>

\* persistTimelineAndMetrics: the transaction that ends in COMPLETED.
IngestComplete(w) ==
  /\ writer[w].pc = "complete"
  /\ status' = [status EXCEPT ![writer[w].match] = "COMPLETED"]
  /\ Goto(w, "upsertRead")
  /\ UNCHANGED <<slot, rank, derivedVars, scope, marker, job, run, follow, triggers, faults>>

\* Matchup rows carry the rank tier: a changed rank leaves them behind.
AfterRankChange(m) == IF rank' = rank THEN matchup ELSE [matchup EXCEPT ![m] = "stale"]

\* shouldEnqueueChampionAggregation: only the marker is consulted.
ShouldEnqueue(m) == marker[m] # "COMPLETED"

\* The already-complete path of an ingestion job: rows whose account is now
\* known are picked for linking (at most one here).
LinkLoad(w, m) ==
  /\ ~Ingesting(m)
  /\ status[m] = "COMPLETED" /\ CountTrigger("link")
  /\ \E p \in {None} \cup {q \in Players(m) : rank[q] \notin Tier} :
       Begin(w, "link", m, p, "link", {}, {})
  /\ UNCHANGED <<rowVars, derivedVars, scope, marker, job, run, follow, faults>>

\* linkMissingParticipants recomputes the rank status of the row it links (a
\* tier from a local snapshot, or back to PENDING), whatever it has become
\* since LinkLoad; then enqueue, with no previous keys, unless the marker is
\* COMPLETED.
LinkApply(w) ==
  /\ writer[w].pc = "link"
  /\ LET m == writer[w].match
         p == writer[w].who
     IN
       /\ \/ p = None /\ UNCHANGED rank
          \/ p # None /\ \E r \in Tier \cup {"PENDING"} : rank' = [rank EXCEPT ![p] = r]
       /\ matchup' = AfterRankChange(m)
       /\ IF ShouldEnqueue(m) THEN Goto(w, "upsertRead") ELSE End(w)
  /\ UNCHANGED <<status, slot, aggregate, owed, scope, marker, job, run, follow,
                 triggers, faults>>

\* enrichParticipantRank up to the League-v4 answer: an unresolved row of the
\* PUUID is loaded with its previous keys. One job per PUUID.
EnrichLoad(w, p) ==
  /\ \A v \in Writer : writer[v].kind = "enrich" => writer[v].who # p
  /\ status[MatchOf[p]] # "NONE" /\ rank[p] = "PENDING"
  /\ CountTrigger("enrich")
  /\ Begin(w, "enrich", MatchOf[p], p, "apply", ContributedKeys(p), {})
  /\ UNCHANGED <<rowVars, derivedVars, scope, marker, job, run, follow, faults>>

\* applyObservationToParticipants: updateMany by row id, whatever the row's
\* status has become since EnrichLoad.
EnrichApply(w) ==
  /\ writer[w].pc = "apply"
  /\ \E r \in Outcome : rank' = [rank EXCEPT ![writer[w].who] = r]
  /\ matchup' = AfterRankChange(writer[w].match)
  /\ Goto(w, "upsertRead")
  /\ UNCHANGED <<status, slot, aggregate, owed, scope, marker, job, run, follow,
                 triggers, faults>>

\* A match the reconcile CLI acts on: pending scope, missing or FAILED marker.
NeedsReconcile(m) == Eligible(m) /\ (scope[m] # None \/ marker[m] # "COMPLETED")

Reconcile(w, m) ==
  /\ \A v \in Writer : writer[v].kind # "reconcile"
  /\ NeedsReconcile(m)
  /\ CountTrigger("reconcile")
  /\ Begin(w, "reconcile", m, None, "upsertRead", KeysOf(Players(m)), {})
  /\ UNCHANGED <<rowVars, derivedVars, scope, marker, job, run, follow, faults>>

-----------------------------------------------------------------------------
(* storeScopeAndEnqueueChampionAggregation, one await at a time.           *)

UpsertRead(w) ==
  /\ writer[w].pc = "upsertRead"
  /\ writer' = [writer EXCEPT ![w] = [@ EXCEPT !.row = scope[writer[w].match],
                                               !.pc = "upsertWrite"]]
  /\ UNCHANGED <<rowVars, derivedVars, scope, marker, job, run, follow, triggers, faults>>

\* mergeRecalcScopeKeys over a row that may be absent.
MergedKeys(row, keys) == IF row = None THEN keys ELSE row \cup keys

\* READ COMMITTED: the row read may since have been replaced or deleted.
UpsertWrite(w) ==
  /\ writer[w].pc = "upsertWrite"
  /\ scope' = [scope EXCEPT ![writer[w].match] = MergedKeys(writer[w].row, writer[w].prev)]
  /\ Goto(w, "check")
  /\ UNCHANGED <<rowVars, derivedVars, marker, job, run, follow, triggers, faults>>

Live(m) == job[m].state \in {"waiting", "active"}

\* getJob + getState: a live job absorbs the request.
CheckJob(w) ==
  /\ writer[w].pc = "check"
  /\ LET m == writer[w].match IN
       \/ Live(m) /\ End(w)
       \/ job[m].state = "retained" /\ Goto(w, "remove")
       \/ job[m].state = "none" /\ Goto(w, "add")
  /\ UNCHANGED <<rowVars, derivedVars, scope, marker, job, run, follow, triggers, faults>>

\* Job.remove: a job that became active meanwhile is locked and remove throws,
\* which the caller swallows.
RemoveJob(w) ==
  /\ writer[w].pc = "remove"
  /\ LET m == writer[w].match IN
       IF job[m].state = "active"
         THEN End(w) /\ UNCHANGED job
         ELSE job' = [job EXCEPT ![m] = NoJob] /\ Goto(w, "add")
  /\ UNCHANGED <<rowVars, derivedVars, scope, marker, run, follow, triggers, faults>>

\* Queue.add with a deterministic id: ignored while a job with that id exists.
Enqueue(m) ==
  job' = [job EXCEPT ![m] = IF @ = NoJob THEN [NoJob EXCEPT !.state = "waiting"] ELSE @]

AddJob(w) ==
  /\ writer[w].pc = "add"
  /\ Enqueue(writer[w].match)
  /\ End(w)
  /\ UNCHANGED <<rowVars, derivedVars, scope, marker, run, follow, triggers, faults>>

-----------------------------------------------------------------------------
(* The worker's run of a job: processChampionAggregationJob around         *)
(* recalculateForMatch.                                                    *)

Advance(m, phase) == run' = [run EXCEPT ![m].phase = phase]

\* What the run held in memory is gone.
Discard(m) == run' = [run EXCEPT ![m] = IdleRun]

StartJob(m) ==
  /\ job[m].state = "waiting"
  /\ Cardinality({n \in Match : job[n].state = "active"}) < Concurrency
  /\ job' = [job EXCEPT ![m].state = "active"]
  /\ Advance(m, "load")
  /\ UNCHANGED <<rowVars, derivedVars, scope, marker, follow, writer, triggers, faults>>

\* Mistake: a catch block that leaves the marker alone.
FailSilently(m, causes, fatal) ==
  /\ job' = [job EXCEPT ![m] =
                [state |-> IF fatal \/ job[m].attempts + 1 >= MaxAttempts THEN "retained"
                                                                         ELSE "waiting",
                 attempts |-> job[m].attempts + 1, stalls |-> job[m].stalls]]
  /\ faults' = faults + causes
  /\ Discard(m)
  /\ UNCHANGED <<rowVars, derivedVars, scope, marker, follow, writer, triggers>>

\* The catch block, after so many faults as caused it: when the attempts are
\* used up, or the error is one that no retry helps, the marker turns FAILED,
\* unless that write fails as well, which is only logged.
FailAttempt(m, causes, fatal) ==
  /\ LET over == fatal \/ job[m].attempts + 1 >= MaxAttempts IN
       /\ \/ /\ marker' = IF over THEN [marker EXCEPT ![m] = "FAILED"] ELSE marker
             /\ faults' = faults + causes
          \/ /\ over /\ "marker" \in FaultKinds /\ UNCHANGED marker
             /\ faults' = faults + causes + 1
       /\ job' = [job EXCEPT ![m] =
                     [state |-> IF over THEN "retained" ELSE "waiting",
                      attempts |-> job[m].attempts + 1, stalls |-> job[m].stalls]]
  /\ faults' <= MaxFaults
  /\ Discard(m)
  /\ UNCHANGED <<rowVars, derivedVars, scope, follow, writer, triggers>>

LoadScope(m) ==
  /\ run[m].phase = "load" /\ scope[m] # None
  /\ run' = [run EXCEPT ![m] = [@ EXCEPT !.loaded = scope[m], !.phase = "read"]]
  /\ UNCHANGED <<rowVars, derivedVars, scope, marker, job, follow, writer, triggers, faults>>

\* RECALC_SCOPE_MISSING.
ScopeMissing(m) ==
  /\ run[m].phase = "load" /\ scope[m] = None
  /\ FailAttempt(m, 0, FALSE)

\* Mistake: only the keys stored at enqueue time.
StoredKeysOnly(m) == run[m].loaded

AffectedKeys(m) == run[m].loaded \cup CurrentKeys(m)

\* loadMatchWithParticipants: affected = previous union current keys.
ReadMatch(m) ==
  /\ run[m].phase = "read"
  /\ run' = [run EXCEPT ![m] = [@ EXCEPT
                !.eligible = Eligible(m),
                !.affected = AffectedKeys(m),
                !.phase = IF AffectedKeys(m) = {} THEN "clear" ELSE "fold"]]
  /\ UNCHANGED <<rowVars, derivedVars, scope, marker, job, follow, writer, triggers, faults>>

\* fetchEligibleContributorCandidates, outside the write transaction.
FoldContributors(m) ==
  /\ run[m].phase = "fold"
  /\ run' = [run EXCEPT ![m] = [@ EXCEPT
                !.folded = [k \in Key |-> IF k \in run[m].affected THEN Contributors(k) ELSE {}],
                !.phase = "write"]]
  /\ UNCHANGED <<rowVars, derivedVars, scope, marker, job, follow, writer, triggers, faults>>

\* One transaction: upserts, deletes and, if eligible, the COMPLETED marker.
WriteRecalculation(m) ==
  /\ run[m].phase = "write"
  /\ aggregate' = [k \in Key |-> IF k \in run[m].affected THEN run[m].folded[k]
                                                           ELSE aggregate[k]]
  /\ owed' = TRUE
  /\ marker' = IF run[m].eligible THEN [marker EXCEPT ![m] = "COMPLETED"] ELSE marker
  /\ Advance(m, "clear")
  /\ UNCHANGED <<rowVars, matchup, scope, job, follow, writer, triggers, faults>>

\* Mistake: clear whatever row there is.
ScopePresent(m) == scope[m] # None

\* Mistake: compare with the recalculated keys instead of the loaded ones.
ScopeHoldsAffected(m) == scope[m] = run[m].affected

\* The row still holds the keys the run loaded.
ScopeUnchanged(m) == scope[m] = run[m].loaded

\* clearRecalcScope: delete the row only if it still holds the loaded keys.
ClearScope(m) ==
  /\ run[m].phase = "clear"
  /\ scope' = IF ScopeUnchanged(m) THEN [scope EXCEPT ![m] = None] ELSE scope
  /\ run' = [run EXCEPT ![m] = [@ EXCEPT
                !.remains = scope'[m] # None,
                !.phase = IF run[m].affected = {} THEN "finish" ELSE "bump"]]
  /\ UNCHANGED <<rowVars, derivedVars, marker, job, follow, writer, triggers, faults>>

AfterBump(m) == Advance(m, IF run[m].eligible THEN "matchup" ELSE "finish")

BumpGeneration(m) ==
  /\ run[m].phase = "bump"
  /\ owed' = FALSE
  /\ AfterBump(m)
  /\ UNCHANGED <<rowVars, aggregate, matchup, scope, marker, job, follow, writer,
                 triggers, faults>>

\* recalculateMatchupsForMatch reads the match again, and all its contributors:
\* nothing to do unless it is still eligible.
ReadMatchups(m) ==
  /\ run[m].phase = "matchup"
  /\ IF Eligible(m)
       THEN matchup' = [matchup EXCEPT ![m] = "read"] /\ Advance(m, "matchupDelete")
       ELSE Advance(m, "finish") /\ UNCHANGED matchup
  /\ UNCHANGED <<rowVars, aggregate, owed, scope, marker, job, follow, writer,
                 triggers, faults>>

\* The stored rows go, and then the rows accumulated come: two statements, and
\* no transaction around them.
MatchupStep(m, phase, from, to, next) ==
  /\ run[m].phase = phase
  /\ matchup' = [matchup EXCEPT ![m] = IF @ = from THEN to ELSE @]
  /\ Advance(m, next)
  /\ UNCHANGED <<rowVars, aggregate, owed, scope, marker, job, follow, writer,
                 triggers, faults>>

DeleteMatchups(m) == MatchupStep(m, "matchupDelete", "read", "deleted", "matchupCreate")
CreateMatchups(m) == MatchupStep(m, "matchupCreate", "deleted", "current", "finish")

\* Mistake: the completed event is not acted upon.
NoFollowUp(m) == FALSE

\* The job's result reports scopeRemains.
FollowUpDue(m) == run[m].remains

FinishJob(m) ==
  /\ run[m].phase = "finish"
  /\ job' = [job EXCEPT ![m].state = "retained"]
  /\ follow' = IF FollowUpDue(m) THEN [follow EXCEPT ![m] = "check"] ELSE follow
  /\ Discard(m)
  /\ UNCHANGED <<rowVars, derivedVars, scope, marker, writer, triggers, faults>>

-----------------------------------------------------------------------------
(* enqueueChampionAggregationFollowUp, from the worker's completed event.  *)

FollowUpCheck(m) ==
  /\ follow[m] = "check"
  /\ follow' = [follow EXCEPT ![m] = CASE Live(m) -> "none"
                                       [] job[m].state = "retained" -> "remove"
                                       [] OTHER -> "add"]
  /\ UNCHANGED <<rowVars, derivedVars, scope, marker, job, run, writer, triggers, faults>>

FollowUpRemove(m) ==
  /\ follow[m] = "remove"
  /\ IF job[m].state = "active"
       THEN follow' = [follow EXCEPT ![m] = "none"] /\ UNCHANGED job
       ELSE /\ job' = [job EXCEPT ![m] = NoJob]
            /\ follow' = [follow EXCEPT ![m] = "add"]
  /\ UNCHANGED <<rowVars, derivedVars, scope, marker, run, writer, triggers, faults>>

FollowUpAdd(m) ==
  /\ follow[m] = "add"
  /\ Enqueue(m)
  /\ follow' = [follow EXCEPT ![m] = "none"]
  /\ UNCHANGED <<rowVars, derivedVars, scope, marker, run, writer, triggers, faults>>

-----------------------------------------------------------------------------
(* Failures, each within the bound MaxFaults.                              *)

Fault(kind) ==
  /\ kind \in FaultKinds /\ faults < MaxFaults
  /\ faults' = faults + 1

\* A trigger dies, or its upsert or queue call throws and is swallowed, before
\* or after the scope row is durable.
WriterLost(w) ==
  /\ \/ /\ writer[w].pc \in {"persist", "complete", "link", "apply", "upsertRead", "upsertWrite"}
        /\ Fault("beforeScope")
     \/ writer[w].pc \in {"check", "remove", "add"} /\ Fault("afterScope")
  /\ End(w)
  /\ UNCHANGED <<rowVars, derivedVars, scope, marker, job, run, follow, triggers>>

\* A database call of the run throws.
JobError(m) ==
  /\ run[m].phase \in {"load", "read", "fold", "write", "clear", "matchup",
                      "matchupDelete", "matchupCreate"}
  /\ "job" \in FaultKinds
  /\ \E fatal \in BOOLEAN : FailAttempt(m, 1, fatal)

\* The worker process dies; stalled-job recovery redelivers it MaxStalls times
\* and then fails it without running the processor.
JobStalled(m) ==
  /\ run[m].phase # "idle" /\ Fault("stall")
  /\ job' = [job EXCEPT ![m] =
                [state |-> IF job[m].stalls < MaxStalls THEN "waiting" ELSE "retained",
                 attempts |-> job[m].attempts, stalls |-> job[m].stalls + 1]]
  /\ Discard(m)
  /\ UNCHANGED <<rowVars, derivedVars, scope, marker, follow, writer, triggers>>

\* INCR fails: logged, never fails the job.
BumpFails(m) ==
  /\ run[m].phase = "bump" /\ Fault("generation")
  /\ AfterBump(m)
  /\ UNCHANGED <<rowVars, derivedVars, scope, marker, job, follow, writer, triggers>>

FollowUpLost(m) ==
  /\ follow[m] # "none" /\ Fault("followUp")
  /\ follow' = [follow EXCEPT ![m] = "none"]
  /\ UNCHANGED <<rowVars, derivedVars, scope, marker, job, run, writer, triggers>>

-----------------------------------------------------------------------------

TriggerStep(w) ==
  \/ \E m \in Match : IngestLoad(w, m) \/ LinkLoad(w, m) \/ Reconcile(w, m)
  \/ \E p \in Participant : EnrichLoad(w, p)

WriterStep(w) ==
  \/ IngestPersist(w) \/ IngestComplete(w) \/ LinkApply(w) \/ EnrichApply(w)
  \/ UpsertRead(w) \/ UpsertWrite(w)
  \/ CheckJob(w) \/ RemoveJob(w) \/ AddJob(w)

JobStep(m) ==
  \/ StartJob(m) \/ LoadScope(m) \/ ScopeMissing(m) \/ ReadMatch(m)
  \/ FoldContributors(m) \/ WriteRecalculation(m) \/ ClearScope(m)
  \/ BumpGeneration(m) \/ ReadMatchups(m) \/ DeleteMatchups(m) \/ CreateMatchups(m)
  \/ FinishJob(m)

FollowUpStep(m) == FollowUpCheck(m) \/ FollowUpRemove(m) \/ FollowUpAdd(m)

FaultStep ==
  \/ \E w \in Writer : WriterLost(w)
  \/ \E m \in Match : JobError(m) \/ JobStalled(m) \/ BumpFails(m) \/ FollowUpLost(m)

Next ==
  \/ \E w \in Writer : TriggerStep(w) \/ WriterStep(w)
  \/ \E m \in Match : JobStep(m) \/ FollowUpStep(m)
  \/ FaultStep

Spec == Init /\ [][Next]_vars

\* What runs by itself: processes that are up, the queue, and the retry of an
\* ingestion left IN_PROGRESS.
Fairness ==
  /\ \A w \in Writer : WF_vars(WriterStep(w))
  /\ \A m \in Match :
       /\ WF_vars(JobStep(m)) /\ WF_vars(FollowUpStep(m))
       /\ WF_vars(\E w \in Writer : status[m] = "IN_PROGRESS" /\ IngestLoad(w, m))

FairSpec == Spec /\ Fairness

-----------------------------------------------------------------------------
(* Properties.                                                             *)

Phase == {"idle", "load", "read", "fold", "write", "clear", "bump", "matchup",
          "matchupDelete", "matchupCreate", "finish"}
WriterPc == {"idle", "persist", "complete", "link", "apply", "upsertRead", "upsertWrite",
             "check", "remove", "add"}

RunType == [phase : Phase, loaded : SUBSET Key, affected : SUBSET Key,
            eligible : BOOLEAN, folded : [Key -> SUBSET Participant], remains : BOOLEAN]
WriterType == [pc : WriterPc, kind : TriggerKind \cup {"none"}, match : Match \cup {None},
               who : Participant \cup {None}, prev : SUBSET Key, known : SUBSET Participant,
               row : {None} \cup SUBSET Key]
MatchupState == {"current", "read", "deleted", "stale"}
JobType == [state : {"none", "waiting", "active", "retained"}, attempts : Nat, stalls : Nat]

\* Every variable has its type.
TypeOK ==
  /\ status \in [Match -> {"NONE", "IN_PROGRESS", "COMPLETED"}]
  /\ slot \in [Participant -> Slot \cup {None}]
  /\ rank \in [Participant -> Rank]
  /\ aggregate \in [Key -> SUBSET Participant]
  /\ matchup \in [Match -> MatchupState] /\ owed \in BOOLEAN
  /\ scope \in [Match -> {None} \cup SUBSET Key]
  /\ marker \in [Match -> {"NONE", "COMPLETED", "FAILED"}]
  /\ job \in [Match -> JobType]
  /\ run \in [Match -> RunType]
  /\ follow \in [Match -> {"none", "check", "remove", "add"}]
  /\ writer \in [Writer -> WriterType]
  /\ triggers \in 0..MaxTriggers /\ faults \in 0..MaxFaults

\* The rows of a stored match have their dimensions, and only a stored match is
\* completed: the keys computed from rows are always keys.
StoredMatchesArePlaced ==
  /\ \A p \in Participant : status[MatchOf[p]] # "NONE" => slot[p] \in Slot
  /\ \A w \in Writer : writer[w].pc = "complete" => status[writer[w].match] # "NONE"

\* A trigger under way is about a match.
WritersHaveTargets ==
  \A w \in Writer : writer[w].pc # "idle" => writer[w].match \in Match

\* From its read to the clear, a run recalculates every key it loaded.
RunsCoverLoaded ==
  \A m \in Match : run[m].phase \in {"fold", "write", "clear"}
                      => run[m].loaded \subseteq run[m].affected

\* The inductive invariant behind the theorems of ChampionAggregationProofs.
IInv == TypeOK /\ StoredMatchesArePlaced /\ WritersHaveTargets /\ RunsCoverLoaded

\* A scope row is deleted only by a run that recalculated every key pending in
\* it: the conditional clear never drops the key of a concurrent enqueue.
ClearCoversRow ==
  [][\A m \in Match : scope[m] # None /\ scope'[m] = None => scope[m] \subseteq run[m].affected]_vars

Quiescent ==
  /\ \A w \in Writer : writer[w].pc = "idle"
  /\ \A m \in Match : ~Live(m) /\ follow[m] = "none" /\ status[m] # "IN_PROGRESS"

Stale(k) == aggregate[k] # Contributors(k)

PendingKeys(m) == IF scope[m] = None THEN {} ELSE scope[m]

\* The reconcile CLI would have this key recalculated.
Repairable(k) ==
  \E m \in Match : NeedsReconcile(m) /\ k \in PendingKeys(m) \cup CurrentKeys(m)

\* Once everything has settled, an aggregate that does not match the stored
\* participants is one the reconcile CLI finds and repairs.
StaleIsReconcilable == Quiescent => \A k \in Key : Stale(k) => Repairable(k)

\* Likewise for what a run does after its write: matchups left behind, or a
\* cache generation never advanced, leave a match that reconcile picks up.
EffectsAreReconcilable ==
  Quiescent => /\ \A m \in Match : matchup[m] # "current" => NeedsReconcile(m)
               /\ owed => \E m \in Match : NeedsReconcile(m)

\* Whatever fails, nothing is stale or left undone for good: what a quiet system
\* still owes is work of the reconcile CLI.
WhatIsOwedIsReconcilable == StaleIsReconcilable /\ EffectsAreReconcilable

\* A run that leaves a pending scope behind is followed by one that clears it,
\* unless the jobs fail.
RemainingScopeIsFollowedUp ==
  \A m \in Match : (run[m].phase = "finish" /\ run[m].remains)
                     ~> (scope[m] = None \/ marker[m] = "FAILED")

\* Nothing keeps the queue busy for ever: retries and follow-ups end.
EventuallyQuiescent == <>[]Quiescent

\* champion-aggregation.repository.ts on the scope upsert: "Never discards
\* prior pending keys from a concurrent enqueue."
ScopeKeysNeverDiscarded ==
  [][\A m \in Match : scope[m] # None /\ scope'[m] # None => scope[m] \subseteq scope'[m]]_vars
-----------------------------------------------------------------------------
(* The inductive invariant behind WhatIsOwedIsReconcilable, in the setting  *)
(* in which it holds: stored matches are ingested once and enriched, one job *)
(* runs at a time, and one thing fails, once the scope row is durable.      *)

OneFailureSetting ==
  /\ Triggers \subseteq {"ingest", "enrich"}
  /\ FaultKinds \cap {"beforeScope", "generation"} = {}
  /\ Concurrency = 1 /\ MaxFaults <= 1 /\ MaxStalls >= 1
  /\ "PENDING" \notin Outcome
  /\ \A m \in Match : \E p \in Participant : Players(m) = {p}

\* The key that a row feeds whatever its rank: the one an enrichment stores.
AllKey(p) == <<slot[p], "ALL">>

\* An execution that has changed rows and has yet to store its scope.
Announces(w, m) == writer[w].match = m /\ writer[w].pc \in {"upsertRead", "upsertWrite"}

Ingests(w, m) ==
  /\ writer[w].kind = "ingest" /\ writer[w].match = m
  /\ writer[w].pc \in {"persist", "complete", "upsertRead", "upsertWrite"}

Enriches(w, p) ==
  /\ writer[w].kind = "enrich" /\ writer[w].who = p
  /\ writer[w].pc \in {"upsertRead", "upsertWrite"}

\* Something stands for the match that a reconciliation or a writer finds.
Owing(m) == scope[m] # None \/ marker[m] # "COMPLETED" \/ \E w \in Writer : Announces(w, m)

\* Each trigger is where it is with the rows it is about, once per match and row.
IngestIsOrderly(w) ==
  LET x == writer[w] IN
    x.kind = "ingest" =>
      /\ x.prev = {}
      /\ \/ x.pc = "persist" /\ status[x.match] = "NONE"
         \/ x.pc = "complete" /\ status[x.match] = "IN_PROGRESS"
         \/ x.pc \in {"upsertRead", "upsertWrite", "check", "remove", "add"}
              /\ status[x.match] = "COMPLETED"
      /\ \A v \in Writer : writer[v].kind = "ingest" /\ writer[v].match = x.match => v = w

EnrichIsOrderly(w) ==
  LET x == writer[w] IN
    x.kind = "enrich" =>
      /\ x.who \in Participant /\ x.match = MatchOf[x.who]
      /\ x.prev = {AllKey(x.who)} /\ status[x.match] # "NONE"
      /\ \/ x.pc = "apply" /\ rank[x.who] = "PENDING"
         \/ x.pc \in {"upsertRead", "upsertWrite", "check", "remove", "add"}
              /\ rank[x.who] # "PENDING"
      /\ \A v \in Writer : writer[v].kind = "enrich" /\ writer[v].who = x.who => v = w

WriterIsPlaced(w) ==
  /\ writer[w].pc # "idle" => writer[w].kind \in {"ingest", "enrich"}
  /\ writer[w].pc \in {"idle", "persist", "complete", "apply", "upsertRead"} => writer[w].row = None

WritersAreOrderly ==
  \A w \in Writer : WriterIsPlaced(w) /\ IngestIsOrderly(w) /\ EnrichIsOrderly(w)

\* An ingestion that has begun goes on, and nothing comes before it.
IngestionsGoOn ==
  \A m \in Match :
    /\ status[m] = "IN_PROGRESS" => \E w \in Writer : Ingests(w, m)
    /\ status[m] = "NONE" => /\ scope[m] = None /\ job[m] = NoJob /\ run[m] = IdleRun
                             /\ follow[m] = "none" /\ marker[m] = "NONE"
                             /\ matchup[m] = "current"

\* The key of a row that has not been enriched, or is about to announce it, is
\* pending nowhere; and what is pending before the ingestion has announced its
\* match is that key.
KeysAreAnnounced ==
  \A p \in Participant :
    LET m == MatchOf[p] IN
      status[m] # "NONE" =>
        /\ rank[p] = "PENDING" \/ (\E w \in Writer : Enriches(w, p)) =>
             /\ AllKey(p) \notin PendingKeys(m) /\ AllKey(p) \notin run[m].loaded
             /\ \A w \in Writer : writer[w].match = m /\ writer[w].row # None
                                    => AllKey(p) \notin writer[w].row
        /\ (\E w \in Writer : Ingests(w, m)) =>
             /\ scope[m] # None => AllKey(p) \in scope[m]
             /\ run[m].phase \in {"read", "fold", "write", "clear"} => AllKey(p) \in run[m].loaded
             /\ \A w \in Writer : writer[w].match = m /\ writer[w].row # None
                                    => AllKey(p) \in writer[w].row

\* One job runs at a time, on a scope that is pending until it clears it; its
\* marker says that it has read the match complete.
RunsAreOrderly ==
  \A m \in Match :
    /\ run[m].phase # "idle" => job[m].state = "active"
    /\ job[m].state = "active" => \A n \in Match : job[n].state = "active" => n = m
    /\ run[m].phase \in {"read", "fold", "write", "clear"} => scope[m] # None
    /\ marker[m] = "COMPLETED" => status[m] = "COMPLETED"
    /\ run[m].phase \in {"idle", "load", "read"}
         \/ IF run[m].eligible THEN status[m] = "COMPLETED" /\ run[m].affected # {}
                               ELSE marker[m] # "COMPLETED"
    /\ job[m].stalls <= faults

\* How far a run has brought a key of the match.
Covered(m, p, k) ==
  CASE run[m].phase = "fold"  -> k \in run[m].affected
    [] run[m].phase = "write" -> k \in run[m].affected /\ p \in run[m].folded[k]
    [] OTHER                  -> p \in aggregate[k]

\* Until its clear, a run covers the match as it is, or the clear will find
\* another row than the one loaded.
RunsCoverMatch ==
  \A p \in Participant :
    LET m == MatchOf[p] IN
      run[m].phase \in {"fold", "write", "clear"} /\ run[m].eligible =>
        \/ \A k \in ContributedKeys(p) : Covered(m, p, k)
        \/ /\ AllKey(p) \notin run[m].loaded
           /\ (\E w \in Writer : Enriches(w, p)) \/ scope[m] # run[m].loaded

\* Who is missing in an aggregate, or in what is about to replace it, belongs to
\* a match for which something stands.
AggregatesCatchUp ==
  \A p \in Participant : \A k \in ContributedKeys(p) :
    Eligible(MatchOf[p]) =>
      /\ p \in aggregate[k] \/ Owing(MatchOf[p])
      /\ \A n \in Match \ {MatchOf[p]} :
           run[n].phase = "write" /\ k \in run[n].affected
             => p \in run[n].folded[k] \/ Owing(MatchOf[p])

\* Nobody is counted who does not belong there.
NothingExtra ==
  \A k \in Key :
    /\ aggregate[k] \subseteq Contributors(k)
    /\ \A m \in Match : run[m].phase = "write" /\ k \in run[m].affected
                          => run[m].folded[k] \subseteq Contributors(k)

\* After the one failure, a job to come finds no scope row and fails.
ToFail(m) ==
  /\ faults = 1
  /\ \/ job[m].state = "waiting" \/ run[m].phase = "load"
     \/ job[m] = NoJob /\ (follow[m] = "add" \/ \E w \in Writer : writer[w].match = m
                                                                  /\ writer[w].pc = "add")

\* Stale matchups, and rows the generation does not know of, are pursued.
MatchupsArePursued ==
  \A m \in Match : matchup[m] # "current" =>
    \/ Owing(m) \/ ToFail(m)
    \/ run[m].eligible /\ run[m].phase \in {"bump", "matchup"}
    \/ run[m].phase = "matchupDelete" /\ matchup[m] = "read"
    \/ run[m].phase = "matchupCreate" /\ matchup[m] = "deleted"

GenerationIsPursued ==
  owed => \E m \in Match : /\ status[m] # "NONE"
                           /\ Owing(m) \/ ToFail(m) \/ run[m].phase = "bump"

OwedInv ==
  /\ WritersAreOrderly /\ IngestionsGoOn /\ KeysAreAnnounced /\ RunsAreOrderly
  /\ RunsCoverMatch /\ AggregatesCatchUp /\ NothingExtra
  /\ MatchupsArePursued /\ GenerationIsPursued
=============================================================================
