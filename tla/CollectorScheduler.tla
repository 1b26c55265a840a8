------------------------- MODULE CollectorScheduler -------------------------
(***************************************************************************)
(* The recurring scheduler of the collector: each tick takes the singleton *)
(* lease with a fresh owner token, looks at the cooldowns and at the       *)
(* ingestion queue, runs the collector once while the lease is renewed,    *)
(* records the run and releases the lease. Losing the lease is soft: the   *)
(* run goes on, and only what the tick would record is refused. Runs from  *)
(* the CLI take no lease.                                                  *)
(*                                                                         *)
(* The token of a tick is also that of its run; tokens are handed out in   *)
(* order. The queue is seen through the decision it leads to, ticks that   *)
(* do not get the lease, or are disabled, change nothing, and the outcome  *)
(* and error code a tick records are left out.                             *)
(***************************************************************************)
EXTENDS PopulationCollector

CONSTANT Cli     \* the tokens whose run may come from the CLI

ASSUME TokenAssumption == Token \subseteq Nat /\ Cli \subseteq Token

VARIABLES
  state,   \* CollectorSchedulerState
  tick     \* where each tick is

schedulerVars == <<state, tick>>
allVars == <<vars, schedulerVars>>

SchedulerInit ==
  /\ Init
  /\ state = [owner |-> None, expired |-> FALSE, lastRun |-> None, cooldown |-> FALSE]
  /\ tick = [t \in Token |-> "idle"]

\* Mistake: the singleton row is updated by id alone.
HoldsAny(t) == TRUE

\* WHERE id = 'singleton' AND "leaseOwner" = ...
Holds(t) == state.owner = t

LeaseFree == state.owner = None \/ state.expired

Fresh(t) == tick[t] = "idle" /\ \A u \in Token : u < t => tick[u] # "idle"

Proceed(t, pc) == tick' = [tick EXCEPT ![t] = pc]

\* An owner-guarded update: without the lease it changes nothing, and the
\* tick goes on to release what it no longer has.
Record(t, written, next) ==
  \/ Holds(t) /\ state' = written /\ Proceed(t, next)
  \/ ~Holds(t) /\ UNCHANGED state /\ Proceed(t, "release")

Acquire(t) ==
  /\ Fresh(t) /\ LeaseFree
  /\ state' = [state EXCEPT !.owner = t, !.expired = FALSE]
  /\ Proceed(t, "check")
  /\ UNCHANGED claims

SkipCooldown(t) ==
  /\ tick[t] = "check" /\ (cooling \/ state.cooldown)
  /\ Record(t, state, "release")
  /\ UNCHANGED claims

\* Too many pending ingestion jobs, or their number is unknown.
SkipBackpressure(t) ==
  /\ tick[t] = "check" /\ ~cooling /\ ~state.cooldown
  /\ Record(t, state, "release")
  /\ UNCHANGED claims

RunOnce(t) ==
  /\ tick[t] = "check" /\ ~cooling /\ ~state.cooldown
  /\ StartRun(t)
  /\ Proceed(t, "running")
  /\ UNCHANGED state

\* collector:run
RunFromCli(t) ==
  /\ t \in Cli /\ Fresh(t)
  /\ StartRun(t)
  /\ Proceed(t, "cli")
  /\ UNCHANGED state

\* A lease that expired and that nobody took is renewed as well.
RenewLease(t) ==
  /\ run[t].pc # "none" /\ tick[t] \in {"running", "outcome", "mirror", "cooldown", "failed"}
  /\ Holds(t) /\ state.expired
  /\ state' = [state EXCEPT !.expired = FALSE]
  /\ UNCHANGED <<claims, tick>>

\* runOnce has returned, or thrown.
RunReturned(t) == tick[t] = "running" /\ run[t].pc = "returned"
RunThrew(t) == tick[t] = "running" /\ run[t].pc \in {"threw", "threwUnreleased"}

RecordTrigger(t) ==
  /\ RunReturned(t)
  /\ Record(t, [state EXCEPT !.lastRun = t], "outcome")
  /\ UNCHANGED claims

RecordOutcome(t) ==
  /\ tick[t] = "outcome"
  /\ Record(t, state,
            IF run[t].count.rateStops > 0 THEN "mirror" ELSE "release")
  /\ UNCHANGED claims

\* resolveLocalCooldownAfterRateLimit extends a shared cooldown that has ended.
MirrorCooldown(t) ==
  /\ tick[t] = "mirror"
  /\ cooling' = TRUE
  /\ Proceed(t, "cooldown")
  /\ UNCHANGED <<row, run, work, uncounted, tally, state>>

SetCooldown(t) ==
  /\ tick[t] = "cooldown"
  /\ Record(t, [state EXCEPT !.cooldown = TRUE], "release")
  /\ UNCHANGED claims

RecordFailure(t) ==
  /\ tick[t] = "failed" \/ RunThrew(t)
  /\ Record(t, state, "release")
  /\ UNCHANGED claims

ReleaseLease(t) ==
  /\ tick[t] = "release"
  /\ state' = IF Holds(t) THEN [state EXCEPT !.owner = None, !.expired = FALSE] ELSE state
  /\ Proceed(t, "done")
  /\ UNCHANGED claims

OwnSteps == {"check", "outcome", "mirror", "cooldown", "failed", "release"}

\* A statement of the tick fails: a failure to start is recorded, unless that
\* was the statement, and the lease released, unless that was.
TickThrows(t) ==
  /\ Event
  /\ tick[t] \in OwnSteps \/ RunReturned(t) \/ RunThrew(t)
  /\ Proceed(t, CASE tick[t] = "failed" \/ RunThrew(t) -> "release" [] tick[t] = "release" -> "done"
                  [] OTHER -> "failed")
  /\ UNCHANGED <<claims, state>>

\* The process dies: with the run, or in the tick around it.
ProcessDies(t) ==
  \/ tick[t] \in {"running", "cli"} /\ Crash(t) /\ Proceed(t, "dead") /\ UNCHANGED state
  \/ /\ Event
     /\ tick[t] \in OwnSteps \/ RunReturned(t) \/ RunThrew(t)
     /\ Proceed(t, "dead")
     /\ work' = [work EXCEPT ![t] = [p \in Player |-> NoWork]]
     /\ UNCHANGED <<row, cooling, run, uncounted, tally, state>>

SchedulerLeaseExpires ==
  /\ Event
  /\ state.owner # None /\ ~state.expired
  /\ state' = [state EXCEPT !.expired = TRUE]
  /\ UNCHANGED <<claims, tick>>

LocalCooldownEnds ==
  /\ state.cooldown
  /\ state' = [state EXCEPT !.cooldown = FALSE]
  /\ UNCHANGED <<claims, tick>> /\ NoEvent

TickStep(t) ==
  /\ NoEvent
  /\ \/ SkipCooldown(t) \/ SkipBackpressure(t) \/ RunOnce(t)
     \/ RecordTrigger(t) \/ RecordOutcome(t) \/ MirrorCooldown(t) \/ SetCooldown(t)
     \/ RecordFailure(t) \/ ReleaseLease(t)

CollectorStep(t) ==
  /\ \/ RunStep(t)
     \/ \E p \in Player : PlayerStep(t, p)
  /\ UNCHANGED schedulerVars

SchedulerNext ==
  \/ \E t \in Token :
       \/ (Acquire(t) \/ RunFromCli(t) \/ RenewLease(t)) /\ NoEvent
       \/ TickStep(t) \/ CollectorStep(t)
       \/ TickThrows(t) \/ ProcessDies(t)
  \/ Trouble /\ UNCHANGED schedulerVars
  \/ SchedulerLeaseExpires \/ LocalCooldownEnds

SchedulerSpec == SchedulerInit /\ [][SchedulerNext]_allVars

-----------------------------------------------------------------------------
(* Properties.                                                             *)

Phase == {"none", "assigned", "publish", "settling", "done"}
RunPc == Over \cup {"loop", "wave", "ensure", "finalize", "catch", "catchFinalize",
                    "catchUnreleased"}
CountType == [claimed : Nat, attempted : Nat, succeeded : Nat, failed : Nat, lost : Nat,
              discovered : Nat, enqueued : Nat, rateStops : Nat, exhausted : BOOLEAN]

RowType == [status : {"ACTIVE", "PAUSED", "SUSPENDED"}, due : BOOLEAN, owner : Token \cup {None},
            expired : BOOLEAN, failures : Nat, streak : 0..MaxStreak]
RunType == [pc : RunPc, status : {"NONE", "RUNNING", "COMPLETED", "PARTIAL", "FAILED"},
            count : CountType, stop : BOOLEAN, limited : BOOLEAN, deferred : BOOLEAN,
            wave : SUBSET Player]
WorkType == [phase : Phase, budget : 0..MatchesPerPlayer, streak : 0..MaxStreak,
             result : {"none", "ok", "failed", "permanent", "rateLimited", "deferred"},
             found : 0..MatchesPerPlayer, enqueued : 0..MatchesPerPlayer,
             outcome : {"none", "success", "failure", "ownership_lost", "cooldown_skip", "threw"}]

StateType == [owner : Token \cup {None}, expired : BOOLEAN, lastRun : Token \cup {None},
              cooldown : BOOLEAN]
TickPc == {"idle", "check", "running", "cli", "outcome", "mirror", "cooldown", "failed",
           "release", "done", "dead"}

\* Every variable has its type.
TypeOK ==
  /\ row \in [Player -> RowType]
  /\ cooling \in BOOLEAN
  /\ run \in [Token -> RunType]
  /\ work \in [Token -> [Player -> WorkType]]
  /\ uncounted \in [Token -> BOOLEAN]
  /\ tally \in [Token -> [succeeded : Nat, failed : Nat, lost : Nat]]
  /\ state \in StateType
  /\ tick \in [Token -> TickPc]

\* The rows of the players behave as PlayerClaims says, whatever runs overlap:
\* a claim is settled at most once, and on the streak it was claimed with.
Claims == INSTANCE PlayerClaims WITH
  Holder <- Token,
  holder <- [p \in Player |-> row[p].owner], lapsed <- [p \in Player |-> row[p].expired],
  status <- [p \in Player |-> row[p].status],
  failures <- [p \in Player |-> row[p].failures], streak <- [p \in Player |-> row[p].streak]

ClaimsSettledOnce == Claims!Spec

\* A run that has ended, other than by dying or by a release that failed,
\* leaves no player under its lease.
EndedRunsHoldNoLease ==
  \A t \in Token : run[t].pc \in {"returned", "threw"} => \A p \in Player : ~Owns(t, p)

\* The row of a run that returned counts what its settlements did to the
\* players, lost claims included, and COMPLETED means that nothing went wrong.
RunRowsTellTheTruth ==
  \A t \in Token : run[t].pc = "returned" =>
    LET c == run[t].count IN
      /\ c.succeeded = tally[t].succeeded /\ c.failed = tally[t].failed /\ c.lost = tally[t].lost
      /\ run[t].status = "COMPLETED" => tally[t].failed = 0 /\ tally[t].lost = 0

\* What a run counts stays within its budgets, though the shares of a wave are
\* given out before any of its workers has found anything.
CountsStayWithinBudgets ==
  \A t \in Token : LET c == run[t].count IN
    c.claimed <= BatchLimit[t] /\ c.discovered <= MaxMatchIds /\ c.enqueued <= MaxEnqueue

\* What the row of a run says is true and within what the run was allowed.
RunsCountTruly == RunRowsTellTheTruth /\ CountsStayWithinBudgets

\* README, lease safety: "Stale owners cannot mutate active owner state". The
\* lease leaves its owner by its own release or after it expired, and the run
\* recorded last is never replaced by that of an earlier tick.
StaleTicksChangeNothing ==
  [][/\ \A t \in Token : state.owner = t /\ state'.owner # t
                           => tick[t] = "release" \/ state.expired
     /\ state'.lastRun # state.lastRun =>
          /\ state'.lastRun = state.owner
          /\ state.lastRun # None => state'.lastRun > state.lastRun]_allVars

\* What is left to do by a run itself, and for a player it refreshes.
OwnWork(t) ==
  CASE run[t].pc = "wave" -> 9 [] run[t].pc = "loop" -> 8 [] run[t].pc = "ensure" -> 7
    [] run[t].pc = "finalize" -> 6 [] run[t].pc = "catch" -> 5
    [] run[t].pc \in {"catchFinalize", "catchUnreleased"} -> 4 [] OTHER -> 0

PlayerWork(t) ==
  [p \in Player |-> CASE work[t][p].phase = "assigned" -> 3 [] work[t][p].phase = "publish" -> 2
                      [] work[t][p].phase = "settling" -> 1 [] OTHER -> 0]

\* What is left to do by a run: the players it may still claim, those it is
\* refreshing, and its own steps.
Remaining(t) == 10 * RemainingBatch(t) + OwnWork(t) + SumFunctionOnSet(PlayerWork(t), Player)

\* Every step of a run takes it closer to its end, whatever fails but its
\* process: players it skipped for the cooldown, and may claim again at once,
\* included.
RunsMakeProgress ==
  [][\A t \in Token :
       /\ run[t].pc \notin {"none", "dead"} /\ tick'[t] # "dead"
       /\ <<run[t], work[t]>>' # <<run[t], work[t]>>
       => Remaining(t)' < Remaining(t)]_allVars

\* And until then it has a step to take, and so has every tick: the counters
\* always add up, and no outcome is left without a step.
NobodyIsStuck ==
  \A t \in Token :
    /\ run[t].pc \notin Over => ENABLED (RunStep(t) \/ \E p \in Player : PlayerStep(t, p))
    /\ tick[t] \in OwnSteps \/ RunReturned(t) \/ RunThrew(t) => ENABLED TickStep(t)

\* population-collector.service.ts on the shares: "so parallel work cannot
\* overshoot run budgets".
RunBudgetNotOvershot ==
  \A t \in Token : uncounted[t] => run[t].count.enqueued < MaxEnqueue

-----------------------------------------------------------------------------
(* The inductive invariant behind the theorems of CollectorProofs.          *)

\* A run that has released its leases holds none, outside its waves it
\* refreshes nobody, and a refresh has its outcome when it is over.
RunInv(t) ==
  /\ run[t].pc \in {"finalize", "returned", "catchFinalize", "threw"}
       => \A p \in Player : ~Owns(t, p)
  /\ run[t].pc \in {"none", "loop", "ensure", "finalize", "returned"} => run[t].wave = {}
  /\ \A p \in Player \ run[t].wave : work[t][p] = NoWork
  /\ \A p \in Player : work[t][p].phase # "done" => work[t][p].outcome = "none"

\* While a claim lasts nobody else moves the streak.
StreakIsKept(t, p) ==
  /\ work[t][p].phase \in {"assigned", "publish", "settling"} /\ Owns(t, p)
  => work[t][p].streak = row[p].streak

\* What the refresh of each player may still count against the budgets.
Share(t) ==
  [p \in Player |-> IF work[t][p].phase = "assigned" THEN work[t][p].budget ELSE work[t][p].found]

SharesFit(t) ==
  /\ run[t].count.claimed <= BatchLimit[t]
  /\ SumFunctionOnSet(Share(t), Player) <= MatchBudget(t)
  /\ SumFunctionOnSet(Share(t), Player) <= EnqueueBudget(t)
  /\ \A p \in Player : /\ work[t][p].enqueued <= work[t][p].found
                       /\ work[t][p].phase = "assigned" => work[t][p].found = 0

\* The row and the outcomes of the wave count the settlements.
TallyAgrees(t) ==
  LET c == run[t].count IN
    /\ run[t].pc \in {"none", "loop", "wave", "ensure", "finalize", "returned"} =>
         /\ tally[t].succeeded = c.succeeded + Cardinality(Outcomes(t, "success"))
         /\ tally[t].failed = c.failed + Cardinality(Outcomes(t, "failure"))
         /\ tally[t].lost = c.lost + Cardinality(Outcomes(t, "ownership_lost"))
    /\ run[t].pc = "returned" /\ run[t].status = "COMPLETED" => c.failed = 0 /\ c.lost = 0

\* A run goes on under the tick, or the command, that started it.
RunHasTick(t) == run[t].pc \notin Over => tick[t] \in {"running", "cli"}

\* Tokens are handed out in order, and the lease moves on with them.
TicksInOrder ==
  /\ \A t, u \in Token : tick[t] # "idle" /\ u < t => tick[u] # "idle"
  /\ \A t \in {state.owner, state.lastRun} \ {None} : tick[t] # "idle"
  /\ state.owner # None /\ state.lastRun # None => state.lastRun <= state.owner

ClaimInv == \A t \in Token : RunInv(t) /\ \A p \in Player : StreakIsKept(t, p)

CountInv == \A t \in Token : SharesFit(t) /\ TallyAgrees(t)

TickInv == TicksInOrder /\ \A t \in Token : RunHasTick(t)

IInv == TypeOK /\ ClaimInv /\ CountInv /\ TickInv
=============================================================================
