------------------------ MODULE PopulationCollector ------------------------
(***************************************************************************)
(* One guarded run of the population collector: waves of tracked players   *)
(* are claimed with a lease, refreshed by parallel workers, settled by     *)
(* UPDATEs guarded by the lease owner, and counted; the run row is         *)
(* finalised at the end. Runs overlap when they come from the CLI or from  *)
(* two schedulers, one of which has lost its lease.                        *)
(*                                                                         *)
(* A wave is no larger than the concurrency and no larger than either      *)
(* remaining budget, so every claimed player has a worker of its own and a *)
(* budget of at least one: the branch for a zero budget is never taken and *)
(* is left out. Time is two booleans per player: whether it is due, and    *)
(* whether its lease has expired. Priority and delay follow from the       *)
(* streak and are left out with the order of the claim.                    *)
(***************************************************************************)
EXTENDS Integers, FiniteSets, Functions

CONSTANTS
  Player,
  Token,             \* owner tokens: one per run
  BatchLimit,        \* an argument of each run
  Concurrency, MatchesPerPlayer, MaxMatchIds, MaxEnqueue, MaxStreak,
  MaxEvents,         \* exploration bound: failures, expiries, and players due again
  None

ASSUME ConstantsAssumption ==
  /\ IsFiniteSet(Player)
  /\ BatchLimit \in [Token -> Nat \ {0}]
  /\ {Concurrency, MatchesPerPlayer, MaxMatchIds, MaxEnqueue, MaxStreak} \subseteq Nat \ {0}
  /\ MaxEvents \in Nat
  /\ None \notin Token

VARIABLES
  row,           \* TrackedPlayer
  cooling,       \* whether the shared Riot cooldown is active
  run,           \* CollectorRun, and what runOnce has in memory
  work,          \* the refresh of each claimed player
  uncounted,     \* history: whether its discoveries may enqueue matches it never counts
  tally,         \* history: the settlements of the run
  events         \* exploration counter

claims == <<row, cooling, run, work, uncounted, tally>>
vars == <<claims, events>>

Zero == [claimed |-> 0, attempted |-> 0, succeeded |-> 0, failed |-> 0, lost |-> 0,
         discovered |-> 0, enqueued |-> 0, rateStops |-> 0, exhausted |-> FALSE]

NoRun == [pc |-> "none", status |-> "NONE", count |-> Zero, stop |-> FALSE,
          limited |-> FALSE, deferred |-> FALSE, wave |-> {}]

NoWork == [phase |-> "none", budget |-> 0, streak |-> 0, result |-> "none",
           found |-> 0, enqueued |-> 0, outcome |-> "none"]

Init ==
  /\ row = [p \in Player |-> [status |-> "ACTIVE", due |-> TRUE, owner |-> None,
                              expired |-> FALSE, failures |-> 0, streak |-> 0]]
  /\ cooling = FALSE
  /\ run = [t \in Token |-> NoRun]
  /\ work = [t \in Token |-> [p \in Player |-> NoWork]]
  /\ uncounted = [t \in Token |-> FALSE]
  /\ tally = [t \in Token |-> [succeeded |-> 0, failed |-> 0, lost |-> 0]]
  /\ events = 0

Least(a, b) == IF a < b THEN a ELSE b

Goto(t, pc) == run' = [run EXCEPT ![t].pc = pc]

-----------------------------------------------------------------------------
(* The rows of TrackedPlayer.                                              *)

Eligible(p) ==
  /\ row[p].status = "ACTIVE" /\ row[p].due
  /\ row[p].owner = None \/ row[p].expired

Freed(r) == [r EXCEPT !.owner = None, !.expired = FALSE]

\* Mistake: the row is updated by id alone.
OwnsAny(t, p) == TRUE

\* WHERE id = ... AND "leaseOwner" = ...
Owns(t, p) == row[p].owner = t

\* Mistake: the streak grows for ever.
NextStreakUncapped(streak, enqueued) == IF enqueued > 0 THEN 0 ELSE streak + 1

\* The zero-new streak counts up to its maximum from the streak the player was
\* claimed with.
NextStreak(streak, enqueued) == IF enqueued > 0 THEN 0 ELSE Least(streak + 1, MaxStreak)

SettledSuccess(r, streak) ==
  [Freed(r) EXCEPT !.due = FALSE, !.streak = streak,
                   !.failures = IF r.status = "ACTIVE" THEN 0 ELSE @]

SettledFailure(r, permanent) ==
  [Freed(r) EXCEPT !.due = FALSE, !.failures = @ + 1,
                   !.status = IF permanent THEN "SUSPENDED" ELSE @]

\* forceReleaseOwnedLeases
Released(t) == [p \in Player |-> IF Owns(t, p) THEN Freed(row[p]) ELSE row[p]]

-----------------------------------------------------------------------------
(* runOnce.                                                                *)

StartRun(t) ==
  /\ run[t].pc = "none"
  /\ run' = [run EXCEPT ![t].pc = "loop", ![t].status = "RUNNING"]
  /\ UNCHANGED <<row, cooling, work, uncounted, tally>>

MatchBudget(t) == MaxMatchIds - run[t].count.discovered
EnqueueBudget(t) == MaxEnqueue - run[t].count.enqueued
UsefulBudget(t) == Least(MatchBudget(t), EnqueueBudget(t))

\* Mistake: players that were only skipped do not use up the batch.
RemainingAttempts(t) == BatchLimit[t] - run[t].count.attempted

RemainingBatch(t) == BatchLimit[t] - run[t].count.claimed

StopClaims(t) ==
  /\ run[t].pc = "loop"
  /\ run[t].stop \/ RemainingBatch(t) <= 0
  /\ Goto(t, "ensure")
  /\ UNCHANGED <<row, cooling, work, uncounted, tally>>

BudgetSpent(t) ==
  /\ run[t].pc = "loop" /\ ~run[t].stop /\ RemainingBatch(t) > 0
  /\ UsefulBudget(t) <= 0
  /\ run' = [run EXCEPT ![t].pc = "ensure",
                        ![t].count.exhausted = @ \/ \E p \in Player : Eligible(p)]
  /\ UNCHANGED <<row, cooling, work, uncounted, tally>>

MayClaim(t) ==
  /\ run[t].pc = "loop" /\ ~run[t].stop
  /\ RemainingBatch(t) > 0 /\ UsefulBudget(t) > 0

CooldownPreflight(t) ==
  /\ MayClaim(t) /\ cooling
  /\ Goto(t, "ensure")
  /\ UNCHANGED <<row, cooling, work, uncounted, tally>>

\* Mistake: every worker may use all of what is left.
FullShares(S, useful) == {[p \in S |-> Least(MatchesPerPlayer, useful)]}

\* One match each, then the rest to the first in order up to the limit of a
\* player: at most one player is left in between.
Shares(S, useful) ==
  {b \in [S -> 1..MatchesPerPlayer] :
     /\ SumFunctionOnSet(b, S) = Least(useful, MatchesPerPlayer * Cardinality(S))
     /\ Cardinality({p \in S : b[p] \notin {1, MatchesPerPlayer}}) <= 1}

\* SKIP LOCKED: rows another transaction has locked are passed over, all of
\* them perhaps, which ends the run.
ClaimWave(t) ==
  /\ MayClaim(t) /\ ~cooling
  /\ \E S \in SUBSET {p \in Player : Eligible(p)} :
       /\ Cardinality(S) <= Least(Least(Concurrency, RemainingBatch(t)), UsefulBudget(t))
       /\ row' = [p \in Player |->
                    IF p \in S THEN [row[p] EXCEPT !.owner = t, !.expired = FALSE] ELSE row[p]]
       /\ \E b \in Shares(S, UsefulBudget(t)) :
            work' = [work EXCEPT ![t] = [p \in Player |->
                       IF p \in S THEN [NoWork EXCEPT !.phase = "assigned", !.budget = b[p],
                                                      !.streak = row[p].streak]
                       ELSE @[p]]]
       /\ run' = [run EXCEPT ![t].pc = IF S = {} THEN "ensure" ELSE "wave", ![t].wave = S,
                             ![t].limited = FALSE, ![t].deferred = FALSE,
                             ![t].count.claimed = @ + Cardinality(S)]
  /\ UNCHANGED <<cooling, uncounted, tally>>

-----------------------------------------------------------------------------
(* The workers of a wave.                                                  *)

\* A refresh that ends with this outcome, and with what it found and enqueued.
Ended(t, p, outcome) ==
  work' = [work EXCEPT ![t][p] = [NoWork EXCEPT !.phase = "done", !.outcome = outcome,
             !.found = work[t][p].found, !.enqueued = work[t][p].enqueued]]

Uncounted(t, some) == uncounted' = [uncounted EXCEPT ![t] = @ \/ some]

Lost(t, p) ==
  /\ ~Owns(t, p)
  /\ Ended(t, p, "ownership_lost")
  /\ Uncounted(t, work[t][p].enqueued > 0)
  /\ tally' = [tally EXCEPT ![t].lost = @ + 1]
  /\ UNCHANGED row

Draining(t) == run[t].limited \/ run[t].deferred \/ cooling

\* releaseCooldownSkipClaim
SkipForCooldown(t, p) ==
  /\ work[t][p].phase = "assigned" /\ Draining(t)
  /\ \/ /\ Owns(t, p)
        /\ row' = [row EXCEPT ![p] = Freed(@)]
        /\ Ended(t, p, "cooldown_skip")
        /\ UNCHANGED <<uncounted, tally>>
     \/ Lost(t, p)
  /\ UNCHANGED <<cooling, run>>

\* validateTrackedAccount: the account may have become another one.
Invalid(t, p) ==
  /\ work[t][p].phase = "assigned" /\ ~Draining(t)
  /\ work' = [work EXCEPT ![t][p].phase = "settling", ![t][p].result = "permanent"]
  /\ UNCHANGED <<row, cooling, run, uncounted, tally>>

\* validateTrackedAccount and discoverAndEnqueue. The discovery reads and
\* writes no state of this module, so its result is drawn when it starts. A
\* failure thrown between two enqueues reports neither; 429 and the request
\* budget stop it while it lists; a missing account fails at once.
Discover(t, p) ==
  /\ work[t][p].phase = "assigned" /\ ~Draining(t)
  /\ \E found \in 0..work[t][p].budget, result \in {"ok", "failed", "rateLimited", "deferred"} :
     \E enqueued \in 0..found :
       /\ result \in {"rateLimited", "deferred"} => found = 0
       /\ work' = [work EXCEPT ![t][p] =
            [@ EXCEPT !.phase = IF result = "rateLimited" THEN "publish" ELSE "settling",
                      !.result = result,
                      !.found = IF result = "ok" THEN found ELSE 0,
                      !.enqueued = IF result = "ok" THEN enqueued ELSE 0]]
       /\ Uncounted(t, result = "failed" /\ enqueued > 0)
  /\ UNCHANGED <<row, cooling, run, tally>>

\* withTimeout stops waiting; the discovery itself goes on.
Timeout(t, p) ==
  /\ work[t][p].phase = "assigned" /\ ~Draining(t)
  /\ work' = [work EXCEPT ![t][p].phase = "settling", ![t][p].result = "failed"]
  /\ Uncounted(t, TRUE)
  /\ UNCHANGED <<row, cooling, run, tally>>

\* extendCooldown of the shared store
PublishCooldown(t, p) ==
  /\ work[t][p].phase = "publish"
  /\ cooling' = TRUE
  /\ work' = [work EXCEPT ![t][p].phase = "settling"]
  /\ UNCHANGED <<row, run, uncounted, tally>>

FinalizeSuccess(t, p) ==
  /\ work[t][p].phase = "settling" /\ work[t][p].result = "ok"
  /\ \/ /\ Owns(t, p)
        /\ row' = [row EXCEPT ![p] =
             SettledSuccess(@, NextStreak(work[t][p].streak, work[t][p].enqueued))]
        /\ Ended(t, p, "success")
        /\ tally' = [tally EXCEPT ![t].succeeded = @ + 1]
        /\ UNCHANGED uncounted
     \/ Lost(t, p)
  /\ UNCHANGED <<cooling, run>>

FinalizeFailure(t, p) ==
  /\ work[t][p].phase = "settling" /\ work[t][p].result # "ok"
  /\ \/ /\ Owns(t, p)
        /\ row' = [row EXCEPT ![p] = SettledFailure(@, work[t][p].result = "permanent")]
        /\ Ended(t, p, "failure")
        /\ tally' = [tally EXCEPT ![t].failed = @ + 1]
        /\ run' = [run EXCEPT ![t].limited = @ \/ work[t][p].result = "rateLimited",
                              ![t].deferred = @ \/ work[t][p].result = "deferred"]
        /\ UNCHANGED uncounted
     \/ Lost(t, p) /\ UNCHANGED run
  /\ UNCHANGED cooling

Outcomes(t, kind) == {p \in run[t].wave : work[t][p].outcome = kind}

\* What the refreshes of these players found, and enqueued.
FoundBy(t, S) == SumFunctionOnSet([p \in Player |-> work[t][p].found], S)
EnqueuedBy(t, S) == SumFunctionOnSet([p \in Player |-> work[t][p].enqueued], S)

\* Mistake: a lost player is passed over like one skipped for the cooldown.
CountedLosingNone(t) ==
  LET c == run[t].count
      won == Outcomes(t, "success")
      bad == Outcomes(t, "failure")
  IN [c EXCEPT !.attempted = @ + Cardinality(won \cup bad),
               !.succeeded = @ + Cardinality(won),
               !.failed = @ + Cardinality(bad),
               !.discovered = @ + FoundBy(t, won \cup bad),
               !.enqueued = @ + EnqueuedBy(t, won \cup bad),
               !.rateStops = @ + (IF run[t].limited THEN 1 ELSE 0)]

\* Mistake: a lost player is counted, but not as attempted.
CountedUnattempted(t) ==
  [CountedLosingNone(t) EXCEPT !.lost = @ + Cardinality(Outcomes(t, "ownership_lost"))]

\* The counters after the wave: a lost player counts as attempted, but not
\* what its discovery found.
Counted(t) ==
  LET c == run[t].count
      won == Outcomes(t, "success")
      bad == Outcomes(t, "failure")
      gone == Outcomes(t, "ownership_lost")
  IN [c EXCEPT !.attempted = @ + Cardinality(won \cup bad \cup gone),
               !.succeeded = @ + Cardinality(won),
               !.failed = @ + Cardinality(bad),
               !.lost = @ + Cardinality(gone),
               !.discovered = @ + FoundBy(t, won \cup bad),
               !.enqueued = @ + EnqueuedBy(t, won \cup bad),
               !.rateStops = @ + (IF run[t].limited THEN 1 ELSE 0)]

FoldWave(t) ==
  /\ run[t].pc = "wave" /\ \A p \in run[t].wave : work[t][p].phase = "done"
  /\ run' = [run EXCEPT ![t].pc = "loop", ![t].wave = {}, ![t].count = Counted(t),
                        ![t].stop = run[t].limited \/ run[t].deferred]
  /\ work' = [work EXCEPT ![t] = [p \in Player |-> IF p \in run[t].wave THEN NoWork ELSE @[p]]]
  /\ UNCHANGED <<row, cooling, uncounted, tally>>

-----------------------------------------------------------------------------
(* The end of a run.                                                       *)

EnsureNoUnreleasedLeases(t) ==
  /\ run[t].pc = "ensure"
  /\ row' = Released(t)
  /\ Goto(t, "finalize")
  /\ UNCHANGED <<cooling, work, uncounted, tally>>

\* Mistake: lost ownership does not make a run partial.
TerminalOfFailures(c) ==
  IF c.failed > 0 \/ c.rateStops > 0 \/ c.exhausted THEN "PARTIAL" ELSE "COMPLETED"

\* resolveTerminalStatus
Terminal(c) ==
  IF c.failed > 0 \/ c.lost > 0 \/ c.rateStops > 0 \/ c.exhausted
  THEN "PARTIAL" ELSE "COMPLETED"

\* assertCounterEquality, then finalizeIfRunning
FinalizeRun(t) ==
  LET c == run[t].count IN
    /\ run[t].pc = "finalize" /\ run[t].status = "RUNNING"
    /\ c.succeeded + c.failed + c.lost = c.attempted /\ c.attempted <= c.claimed
    /\ run' = [run EXCEPT ![t].pc = "returned", ![t].status = Terminal(c)]
    /\ UNCHANGED <<row, cooling, work, uncounted, tally>>

\* Mistake: the leases are left to expire.
CatchWithoutRelease(t) ==
  /\ run[t].pc = "catch"
  /\ Goto(t, "catchFinalize")
  /\ UNCHANGED <<row, cooling, work, uncounted, tally>>

CatchRelease(t) ==
  /\ run[t].pc = "catch"
  /\ row' = Released(t)
  /\ Goto(t, "catchFinalize")
  /\ UNCHANGED <<cooling, work, uncounted, tally>>

CatchFinalize(t) ==
  /\ run[t].pc \in {"catchFinalize", "catchUnreleased"}
  /\ run' = [run EXCEPT ![t].status = IF run[t].count.claimed > 0 THEN "PARTIAL" ELSE "FAILED",
                        ![t].pc = IF @ = "catchFinalize" THEN "threw" ELSE "threwUnreleased"]
  /\ UNCHANGED <<row, cooling, work, uncounted, tally>>

-----------------------------------------------------------------------------
(* What goes wrong, and what others do.                                    *)

Event == events < MaxEvents /\ events' = events + 1
NoEvent == UNCHANGED events

\* A statement of a worker fails: Promise.all rejects, and the other workers
\* of the wave go on by themselves.
WorkerThrows(t, p) ==
  /\ Event
  /\ work[t][p].phase \in {"assigned", "publish", "settling"}
  /\ Ended(t, p, "threw")
  /\ run' = [run EXCEPT ![t].pc = IF @ = "wave" THEN "catch" ELSE @]
  /\ UNCHANGED <<row, cooling, uncounted, tally>>

\* A statement of the main loop fails.
RunThrows(t) ==
  /\ Event
  /\ run[t].pc \in {"loop", "ensure", "finalize"}
  /\ Goto(t, "catch")
  /\ UNCHANGED <<row, cooling, work, uncounted, tally>>

\* The best-effort release fails too, or the finalisation does.
CatchFails(t) ==
  /\ Event
  /\ \/ run[t].pc = "catch" /\ Goto(t, "catchUnreleased")
     \/ run[t].pc \in {"catchFinalize", "catchUnreleased"} /\ Goto(t, "threwUnreleased")
  /\ UNCHANGED <<row, cooling, work, uncounted, tally>>

Over == {"none", "returned", "threw", "threwUnreleased", "dead"}

\* The process of the run dies, with everything it has in memory.
Crash(t) ==
  /\ Event
  /\ run[t].pc \notin Over
  /\ run' = [run EXCEPT ![t] = [NoRun EXCEPT !.pc = "dead", !.status = run[t].status]]
  /\ work' = [work EXCEPT ![t] = [p \in Player |-> NoWork]]
  /\ UNCHANGED <<row, cooling, uncounted, tally>>

LeaseExpires(p) ==
  /\ Event
  /\ row[p].owner # None /\ ~row[p].expired
  /\ row' = [row EXCEPT ![p].expired = TRUE]
  /\ UNCHANGED <<cooling, run, work, uncounted, tally>>

\* setPlayerStatus, or a root enrolled again, while the player is claimed: what
\* it does to other players is BecomesDue. SUSPENDED by hand acts as PAUSED.
SetStatus(p) ==
  /\ Event /\ row[p].owner # None
  /\ \E s \in {"ACTIVE", "PAUSED"}, force, reset \in BOOLEAN :
       LET r == [row[p] EXCEPT !.status = s, !.due = @ \/ s = "ACTIVE",
                               !.failures = IF reset THEN 0 ELSE @]
       IN row' = [row EXCEPT ![p] = IF force THEN Freed(r) ELSE r]
  /\ row' # row
  /\ UNCHANGED <<cooling, run, work, uncounted, tally>>

BecomesDue(p) ==
  /\ Event
  /\ ~row[p].due
  /\ row' = [row EXCEPT ![p].due = TRUE]
  /\ UNCHANGED <<cooling, run, work, uncounted, tally>>

CooldownEnds ==
  /\ cooling
  /\ cooling' = FALSE
  /\ UNCHANGED <<row, run, work, uncounted, tally>> /\ NoEvent

-----------------------------------------------------------------------------

RunStep(t) ==
  /\ NoEvent
  /\ \/ StopClaims(t) \/ BudgetSpent(t) \/ CooldownPreflight(t) \/ ClaimWave(t)
     \/ FoldWave(t) \/ EnsureNoUnreleasedLeases(t) \/ FinalizeRun(t)
     \/ CatchRelease(t) \/ CatchFinalize(t)

PlayerStep(t, p) ==
  /\ NoEvent
  /\ \/ SkipForCooldown(t, p) \/ Invalid(t, p) \/ Discover(t, p) \/ Timeout(t, p)
     \/ PublishCooldown(t, p) \/ FinalizeSuccess(t, p) \/ FinalizeFailure(t, p)

Trouble ==
  \/ \E t \in Token : RunThrows(t) \/ CatchFails(t) \/ \E p \in Player : WorkerThrows(t, p)
  \/ \E p \in Player : LeaseExpires(p) \/ SetStatus(p) \/ BecomesDue(p)
  \/ CooldownEnds
=============================================================================
