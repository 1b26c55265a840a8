-------------------------- MODULE CollectorProofs --------------------------
(***************************************************************************)
(* Theorems about CollectorScheduler and the runs of PopulationCollector,  *)
(* for any number of players, of overlapping runs and of ticks.            *)
(***************************************************************************)
EXTENDS CollectorScheduler, SumLemmas

-----------------------------------------------------------------------------
(* Types.                                                                  *)

(* A player that nobody refreshes. *)
LEMMA NoWorkTyped == NoWork \in WorkType /\ NoWork.phase = "none" /\ NoWork.found = 0
                     /\ NoWork.enqueued = 0 /\ NoWork.outcome = "none"
BY ConstantsAssumption DEF NoWork, WorkType, Phase

(* The counters of a run that has done nothing. *)
LEMMA ZeroTyped == Zero \in CountType
BY DEF Zero, CountType

(* A run before it starts. *)
LEMMA NoRunTyped == NoRun \in RunType /\ NoRun.pc = "none" /\ NoRun.wave = {} /\ NoRun.count = Zero
BY ZeroTyped DEF NoRun, RunType, RunPc, Over

(* A row that is released loses its owner only. *)
LEMMA FreedTyped ==
  ASSUME NEW r \in RowType
  PROVE  Freed(r) \in RowType /\ Freed(r).owner = None /\ Freed(r).streak = r.streak
BY DEF Freed, RowType

(* forceReleaseOwnedLeases frees the rows of the run and no other. *)
LEMMA ReleasedTyped ==
  ASSUME TypeOK, NEW t \in Token
  PROVE  /\ Released(t) \in [Player -> RowType]
         /\ \A p \in Player : /\ Released(t)[p].owner = IF Owns(t, p) THEN None ELSE row[p].owner
                              /\ Released(t)[p].streak = row[p].streak
BY FreedTyped DEF TypeOK, Released

(* The steps a run takes by itself, but for its waves. *)
OwnStep(t) ==
  \/ StopClaims(t) \/ BudgetSpent(t) \/ CooldownPreflight(t)
  \/ EnsureNoUnreleasedLeases(t) \/ FinalizeRun(t) \/ CatchRelease(t) \/ CatchFinalize(t)
  \/ StartRun(t) \/ RunThrows(t) \/ CatchFails(t)

(* How a run gets on by itself. *)
Turn(t) ==
  LET from == run[t].pc
      to == run'[t].pc
  IN
  \/ from \in {"loop", "ensure", "finalize"} /\ to = "catch" /\ row' = row
  \/ from = "none" /\ to = "loop" /\ row' = row
  \/ from = "loop" /\ to = "ensure" /\ row' = row
  \/ from = "ensure" /\ to = "finalize" /\ row' = Released(t)
  \/ from = "catch" /\ to = "catchFinalize" /\ row' = Released(t)
  \/ from = "finalize" /\ to = "returned" /\ row' = row /\ run'[t].status = Terminal(run[t].count)
  \/ from = "catchFinalize" /\ to = "threw" /\ row' = row
  \/ from \in {"catchFinalize", "catchUnreleased"} /\ to = "threwUnreleased" /\ row' = row
  \/ from = "catch" /\ to = "catchUnreleased" /\ row' = row

(* A step of the run itself takes it along, and keeps what it has counted. *)
LEMMA RunTurns ==
  ASSUME TypeOK, NEW t \in Token, OwnStep(t)
  PROVE  /\ run' \in [Token -> RunType]
         /\ \A u \in Token \ {t} : run'[u] = run[u]
         /\ UNCHANGED <<cooling, work, uncounted, tally>> /\ Turn(t)
         /\ run'[t].wave = run[t].wave
         /\ \E b \in BOOLEAN : run'[t].count = [run[t].count EXCEPT !.exhausted = b]
<1>1. /\ run \in [Token -> RunType] /\ run[t] \in RunType /\ run[t].count \in CountType
  BY DEF TypeOK, RunType
<1> DEFINE c == run[t].count
<1>2. c = [c EXCEPT !.exhausted = c.exhausted] /\ c.exhausted \in BOOLEAN
  BY <1>1 DEF CountType
<1>3. ASSUME NEW y \in RunType, run' = [run EXCEPT ![t] = y]
      PROVE  /\ run' \in [Token -> RunType] /\ run'[t] = y
             /\ \A u \in Token \ {t} : run'[u] = run[u]
  BY <1>1, <1>3
<1>4. ASSUME NEW pc \in RunPc
      PROVE  LET y == [run[t] EXCEPT !.pc = pc] IN
             y \in RunType /\ y.pc = pc /\ y.wave = run[t].wave /\ y.count = c
  BY <1>1 DEF RunType
<1>5. ASSUME NEW pc \in RunPc, Goto(t, pc)
      PROVE  /\ run' \in [Token -> RunType]
             /\ \A u \in Token \ {t} : run'[u] = run[u]
             /\ run'[t].pc = pc /\ run'[t].wave = run[t].wave /\ run'[t].count = c
  <2> DEFINE y == [run[t] EXCEPT !.pc = pc]
  <2>1. y \in RunType /\ y.pc = pc /\ y.wave = run[t].wave /\ y.count = c
    BY <1>4
  <2>2. run' = [run EXCEPT ![t] = y]
    BY <1>5 DEF Goto
  <2> HIDE DEF y
  <2> QED BY <1>3, <2>1, <2>2
<1> HIDE DEF c
<1>6. CASE StopClaims(t) \/ CooldownPreflight(t) \/ EnsureNoUnreleasedLeases(t) \/ CatchRelease(t)
           \/ RunThrows(t)
  <2>1. "ensure" \in RunPc /\ "finalize" \in RunPc /\ "catch" \in RunPc /\ "catchFinalize" \in RunPc
    BY DEF RunPc
  <2> QED BY <1>2, <1>5, <1>6, <2>1 DEF StopClaims, CooldownPreflight, MayClaim,
             EnsureNoUnreleasedLeases, CatchRelease, RunThrows, Turn, c
<1>7. CASE CatchFails(t)
  <2>1. "catchUnreleased" \in RunPc /\ "threwUnreleased" \in RunPc
    BY DEF RunPc, Over
  <2> QED BY <1>2, <1>5, <1>7, <2>1 DEF CatchFails, Turn, c
<1>8. CASE BudgetSpent(t)
  <2> DEFINE b == c.exhausted \/ \E p \in Player : Eligible(p)
             y == [run[t] EXCEPT !.pc = "ensure", !.count = [c EXCEPT !.exhausted = b]]
  <2>1. b \in BOOLEAN
    BY <1>2
  <2>2. run' = [run EXCEPT ![t] = y] /\ run[t].pc = "loop" /\ row' = row
        /\ UNCHANGED <<cooling, work, uncounted, tally>>
    BY <1>1, <1>8 DEF BudgetSpent, c, RunType, CountType
  <2> HIDE DEF b
  <2>3. y \in RunType /\ y.pc = "ensure" /\ y.wave = run[t].wave
        /\ y.count = [c EXCEPT !.exhausted = b]
    BY <1>1, <2>1 DEF RunType, RunPc, CountType, c
  <2> HIDE DEF y
  <2> QED BY <1>3, <2>1, <2>2, <2>3 DEF Turn, c
<1>9. CASE FinalizeRun(t)
  <2> DEFINE y == [run[t] EXCEPT !.pc = "returned", !.status = Terminal(c)]
  <2>1. run' = [run EXCEPT ![t] = y] /\ run[t].pc = "finalize" /\ row' = row
        /\ UNCHANGED <<cooling, work, uncounted, tally>>
    BY <1>9 DEF FinalizeRun, c
  <2>2. Terminal(c) \in {"PARTIAL", "COMPLETED"}
    BY DEF Terminal
  <2>3. y \in RunType /\ y.pc = "returned" /\ y.wave = run[t].wave /\ y.count = c
        /\ y.status = Terminal(c)
    BY <1>1, <2>2 DEF RunType, RunPc, Over, c
  <2> HIDE DEF y
  <2> QED BY <1>2, <1>3, <2>1, <2>3 DEF Turn, c
<1>10. CASE CatchFinalize(t)
  <2> DEFINE s == IF run[t].count.claimed > 0 THEN "PARTIAL" ELSE "FAILED"
             pc == IF run[t].pc = "catchFinalize" THEN "threw" ELSE "threwUnreleased"
             y == [run[t] EXCEPT !.status = s, !.pc = pc]
  <2>1. run' = [run EXCEPT ![t] = y] /\ row' = row /\ UNCHANGED <<cooling, work, uncounted, tally>>
    BY <1>1, <1>10 DEF CatchFinalize, RunType
  <2>2. s \in {"PARTIAL", "FAILED"} /\ pc \in RunPc
    BY DEF RunPc, Over
  <2>3. \/ run[t].pc = "catchFinalize" /\ pc = "threw"
        \/ run[t].pc = "catchUnreleased" /\ pc = "threwUnreleased"
    BY <1>10 DEF CatchFinalize
  <2> HIDE DEF s, pc
  <2>4. y \in RunType /\ y.pc = pc /\ y.wave = run[t].wave /\ y.count = c
    BY <1>1, <2>2 DEF RunType, c
  <2> HIDE DEF y
  <2> QED BY <1>2, <1>3, <2>1, <2>3, <2>4 DEF Turn, c
<1>11. CASE StartRun(t)
  <2> DEFINE y == [run[t] EXCEPT !.pc = "loop", !.status = "RUNNING"]
  <2>1. run' = [run EXCEPT ![t] = y] /\ run[t].pc = "none" /\ row' = row
        /\ UNCHANGED <<cooling, work, uncounted, tally>>
    BY <1>1, <1>11 DEF StartRun, RunType
  <2>2. y \in RunType /\ y.pc = "loop" /\ y.wave = run[t].wave /\ y.count = c
    BY <1>1 DEF RunType, RunPc, c
  <2> HIDE DEF y
  <2> QED BY <1>2, <1>3, <2>1, <2>2 DEF Turn, c
<1> QED BY <1>6, <1>7, <1>8, <1>9, <1>10, <1>11 DEF OwnStep

Active == {"assigned", "publish", "settling"}

(* How the refresh of the player p by the run t gets on. *)
PlayerMoves(t, p) ==
  SkipForCooldown(t, p) \/ Invalid(t, p) \/ Discover(t, p) \/ Timeout(t, p)
    \/ PublishCooldown(t, p) \/ FinalizeSuccess(t, p) \/ FinalizeFailure(t, p) \/ WorkerThrows(t, p)

(* The streak stays within its maximum. *)
LEMMA StreakTyped ==
  ASSUME NEW n \in 0..MaxStreak, NEW k \in Nat
  PROVE  NextStreak(n, k) \in 0..MaxStreak
BY ConstantsAssumption DEF NextStreak, Least

(* The record of one refresh, written alone. *)
LEMMA WorkWritten ==
  ASSUME TypeOK, NEW t \in Token, NEW p \in Player, NEW y \in WorkType,
         work' = [work EXCEPT ![t][p] = y]
  PROVE  /\ work' \in [Token -> [Player -> WorkType]]
         /\ \A u \in Token, q \in Player : u # t \/ q # p => work'[u][q] = work[u][q]
         /\ work'[t][p] = y
BY DEF TypeOK

(* A refresh that is over keeps what it found. *)
LEMMA EndedWrites ==
  ASSUME TypeOK, NEW t \in Token, NEW p \in Player,
         NEW o \in {"success", "failure", "ownership_lost", "cooldown_skip", "threw"}, Ended(t, p, o)
  PROVE  /\ work' \in [Token -> [Player -> WorkType]]
         /\ \A u \in Token, q \in Player : u # t \/ q # p => work'[u][q] = work[u][q]
         /\ work'[t][p].phase = "done" /\ work'[t][p].outcome = o
         /\ work'[t][p].found = work[t][p].found /\ work'[t][p].enqueued = work[t][p].enqueued
<1> DEFINE y == [NoWork EXCEPT !.phase = "done", !.outcome = o, !.found = work[t][p].found,
                               !.enqueued = work[t][p].enqueued]
<1>1. work[t][p] \in WorkType
  BY DEF TypeOK
<1>2. /\ y \in WorkType /\ y.phase = "done" /\ y.outcome = o
      /\ y.found = work[t][p].found /\ y.enqueued = work[t][p].enqueued
  BY <1>1, NoWorkTyped DEF WorkType, Phase
<1>3. work' = [work EXCEPT ![t][p] = y]
  BY DEF Ended
<1> HIDE DEF y
<1> QED BY <1>2, <1>3, WorkWritten

(* A refresh that goes on. *)
LEMMA GoesOnWrites ==
  ASSUME TypeOK, NEW t \in Token, NEW p \in Player,
         Invalid(t, p) \/ Discover(t, p) \/ Timeout(t, p) \/ PublishCooldown(t, p)
  PROVE  \E y \in WorkType :
           /\ work' = [work EXCEPT ![t][p] = y]
           /\ \/ work[t][p].phase = "assigned" /\ y.phase \in {"publish", "settling"}
              \/ work[t][p].phase = "publish" /\ y.phase = "settling"
           /\ y.streak = work[t][p].streak /\ y.outcome = work[t][p].outcome
           /\ \/ y.found = work[t][p].found /\ y.enqueued = work[t][p].enqueued
              \/ /\ work[t][p].phase = "assigned" /\ y.found <= work[t][p].budget
                 /\ y.enqueued <= y.found
<1> DEFINE w == work[t][p]
<1>1. work \in [Token -> [Player -> WorkType]] /\ w \in WorkType
  BY DEF TypeOK
<1>2. CASE Invalid(t, p)
  <2> DEFINE y == [w EXCEPT !.phase = "settling", !.result = "permanent"]
  <2>1. work' = [work EXCEPT ![t][p] = y]
    BY <1>1, <1>2 DEF Invalid
  <2>2. y \in WorkType /\ y.phase = "settling" /\ y.streak = w.streak /\ y.found = w.found
        /\ y.enqueued = w.enqueued /\ y.outcome = w.outcome
    BY <1>1 DEF WorkType, Phase
  <2> HIDE DEF y
  <2> QED BY <1>2, <2>1, <2>2 DEF Invalid
<1>3. CASE Timeout(t, p)
  <2> DEFINE y == [w EXCEPT !.phase = "settling", !.result = "failed"]
  <2>1. work' = [work EXCEPT ![t][p] = y]
    BY <1>1, <1>3 DEF Timeout
  <2>2. y \in WorkType /\ y.phase = "settling" /\ y.streak = w.streak /\ y.found = w.found
        /\ y.enqueued = w.enqueued /\ y.outcome = w.outcome
    BY <1>1 DEF WorkType, Phase
  <2> HIDE DEF y
  <2> QED BY <1>3, <2>1, <2>2 DEF Timeout
<1>4. CASE PublishCooldown(t, p)
  <2> DEFINE y == [w EXCEPT !.phase = "settling"]
  <2>1. work' = [work EXCEPT ![t][p] = y]
    BY <1>1, <1>4 DEF PublishCooldown
  <2>2. y \in WorkType /\ y.phase = "settling" /\ y.streak = w.streak /\ y.found = w.found
        /\ y.enqueued = w.enqueued /\ y.outcome = w.outcome
    BY <1>1 DEF WorkType, Phase
  <2> HIDE DEF y
  <2> QED BY <1>4, <2>1, <2>2 DEF PublishCooldown
<1>5. CASE Discover(t, p)
  <2>1. PICK found \in 0..w.budget, result \in {"ok", "failed", "rateLimited", "deferred"} :
        \E enqueued \in 0..found :
          work' = [work EXCEPT ![t][p] =
            [w EXCEPT !.phase = IF result = "rateLimited" THEN "publish" ELSE "settling",
                      !.result = result,
                      !.found = IF result = "ok" THEN found ELSE 0,
                      !.enqueued = IF result = "ok" THEN enqueued ELSE 0]]
    BY <1>1, <1>5 DEF Discover
  <2>2. PICK enqueued \in 0..found :
          work' = [work EXCEPT ![t][p] =
            [w EXCEPT !.phase = IF result = "rateLimited" THEN "publish" ELSE "settling",
                      !.result = result,
                      !.found = IF result = "ok" THEN found ELSE 0,
                      !.enqueued = IF result = "ok" THEN enqueued ELSE 0]]
    BY <2>1
  <2> DEFINE y == [w EXCEPT !.phase = IF result = "rateLimited" THEN "publish" ELSE "settling",
                            !.result = result,
                            !.found = IF result = "ok" THEN found ELSE 0,
                            !.enqueued = IF result = "ok" THEN enqueued ELSE 0]
  <2>3. work' = [work EXCEPT ![t][p] = y]
    BY <2>2
  <2>4. w.budget \in 0..MatchesPerPlayer /\ MatchesPerPlayer \in Nat
    BY <1>1, ConstantsAssumption DEF WorkType
  <2>5. /\ y.phase \in {"publish", "settling"} /\ y.streak = w.streak /\ y.outcome = w.outcome
        /\ y.result = result /\ y.budget = w.budget
        /\ y.found \in {found, 0} /\ y.enqueued \in 0..y.found /\ DOMAIN y = DOMAIN w
    BY <1>1, <2>4 DEF WorkType
  <2>6. y.found <= w.budget /\ y.enqueued <= y.found /\ y.found \in 0..MatchesPerPlayer
        /\ y.enqueued \in 0..MatchesPerPlayer
    BY <2>4, <2>5
  <2>7. y \in WorkType
    BY <1>1, <2>4, <2>5, <2>6 DEF WorkType, Phase
  <2> HIDE DEF y
  <2> QED BY <1>5, <2>3, <2>5, <2>6, <2>7 DEF Discover
<1> QED BY <1>2, <1>3, <1>4, <1>5

(* A refresh that comes to an end. *)
LEMMA EndsWith ==
  ASSUME NEW t \in Token, NEW p \in Player,
         \/ SkipForCooldown(t, p) \/ FinalizeSuccess(t, p) \/ FinalizeFailure(t, p)
         \/ WorkerThrows(t, p)
  PROVE  /\ work[t][p].phase \in Active
         /\ \/ Ended(t, p, "success") /\ tally' = [tally EXCEPT ![t].succeeded = @ + 1]
                 /\ UNCHANGED uncounted
            \/ Ended(t, p, "failure") /\ tally' = [tally EXCEPT ![t].failed = @ + 1]
                 /\ UNCHANGED uncounted
            \/ Lost(t, p)
            \/ (Ended(t, p, "cooldown_skip") \/ Ended(t, p, "threw")) /\ UNCHANGED <<tally, uncounted>>
BY DEF SkipForCooldown, FinalizeSuccess, FinalizeFailure, WorkerThrows, Active

(* Whatever a refresh does, it does to its own record, and what it may still
   count only shrinks.                                                     *)
LEMMA WorkMoves ==
  ASSUME TypeOK, NEW t \in Token, NEW p \in Player, PlayerMoves(t, p)
  PROVE  /\ work' \in [Token -> [Player -> WorkType]]
         /\ \A u \in Token, q \in Player : u # t \/ q # p => work'[u][q] = work[u][q]
         /\ work[t][p].phase \in Active
         /\ \/ /\ \/ work[t][p].phase = "assigned" /\ work'[t][p].phase \in {"publish", "settling"}
                  \/ work[t][p].phase = "publish" /\ work'[t][p].phase = "settling"
               /\ work'[t][p].streak = work[t][p].streak
               /\ work'[t][p].outcome = work[t][p].outcome
            \/ work'[t][p].phase = "done"
         /\ \/ /\ work'[t][p].found = work[t][p].found
               /\ work'[t][p].enqueued = work[t][p].enqueued
            \/ /\ work[t][p].phase = "assigned" /\ work'[t][p].found <= work[t][p].budget
               /\ work'[t][p].enqueued <= work'[t][p].found
<1>1. CASE Invalid(t, p) \/ Discover(t, p) \/ Timeout(t, p) \/ PublishCooldown(t, p)
  BY <1>1, GoesOnWrites, WorkWritten DEF Active
<1>2. CASE \/ SkipForCooldown(t, p) \/ FinalizeSuccess(t, p) \/ FinalizeFailure(t, p)
           \/ WorkerThrows(t, p)
  BY <1>2, EndsWith, EndedWrites DEF Lost
<1> QED BY <1>1, <1>2 DEF PlayerMoves

(* A settlement frees the row. *)
LEMMA SettledTyped ==
  ASSUME NEW r \in RowType, NEW n \in 0..MaxStreak, NEW b \in BOOLEAN
  PROVE  /\ SettledSuccess(r, n) \in RowType /\ SettledSuccess(r, n).owner = None
         /\ SettledFailure(r, b) \in RowType /\ SettledFailure(r, b).owner = None
<1> DEFINE f == Freed(r)
<1>1. f \in RowType /\ f.owner = None
  BY FreedTyped
<1> HIDE DEF f
<1>2. SettledSuccess(r, n) \in RowType /\ SettledSuccess(r, n).owner = None
  <2> DEFINE y == [f EXCEPT !.due = FALSE, !.streak = n,
                            !.failures = IF r.status = "ACTIVE" THEN 0 ELSE @]
  <2>1. y \in RowType /\ y.owner = None
    BY <1>1 DEF RowType
  <2>2. SettledSuccess(r, n) = y
    BY DEF SettledSuccess, f
  <2> HIDE DEF y
  <2> QED BY <2>1, <2>2
<1>3. SettledFailure(r, b) \in RowType /\ SettledFailure(r, b).owner = None
  <2> DEFINE s == IF b THEN "SUSPENDED" ELSE f.status
             y == [f EXCEPT !.due = FALSE, !.failures = f.failures + 1, !.status = s]
  <2>1. y \in RowType /\ y.owner = None
    <3>1. s \in {"ACTIVE", "PAUSED", "SUSPENDED"} /\ f.failures + 1 \in Nat
      BY <1>1 DEF RowType
    <3> HIDE DEF s
    <3> QED BY <1>1, <3>1 DEF RowType
  <2>2. SettledFailure(r, b) = y
    BY DEF SettledFailure, f
  <2> HIDE DEF y
  <2> QED BY <2>1, <2>2
<1> QED BY <1>2, <1>3

(* The row of the player is written by the owner of the lease, who frees it. *)
LEMMA RowMoves ==
  ASSUME TypeOK, NEW t \in Token, NEW p \in Player, PlayerMoves(t, p)
  PROVE  /\ row' \in [Player -> RowType] /\ cooling' \in BOOLEAN
         /\ \A q \in Player \ {p} : row'[q] = row[q]
         /\ \/ row' = row
            \/ Owns(t, p) /\ row'[p].owner = None /\ work'[t][p].phase = "done"
<1>1. /\ row \in [Player -> RowType] /\ row[p] \in RowType
      /\ work[t][p] \in WorkType /\ cooling \in BOOLEAN
  BY DEF TypeOK
<1>2. ASSUME NEW r \in RowType, r.owner = None, Owns(t, p), row' = [row EXCEPT ![p] = r],
             UNCHANGED cooling, work'[t][p].phase = "done"
      PROVE  /\ row' \in [Player -> RowType] /\ cooling' \in BOOLEAN
             /\ \A q \in Player \ {p} : row'[q] = row[q]
             /\ Owns(t, p) /\ row'[p].owner = None /\ work'[t][p].phase = "done"
  BY <1>1, <1>2
<1>3. CASE SkipForCooldown(t, p)
  <2>1. CASE Lost(t, p)
    BY <1>1, <1>3, <2>1 DEF SkipForCooldown, Lost
  <2>2. CASE ~Lost(t, p)
    BY <1>1, <1>2, <1>3, <2>2, FreedTyped, EndedWrites DEF SkipForCooldown
  <2> QED BY <2>1, <2>2
<1>4. CASE FinalizeSuccess(t, p)
  <2> DEFINE n == NextStreak(work[t][p].streak, work[t][p].enqueued)
  <2>1. n \in 0..MaxStreak
    <3>1. work[t][p].streak \in 0..MaxStreak /\ work[t][p].enqueued \in Nat
      BY <1>1, ConstantsAssumption DEF WorkType
    <3> QED BY <3>1, StreakTyped
  <2> HIDE DEF n
  <2>2. SettledSuccess(row[p], n) \in RowType /\ SettledSuccess(row[p], n).owner = None
    BY <1>1, <2>1, SettledTyped
  <2>3. CASE Lost(t, p)
    BY <1>1, <1>4, <2>3 DEF FinalizeSuccess, Lost
  <2>4. CASE ~Lost(t, p)
    <3>1. Owns(t, p) /\ row' = [row EXCEPT ![p] = SettledSuccess(row[p], n)]
          /\ Ended(t, p, "success") /\ UNCHANGED cooling
      BY <1>4, <2>4 DEF FinalizeSuccess, n
    <3> QED BY <1>2, <2>2, <3>1, EndedWrites
  <2> QED BY <2>3, <2>4
<1>5. CASE FinalizeFailure(t, p)
  <2> DEFINE b == work[t][p].result = "permanent"
  <2>1. SettledFailure(row[p], b) \in RowType /\ SettledFailure(row[p], b).owner = None
    <3>1. b \in BOOLEAN
      OBVIOUS
    <3> HIDE DEF b
    <3> QED BY <1>1, <3>1, SettledTyped, ConstantsAssumption
  <2>2. CASE Lost(t, p)
    BY <1>1, <1>5, <2>2 DEF FinalizeFailure, Lost
  <2>3. CASE ~Lost(t, p)
    <3>1. Owns(t, p) /\ row' = [row EXCEPT ![p] = SettledFailure(row[p], b)]
          /\ Ended(t, p, "failure") /\ UNCHANGED cooling
      BY <1>5, <2>3 DEF FinalizeFailure
    <3> QED BY <1>2, <2>1, <3>1, EndedWrites
  <2> QED BY <2>2, <2>3
<1>6. CASE Invalid(t, p) \/ Timeout(t, p) \/ PublishCooldown(t, p) \/ Discover(t, p)
           \/ WorkerThrows(t, p)
  BY <1>1, <1>6 DEF Invalid, Timeout, PublishCooldown, Discover, WorkerThrows
<1> QED BY <1>3, <1>4, <1>5, <1>6 DEF PlayerMoves

(* The row of the run is not written before the wave is over. *)
LEMMA RunMoves ==
  ASSUME TypeOK, NEW t \in Token, NEW p \in Player, PlayerMoves(t, p)
  PROVE  /\ run' \in [Token -> RunType]
         /\ \A u \in Token \ {t} : run'[u] = run[u]
         /\ run'[t].count = run[t].count /\ run'[t].wave = run[t].wave
         /\ run'[t].status = run[t].status
         /\ (run'[t].pc = run[t].pc \/ (run[t].pc = "wave" /\ run'[t].pc = "catch"))
<1>1. run \in [Token -> RunType] /\ run[t] \in RunType
  BY DEF TypeOK
<1>2. CASE run' = run
  BY <1>1, <1>2
<1>3. CASE FinalizeFailure(t, p) /\ run' # run
  <2> DEFINE l == run[t].limited \/ work[t][p].result = "rateLimited"
             d == run[t].deferred \/ work[t][p].result = "deferred"
             y == [run[t] EXCEPT !.limited = l, !.deferred = d]
  <2>1. run' = [run EXCEPT ![t] = y]
    BY <1>1, <1>3 DEF FinalizeFailure, RunType
  <2>2. l \in BOOLEAN /\ d \in BOOLEAN
    BY <1>1 DEF RunType
  <2> HIDE DEF l, d
  <2>3. /\ y \in RunType /\ y.count = run[t].count /\ y.wave = run[t].wave
        /\ y.status = run[t].status /\ y.pc = run[t].pc
    BY <1>1, <2>2 DEF RunType
  <2> HIDE DEF y
  <2> QED BY <1>1, <2>1, <2>3
<1>4. CASE WorkerThrows(t, p)
  BY <1>1, <1>4 DEF WorkerThrows, RunType, RunPc
<1> QED BY <1>2, <1>3, <1>4 DEF PlayerMoves, SkipForCooldown, Invalid, Timeout, PublishCooldown,
          Discover, FinalizeSuccess

(* What a refresh settles is counted as that. *)
LEMMA TallyMoves ==
  ASSUME TypeOK, NEW t \in Token, NEW p \in Player, PlayerMoves(t, p)
  PROVE  LET One(o) == IF work'[t][p].phase = "done" /\ work'[t][p].outcome = o THEN 1 ELSE 0 IN
         /\ tally' \in [Token -> [succeeded : Nat, failed : Nat, lost : Nat]]
         /\ uncounted' \in [Token -> BOOLEAN]
         /\ \A u \in Token \ {t} : tally'[u] = tally[u]
         /\ tally'[t].succeeded = tally[t].succeeded + One("success")
         /\ tally'[t].failed = tally[t].failed + One("failure")
         /\ tally'[t].lost = tally[t].lost + One("ownership_lost")
<1>1. /\ tally \in [Token -> [succeeded : Nat, failed : Nat, lost : Nat]]
      /\ uncounted \in [Token -> BOOLEAN]
  BY DEF TypeOK
<1>2. CASE Invalid(t, p) \/ Discover(t, p) \/ Timeout(t, p) \/ PublishCooldown(t, p)
  <2>1. UNCHANGED tally /\ uncounted' \in [Token -> BOOLEAN]
    BY <1>1, <1>2 DEF Invalid, Discover, Timeout, PublishCooldown, Uncounted
  <2>2. work'[t][p].phase # "done"
    BY <1>2, GoesOnWrites, WorkWritten DEF Active
  <2> QED BY <1>1, <2>1, <2>2
<1>3. CASE \/ SkipForCooldown(t, p) \/ FinalizeSuccess(t, p) \/ FinalizeFailure(t, p)
           \/ WorkerThrows(t, p)
  <2>1. CASE Ended(t, p, "success") /\ tally' = [tally EXCEPT ![t].succeeded = @ + 1]
             /\ UNCHANGED uncounted
    BY <1>1, <2>1, EndedWrites
  <2>2. CASE Ended(t, p, "failure") /\ tally' = [tally EXCEPT ![t].failed = @ + 1]
             /\ UNCHANGED uncounted
    BY <1>1, <2>2, EndedWrites
  <2>3. CASE Lost(t, p)
    <3>1. work'[t][p].phase = "done" /\ work'[t][p].outcome = "ownership_lost"
      BY <2>3, EndedWrites DEF Lost
    <3>2. tally' = [tally EXCEPT ![t].lost = @ + 1]
      BY <2>3 DEF Lost
    <3>3. uncounted' \in [Token -> BOOLEAN]
      <4> DEFINE b == uncounted[t] \/ work[t][p].enqueued > 0
      <4>1. b \in BOOLEAN /\ uncounted' = [uncounted EXCEPT ![t] = b]
        BY <1>1, <2>3 DEF Lost, Uncounted
      <4> HIDE DEF b
      <4> QED BY <1>1, <4>1
    <3>4. /\ tally' \in [Token -> [succeeded : Nat, failed : Nat, lost : Nat]]
          /\ \A u \in Token \ {t} : tally'[u] = tally[u]
          /\ tally'[t].succeeded = tally[t].succeeded /\ tally'[t].failed = tally[t].failed
          /\ tally'[t].lost = tally[t].lost + 1
      BY <1>1, <3>2
    <3> QED BY <1>1, <3>1, <3>3, <3>4
  <2>4. ASSUME NEW o \in {"cooldown_skip", "threw"}, Ended(t, p, o), UNCHANGED <<tally, uncounted>>
        PROVE  /\ work'[t][p].outcome \notin {"success", "failure", "ownership_lost"}
               /\ tally' = tally /\ uncounted' = uncounted
    BY <2>4, EndedWrites
  <2>5. CASE (Ended(t, p, "cooldown_skip") \/ Ended(t, p, "threw")) /\ UNCHANGED <<tally, uncounted>>
    BY <1>1, <2>4, <2>5
  <2> QED BY <1>3, <2>1, <2>2, <2>3, <2>5, EndsWith
<1> QED BY <1>2, <1>3 DEF PlayerMoves

(* The least of two numbers is at most each. *)
LEMMA LeastBounds ==
  ASSUME NEW a \in Int, NEW b \in Int
  PROVE  Least(a, b) \in Int /\ Least(a, b) <= a /\ Least(a, b) <= b
BY DEF Least

(* What a wave that is claimed writes: the players S, each with its share. *)
WaveOf(t, S, b) ==
  /\ \A p \in S : Eligible(p)
  /\ Cardinality(S) <= RemainingBatch(t) /\ SumFunctionOnSet(b, S) <= UsefulBudget(t)
  /\ b \in [S -> 0..MatchesPerPlayer]
  /\ row' \in [Player -> RowType]
  /\ \A p \in S : row'[p] = [row[p] EXCEPT !.owner = t, !.expired = FALSE]
  /\ \A p \in Player \ S : row'[p] = row[p]
  /\ work' \in [Token -> [Player -> WorkType]]
  /\ \A u \in Token \ {t} : work'[u] = work[u]
  /\ \A p \in S : work'[t][p] = [NoWork EXCEPT !.phase = "assigned", !.budget = b[p],
                                              !.streak = row[p].streak]
  /\ \A p \in Player \ S : work'[t][p] = work[t][p]
  /\ run' \in [Token -> RunType]
  /\ \A u \in Token \ {t} : run'[u] = run[u]
  /\ run'[t].wave = S /\ run'[t].pc = (IF S = {} THEN "ensure" ELSE "wave")
  /\ run'[t].count = [run[t].count EXCEPT !.claimed = run[t].count.claimed + Cardinality(S)]
  /\ run'[t].status = run[t].status

(* ClaimWave is the claim of some players, each with a share. *)
LEMMA WaveIsClaimed ==
  ASSUME TypeOK, NEW t \in Token, ClaimWave(t)
  PROVE  \E S \in SUBSET Player : \E b \in [S -> 0..MatchesPerPlayer] : WaveOf(t, S, b)
<1> DEFINE rowOf(S) == [p \in Player |->
             IF p \in S THEN [row[p] EXCEPT !.owner = t, !.expired = FALSE] ELSE row[p]]
           workOf(S, b) == [p \in Player |->
             IF p \in S THEN [NoWork EXCEPT !.phase = "assigned", !.budget = b[p],
                                             !.streak = row[p].streak]
             ELSE work[t][p]]
           runOf(S) == [run[t] EXCEPT !.pc = IF S = {} THEN "ensure" ELSE "wave", !.wave = S,
                          !.limited = FALSE, !.deferred = FALSE,
                          !.count = [run[t].count EXCEPT
                                       !.claimed = run[t].count.claimed + Cardinality(S)]]
<1>1. /\ row \in [Player -> RowType] /\ work \in [Token -> [Player -> WorkType]]
      /\ run \in [Token -> RunType] /\ run[t] \in RunType /\ run[t].count \in CountType
  BY DEF TypeOK, RunType
<1>2. PICK S \in SUBSET {p \in Player : Eligible(p)} :
        /\ Cardinality(S) <= Least(Least(Concurrency, RemainingBatch(t)), UsefulBudget(t))
        /\ row' = rowOf(S)
        /\ \E b \in Shares(S, UsefulBudget(t)) : work' = [work EXCEPT ![t] = workOf(S, b)]
        /\ run' = [run EXCEPT ![t].pc = IF S = {} THEN "ensure" ELSE "wave", ![t].wave = S,
                             ![t].limited = FALSE, ![t].deferred = FALSE,
                             ![t].count.claimed = @ + Cardinality(S)]
  BY DEF ClaimWave
<1> HIDE DEF rowOf, workOf
<1>3. run' = [run EXCEPT ![t] = runOf(S)]
  BY <1>1, <1>2 DEF RunType, CountType
<1>4. PICK b \in Shares(S, UsefulBudget(t)) : work' = [work EXCEPT ![t] = workOf(S, b)]
  BY <1>2
<1>5. IsFiniteSet(S) /\ Cardinality(S) \in Nat
  BY ConstantsAssumption, FS_Subset, FS_CardinalityType
<1>6. RemainingBatch(t) \in Int /\ UsefulBudget(t) \in Int
  BY <1>1, ConstantsAssumption
     DEF RemainingBatch, UsefulBudget, MatchBudget, EnqueueBudget, Least, CountType
<1>7. Cardinality(S) <= RemainingBatch(t)
  <2>1. Concurrency \in Int
    BY ConstantsAssumption
  <2>2. /\ Least(Concurrency, RemainingBatch(t)) \in Int
        /\ Least(Concurrency, RemainingBatch(t)) <= RemainingBatch(t)
    BY <1>6, <2>1, LeastBounds
  <2>3. /\ Least(Least(Concurrency, RemainingBatch(t)), UsefulBudget(t)) \in Int
        /\ Least(Least(Concurrency, RemainingBatch(t)), UsefulBudget(t))
             <= Least(Concurrency, RemainingBatch(t))
    BY <1>6, <2>2, LeastBounds
  <2>4. \A i, j, k, l \in Int : i <= j /\ j <= k /\ k <= l => i <= l
    OBVIOUS
  <2>5. Cardinality(S) \in Int
    BY <1>5
  <2> QED BY ONLY <1>2, <1>6, <2>2, <2>3, <2>4, <2>5
<1>8. b \in [S -> 0..MatchesPerPlayer] /\ SumFunctionOnSet(b, S) <= UsefulBudget(t)
  <2>1. /\ b \in [S -> 1..MatchesPerPlayer]
        /\ SumFunctionOnSet(b, S) = Least(UsefulBudget(t), MatchesPerPlayer * Cardinality(S))
    BY DEF Shares
  <2>2. MatchesPerPlayer \in Nat /\ MatchesPerPlayer * Cardinality(S) \in Int
    BY <1>5, ConstantsAssumption
  <2> QED BY <1>6, <2>1, <2>2 DEF Least
<1>9. row' \in [Player -> RowType]
  <2>1. ASSUME NEW p \in Player PROVE [row[p] EXCEPT !.owner = t, !.expired = FALSE] \in RowType
    BY <1>1 DEF RowType
  <2>2. rowOf(S) \in [Player -> RowType]
    BY <1>1, <2>1 DEF rowOf
  <2> QED BY <1>2, <2>2
<1>10. /\ work' \in [Token -> [Player -> WorkType]] /\ \A u \in Token \ {t} : work'[u] = work[u]
      /\ work'[t] = workOf(S, b)
  <2>1. ASSUME NEW p \in S
        PROVE  [NoWork EXCEPT !.phase = "assigned", !.budget = b[p], !.streak = row[p].streak]
                 \in WorkType
    <3>1. b[p] \in 0..MatchesPerPlayer /\ row[p].streak \in 0..MaxStreak
      BY <1>1, <1>8, <2>1 DEF RowType
    <3> QED BY <3>1, NoWorkTyped DEF WorkType, Phase
  <2>2. workOf(S, b) \in [Player -> WorkType]
    BY <1>1, <2>1 DEF workOf
  <2> QED BY <1>1, <1>4, <2>2
<1>11. /\ run' \in [Token -> RunType] /\ \A u \in Token \ {t} : run'[u] = run[u]
       /\ run'[t] = runOf(S)
  <2>1. runOf(S) \in RunType
    <3> DEFINE c == [run[t].count EXCEPT !.claimed = run[t].count.claimed + Cardinality(S)]
               pc == IF S = {} THEN "ensure" ELSE "wave"
    <3>1. c \in CountType
      BY <1>1, <1>5 DEF CountType
    <3>2. pc \in RunPc
      BY DEF RunPc
    <3> HIDE DEF c, pc
    <3>3. [run[t] EXCEPT !.pc = pc, !.wave = S, !.limited = FALSE, !.deferred = FALSE,
                         !.count = c] \in RunType
      BY <1>1, <3>1, <3>2 DEF RunType
    <3> QED BY <3>3 DEF c, pc
  <2> HIDE DEF runOf
  <2> QED BY <1>1, <1>3, <2>1
<1>12. /\ run'[t].wave = S /\ run'[t].pc = (IF S = {} THEN "ensure" ELSE "wave")
       /\ run'[t].count = [run[t].count EXCEPT !.claimed = run[t].count.claimed + Cardinality(S)]
       /\ run'[t].status = run[t].status
  BY <1>1, <1>11 DEF RunType
<1> HIDE DEF runOf
<1>13. WaveOf(t, S, b)
  BY <1>2, <1>7, <1>8, <1>9, <1>10, <1>11, <1>12 DEF WaveOf, rowOf, workOf
<1> QED BY <1>8, <1>13

(* What the fold of a wave adds to the counters is what its refreshes found. *)
LEMMA FoldTyped ==
  ASSUME TypeOK, NEW t \in Token, NEW S \in SUBSET Player
  PROVE  IsFiniteSet(S) /\ Cardinality(S) \in Nat /\ FoundBy(t, S) \in Nat /\ EnqueuedBy(t, S) \in Nat
<1>1. IsFiniteSet(S) /\ Cardinality(S) \in Nat
  BY ConstantsAssumption, FS_Subset, FS_CardinalityType
<1> DEFINE f == [p \in Player |-> work[t][p].found]
           g == [p \in Player |-> work[t][p].enqueued]
<1>2. \A p \in S : f[p] \in Nat /\ g[p] \in Nat
  BY ConstantsAssumption DEF TypeOK, WorkType
<1> HIDE DEF f, g
<1>3. SumFunctionOnSet(f, S) \in Nat /\ SumFunctionOnSet(g, S) \in Nat
  BY <1>1, <1>2, SumTyped
<1> QED BY <1>1, <1>3 DEF FoundBy, EnqueuedBy, f, g

(* The fold of a wave: its players are let go of, and the run goes on. *)
LEMMA FoldWrites ==
  ASSUME TypeOK, NEW t \in Token, FoldWave(t)
  PROVE  /\ run' \in [Token -> RunType] /\ \A u \in Token \ {t} : run'[u] = run[u]
         /\ run'[t].pc = "loop" /\ run'[t].wave = {} /\ run'[t].status = run[t].status
         /\ run'[t].count = Counted(t) /\ Counted(t) \in CountType
         /\ work' \in [Token -> [Player -> WorkType]]
         /\ \A u \in Token \ {t} : work'[u] = work[u]
         /\ \A p \in Player : work'[t][p] = IF p \in run[t].wave THEN NoWork ELSE work[t][p]
<1>1. /\ run \in [Token -> RunType] /\ run[t] \in RunType /\ run[t].count \in CountType
      /\ work \in [Token -> [Player -> WorkType]]
  BY DEF TypeOK, RunType
<1>2. Counted(t) \in CountType
  <2>1. \A k : Outcomes(t, k) \in SUBSET Player
    BY <1>1 DEF Outcomes, RunType
  <2> DEFINE won == Outcomes(t, "success")
             bad == Outcomes(t, "failure")
             gone == Outcomes(t, "ownership_lost")
             c == run[t].count
  <2>2. /\ won \cup bad \in SUBSET Player /\ won \cup bad \cup gone \in SUBSET Player
        /\ won \in SUBSET Player /\ bad \in SUBSET Player /\ gone \in SUBSET Player
    BY <2>1
  <2>3. /\ Cardinality(won \cup bad \cup gone) \in Nat /\ Cardinality(won) \in Nat
        /\ Cardinality(bad) \in Nat /\ Cardinality(gone) \in Nat
        /\ FoundBy(t, won \cup bad) \in Nat /\ EnqueuedBy(t, won \cup bad) \in Nat
    BY <2>2, FoldTyped
  <2>4. (IF run[t].limited THEN 1 ELSE 0) \in Nat
    OBVIOUS
  <2> DEFINE attempted == c.attempted + Cardinality(won \cup bad \cup gone)
             succeeded == c.succeeded + Cardinality(won)
             failed == c.failed + Cardinality(bad)
             lost == c.lost + Cardinality(gone)
             discovered == c.discovered + FoundBy(t, won \cup bad)
             enqueued == c.enqueued + EnqueuedBy(t, won \cup bad)
             rateStops == c.rateStops + (IF run[t].limited THEN 1 ELSE 0)
             counted == [c EXCEPT !.attempted = attempted, !.succeeded = succeeded,
                                  !.failed = failed, !.lost = lost, !.discovered = discovered,
                                  !.enqueued = enqueued, !.rateStops = rateStops]
  <2>5. Counted(t) = counted
    BY DEF Counted
  <2>6. {attempted, succeeded, failed, lost, discovered, enqueued, rateStops} \subseteq Nat
    <3> HIDE DEF won, bad, gone
    <3> QED BY <1>1, <2>3, <2>4 DEF CountType
  <2> HIDE DEF attempted, succeeded, failed, lost, discovered, enqueued, rateStops
  <2>7. counted \in CountType
    BY <1>1, <2>6 DEF CountType
  <2> HIDE DEF counted
  <2> QED BY <2>5, <2>7
<1> DEFINE y == [run[t] EXCEPT !.pc = "loop", !.wave = {}, !.count = Counted(t),
                               !.stop = run[t].limited \/ run[t].deferred]
           z == [p \in Player |-> IF p \in run[t].wave THEN NoWork ELSE work[t][p]]
<1>3. run' = [run EXCEPT ![t] = y] /\ work' = [work EXCEPT ![t] = z]
  BY <1>1 DEF FoldWave
<1>4. /\ y \in RunType /\ y.pc = "loop" /\ y.wave = {} /\ y.status = run[t].status
      /\ y.count = Counted(t)
  <2> DEFINE b == run[t].limited \/ run[t].deferred
  <2>1. b \in BOOLEAN
    BY <1>1 DEF RunType
  <2> HIDE DEF b
  <2> QED BY <1>1, <1>2, <2>1 DEF RunType, RunPc, b
<1>5. z \in [Player -> WorkType] /\ \A p \in Player : z[p] = IF p \in run[t].wave THEN NoWork ELSE work[t][p]
  BY <1>1, NoWorkTyped
<1> HIDE DEF y, z
<1> QED BY <1>1, <1>2, <1>3, <1>4, <1>5

-----------------------------------------------------------------------------
(* The kinds of steps.                                                     *)

(* Nothing of the runs and the players. *)
Quiet == UNCHANGED <<row, run, work, uncounted, tally>> /\ cooling' \in BOOLEAN

(* What others do to a player. *)
RowOnly == \E p \in Player : LeaseExpires(p) \/ SetStatus(p) \/ BecomesDue(p)

(* What a process that dies takes with it. *)
Dies(t) ==
  /\ tick'[t] = "dead"
  /\ work' = [work EXCEPT ![t] = [p \in Player |-> NoWork]]
  /\ UNCHANGED <<row, cooling, uncounted, tally>>
  /\ \/ run' = run /\ run[t].pc \in Over
     \/ run' = [run EXCEPT ![t] = [NoRun EXCEPT !.pc = "dead", !.status = run[t].status]]

-----------------------------------------------------------------------------
(* The ticks.                                                              *)

(* What a tick, or a command, does to the scheduler. *)
TickTurn(t) ==
  /\ \A u \in Token \ {t} : tick'[u] = tick[u] /\ run'[u] = run[u]
  /\ tick'[t] # "idle" /\ (Fresh(t) \/ tick[t] # "idle")
  /\ RunHasTick(t) => RunHasTick(t)'
  /\ \/ state'.owner = state.owner /\ state'.lastRun = state.lastRun
     \/ Fresh(t) /\ LeaseFree /\ state'.owner = t /\ state'.lastRun = state.lastRun
     \/ /\ tick[t] = "release" /\ state.owner = t
        /\ state'.owner = None /\ state'.lastRun = state.lastRun
     \/ tick[t] # "idle" /\ state.owner = t /\ state'.owner = t /\ state'.lastRun = t

(* What others do to it: nothing but the lease expires, or the cooldown ends. *)
TickRests ==
  /\ tick' = tick /\ state'.owner = state.owner /\ state'.lastRun = state.lastRun
  /\ \A t \in Token : run[t].pc \in Over => run'[t].pc \in Over

(* A tick that goes on leaves the others where they are. *)
LEMMA TickProceeds ==
  ASSUME TypeOK, NEW t \in Token, NEW pc \in TickPc, Proceed(t, pc)
  PROVE  /\ tick' \in [Token -> TickPc] /\ tick'[t] = pc
         /\ \A u \in Token \ {t} : tick'[u] = tick[u]
BY DEF TypeOK, Proceed

(* An owner-guarded update of the tick. *)
LEMMA RecordTurns ==
  ASSUME TypeOK, NEW t \in Token, NEW w \in StateType, NEW next \in TickPc \ {"idle"},
         Record(t, w, next), w.owner = state.owner, w.lastRun \in {state.lastRun, t},
         tick[t] # "idle", UNCHANGED run, run[t].pc \in Over \/ tick[t] \notin {"running", "cli"}
  PROVE  state' \in StateType /\ tick' \in [Token -> TickPc] /\ TickTurn(t)
<1>1. CASE Holds(t) /\ state' = w /\ Proceed(t, next)
  <2>1. tick' \in [Token -> TickPc] /\ tick'[t] = next /\ \A u \in Token \ {t} : tick'[u] = tick[u]
    BY <1>1, TickProceeds
  <2> QED BY <1>1, <2>1 DEF TickTurn, RunHasTick, Holds
<1>2. CASE ~Holds(t) /\ UNCHANGED state /\ Proceed(t, "release")
  <2>1. tick' \in [Token -> TickPc] /\ tick'[t] = "release" /\ \A u \in Token \ {t} : tick'[u] = tick[u]
    BY <1>2, TickProceeds DEF TickPc
  <2> QED BY <1>2, <2>1 DEF TickTurn, RunHasTick, TypeOK
<1> QED BY <1>1, <1>2 DEF Record

(* The owner-guarded updates of a tick, one by one. *)
LEMMA RecordsTurn ==
  ASSUME TypeOK, NEW t \in Token,
         \/ SkipCooldown(t) \/ SkipBackpressure(t) \/ RecordTrigger(t) \/ RecordOutcome(t)
         \/ SetCooldown(t) \/ RecordFailure(t)
  PROVE  state' \in StateType /\ tick' \in [Token -> TickPc] /\ TickTurn(t)
<1>1. state \in StateType /\ UNCHANGED run
  BY DEF TypeOK, claims, SkipCooldown, SkipBackpressure, RecordTrigger, RecordOutcome, SetCooldown,
         RecordFailure
<1>2. {"release", "outcome", "mirror"} \subseteq TickPc \ {"idle"}
  BY DEF TickPc
<1>3. CASE SkipCooldown(t) \/ SkipBackpressure(t) \/ RecordFailure(t)
  <2>1. /\ Record(t, state, "release") /\ tick[t] # "idle"
        /\ run[t].pc \in Over \/ tick[t] \notin {"running", "cli"}
    BY <1>3 DEF SkipCooldown, SkipBackpressure, RecordFailure, RunThrew, Over
  <2> QED BY <1>1, <1>2, <2>1, RecordTurns
<1>4. CASE RecordTrigger(t)
  <2> DEFINE w == [state EXCEPT !.lastRun = t]
  <2>1. w \in StateType /\ w.owner = state.owner /\ w.lastRun = t
    BY <1>1 DEF StateType
  <2>2. Record(t, w, "outcome") /\ tick[t] # "idle" /\ run[t].pc \in Over
    BY <1>4 DEF RecordTrigger, RunReturned, Over
  <2> HIDE DEF w
  <2> QED BY <1>1, <1>2, <2>1, <2>2, RecordTurns
<1>5. CASE RecordOutcome(t)
  <2> DEFINE next == IF run[t].count.rateStops > 0 THEN "mirror" ELSE "release"
  <2>1. Record(t, state, next) /\ next \in {"mirror", "release"}
        /\ tick[t] # "idle" /\ tick[t] \notin {"running", "cli"}
    BY <1>5 DEF RecordOutcome
  <2> HIDE DEF next
  <2> QED BY <1>1, <1>2, <2>1, RecordTurns
<1>6. CASE SetCooldown(t)
  <2> DEFINE w == [state EXCEPT !.cooldown = TRUE]
  <2>1. w \in StateType /\ w.owner = state.owner /\ w.lastRun = state.lastRun
    BY <1>1 DEF StateType
  <2>2. Record(t, w, "release") /\ tick[t] # "idle" /\ tick[t] \notin {"running", "cli"}
    BY <1>6 DEF SetCooldown
  <2> HIDE DEF w
  <2> QED BY <1>1, <1>2, <2>1, <2>2, RecordTurns
<1> QED BY <1>3, <1>4, <1>5, <1>6

(* The other steps of a tick, and the command line. *)
LEMMA OthersTurn ==
  ASSUME TypeOK, NEW t \in Token,
         \/ Acquire(t) \/ RunOnce(t) \/ RunFromCli(t) \/ MirrorCooldown(t) \/ ReleaseLease(t)
         \/ TickThrows(t) \/ ProcessDies(t)
  PROVE  state' \in StateType /\ tick' \in [Token -> TickPc] /\ TickTurn(t)
<1>1. state \in StateType /\ run \in [Token -> RunType] /\ run[t] \in RunType
  BY DEF TypeOK
<1>2. {"check", "running", "cli", "cooldown", "failed", "release", "done", "dead"} \subseteq TickPc
  BY DEF TickPc
<1>3. CASE Acquire(t)
  <2> DEFINE w == [state EXCEPT !.owner = t, !.expired = FALSE]
  <2>1. w \in StateType /\ w.owner = t /\ w.lastRun = state.lastRun
    BY <1>1 DEF StateType
  <2>2. Fresh(t) /\ LeaseFree /\ state' = w /\ Proceed(t, "check") /\ run' = run
    BY <1>3 DEF Acquire, claims
  <2>3. tick' \in [Token -> TickPc] /\ tick'[t] = "check" /\ \A u \in Token \ {t} : tick'[u] = tick[u]
    BY <1>2, <2>2, TickProceeds
  <2> HIDE DEF w
  <2> QED BY <2>1, <2>2, <2>3 DEF TickTurn, RunHasTick, Fresh
<1>4. CASE RunOnce(t) \/ RunFromCli(t)
  <2>1. PICK pc \in {"running", "cli"} : Proceed(t, pc)
    BY <1>4 DEF RunOnce, RunFromCli
  <2>2. tick' \in [Token -> TickPc] /\ tick'[t] = pc /\ \A u \in Token \ {t} : tick'[u] = tick[u]
    BY <1>2, <2>1, TickProceeds
  <2>3. (Fresh(t) \/ tick[t] # "idle") /\ state' = state /\ OwnStep(t)
    BY <1>4 DEF RunOnce, RunFromCli, OwnStep
  <2>4. \A u \in Token \ {t} : run'[u] = run[u]
    BY <2>3, RunTurns
  <2> QED BY <1>1, <2>2, <2>3, <2>4 DEF TickTurn, RunHasTick
<1>5. CASE MirrorCooldown(t)
  <2>1. tick[t] = "mirror" /\ Proceed(t, "cooldown") /\ state' = state /\ run' = run
    BY <1>5 DEF MirrorCooldown
  <2>2. tick' \in [Token -> TickPc] /\ tick'[t] = "cooldown" /\ \A u \in Token \ {t} : tick'[u] = tick[u]
    BY <1>2, <2>1, TickProceeds
  <2> QED BY <1>1, <2>1, <2>2 DEF TickTurn, RunHasTick
<1>6. CASE ReleaseLease(t)
  <2> DEFINE w == [state EXCEPT !.owner = None, !.expired = FALSE]
  <2>1. w \in StateType /\ w.owner = None /\ w.lastRun = state.lastRun
    BY <1>1 DEF StateType
  <2>2. /\ tick[t] = "release" /\ Proceed(t, "done") /\ run' = run
        /\ state' = IF Holds(t) THEN w ELSE state
    BY <1>6 DEF ReleaseLease, claims
  <2>3. tick' \in [Token -> TickPc] /\ tick'[t] = "done" /\ \A u \in Token \ {t} : tick'[u] = tick[u]
    BY <1>2, <2>2, TickProceeds
  <2> HIDE DEF w
  <2> QED BY <1>1, <2>1, <2>2, <2>3 DEF TickTurn, RunHasTick, Holds
<1>7. CASE TickThrows(t)
  <2> DEFINE pc == CASE tick[t] = "failed" \/ RunThrew(t) -> "release" [] tick[t] = "release" -> "done"
                     [] OTHER -> "failed"
  <2>1. pc \in {"release", "done", "failed"}
    OBVIOUS
  <2>2. /\ Proceed(t, pc) /\ run' = run /\ state' = state
        /\ tick[t] \in OwnSteps \/ RunReturned(t) \/ RunThrew(t)
    BY <1>7 DEF TickThrows, claims
  <2> HIDE DEF pc
  <2>3. tick' \in [Token -> TickPc] /\ tick'[t] = pc /\ \A u \in Token \ {t} : tick'[u] = tick[u]
    BY <1>2, <2>1, <2>2, TickProceeds
  <2>4. tick[t] # "idle" /\ (run[t].pc \in Over \/ tick[t] \notin {"running", "cli"})
    BY <2>2 DEF OwnSteps, RunReturned, RunThrew, Over
  <2> QED BY <1>1, <2>1, <2>2, <2>3, <2>4 DEF TickTurn, RunHasTick
<1>8. CASE ProcessDies(t)
  <2>1. Proceed(t, "dead") /\ state' = state
    BY <1>8 DEF ProcessDies
  <2>2. tick' \in [Token -> TickPc] /\ tick'[t] = "dead" /\ \A u \in Token \ {t} : tick'[u] = tick[u]
    BY <1>2, <2>1, TickProceeds
  <2>3. CASE tick[t] \in {"running", "cli"} /\ Crash(t)
    <3> DEFINE y == [NoRun EXCEPT !.pc = "dead", !.status = run[t].status]
    <3>1. run' = [run EXCEPT ![t] = y]
      BY <2>3 DEF Crash
    <3>2. y.pc = "dead"
      BY DEF NoRun
    <3> HIDE DEF y
    <3> QED BY <1>1, <2>1, <2>2, <2>3, <3>1, <3>2 DEF TickTurn, RunHasTick, Over
  <2>4. CASE run' = run /\ (tick[t] \in OwnSteps \/ RunReturned(t) \/ RunThrew(t))
    <3>1. tick[t] # "idle" /\ (run[t].pc \in Over \/ tick[t] \notin {"running", "cli"})
      BY <2>4 DEF OwnSteps, RunReturned, RunThrew, Over
    <3> QED BY <1>1, <2>1, <2>2, <2>4, <3>1 DEF TickTurn, RunHasTick
  <2> QED BY <1>8, <2>3, <2>4 DEF ProcessDies
<1> QED BY <1>3, <1>4, <1>5, <1>6, <1>7, <1>8

(* A run that is over stays so, unless it is started. *)
LEMMA OverIsOver ==
  ASSUME TypeOK, NEW t \in Token, run[t].pc \in Over,
         \/ CollectorStep(t) \/ RunThrows(t) \/ CatchFails(t) \/ \E p \in Player : WorkerThrows(t, p)
  PROVE  run'[t].pc \in Over
<1>1. CASE \E p \in Player : PlayerMoves(t, p)
  <2>1. PICK p \in Player : PlayerMoves(t, p)
    BY <1>1
  <2> QED BY <2>1, RunMoves DEF Over
<1>2. ~RunStep(t) /\ ~RunThrows(t) /\ ~CatchFails(t)
  BY DEF RunStep, StopClaims, BudgetSpent, CooldownPreflight, ClaimWave, MayClaim, FoldWave,
         EnsureNoUnreleasedLeases, FinalizeRun, CatchRelease, CatchFinalize, RunThrows, CatchFails, Over
<1> QED BY <1>1, <1>2 DEF CollectorStep, PlayerStep, PlayerMoves

(* Steps of a run or a player leave the other runs alone. *)
LEMMA OthersRest ==
  ASSUME TypeOK, NEW t \in Token,
         \/ CollectorStep(t) \/ RunThrows(t) \/ CatchFails(t) \/ \E p \in Player : WorkerThrows(t, p)
  PROVE  \A u \in Token \ {t} : run'[u] = run[u]
<1>1. CASE \E p \in Player : PlayerMoves(t, p)
  BY <1>1, RunMoves
<1>2. CASE OwnStep(t)
  BY <1>2, RunTurns
<1>3. CASE ClaimWave(t)
  BY <1>3, WaveIsClaimed DEF WaveOf
<1>4. CASE FoldWave(t)
  BY <1>4, FoldWrites
<1> QED BY <1>1, <1>2, <1>3, <1>4 DEF CollectorStep, RunStep, PlayerStep, PlayerMoves, OwnStep

(* Whatever happens, the scheduler rests or one tick goes on. *)
LEMMA SchedulerMoves ==
  ASSUME TypeOK, [SchedulerNext]_allVars
  PROVE  /\ state' \in StateType /\ tick' \in [Token -> TickPc]
         /\ TickRests \/ \E t \in Token : TickTurn(t)
<1>1. state \in StateType /\ tick \in [Token -> TickPc]
  BY DEF TypeOK
<1>2. CASE \E t \in Token :
             \/ Acquire(t) \/ RunFromCli(t) \/ TickStep(t) \/ TickThrows(t) \/ ProcessDies(t)
  <2>1. PICK t \in Token :
             \/ Acquire(t) \/ RunFromCli(t) \/ TickStep(t) \/ TickThrows(t) \/ ProcessDies(t)
    BY <1>2
  <2> QED BY <2>1, RecordsTurn, OthersTurn DEF TickStep
<1>3. ASSUME NEW w \in StateType, state' = w, w.owner = state.owner, w.lastRun = state.lastRun,
             UNCHANGED <<claims, tick>>
      PROVE  state' \in StateType /\ tick' \in [Token -> TickPc] /\ TickRests
  BY <1>1, <1>3 DEF TickRests, claims
<1>4. CASE (\E t \in Token : RenewLease(t)) \/ SchedulerLeaseExpires \/ LocalCooldownEnds
  <2>1. PICK f \in {"expired", "cooldown"}, b \in BOOLEAN :
             state' = [state EXCEPT ![f] = b] /\ UNCHANGED <<claims, tick>>
    BY <1>4 DEF RenewLease, SchedulerLeaseExpires, LocalCooldownEnds
  <2> DEFINE w == [state EXCEPT ![f] = b]
  <2>2. w \in StateType /\ w.owner = state.owner /\ w.lastRun = state.lastRun
    BY <1>1 DEF StateType
  <2> HIDE DEF w
  <2> QED BY <1>3, <2>1, <2>2 DEF w
<1>5. CASE \E t \in Token : \/ CollectorStep(t)
                            \/ UNCHANGED schedulerVars /\ (RunThrows(t) \/ CatchFails(t)
                                                 \/ \E p \in Player : WorkerThrows(t, p))
  <2>1. PICK t \in Token : \/ CollectorStep(t)
                           \/ UNCHANGED schedulerVars /\ (RunThrows(t) \/ CatchFails(t)
                                                 \/ \E p \in Player : WorkerThrows(t, p))
    BY <1>5
  <2>2. UNCHANGED <<state, tick>>
    BY <2>1 DEF CollectorStep, schedulerVars
  <2>3. ASSUME NEW u \in Token, run[u].pc \in Over PROVE run'[u].pc \in Over
    BY <2>1, <2>3, OverIsOver, OthersRest
  <2> QED BY <1>1, <2>2, <2>3 DEF TickRests
<1>6. CASE UNCHANGED schedulerVars /\ UNCHANGED run
  BY <1>1, <1>6 DEF schedulerVars, TickRests
<1>7. CASE Trouble /\ UNCHANGED schedulerVars
  <2>1. CASE (\E p \in Player : LeaseExpires(p) \/ SetStatus(p) \/ BecomesDue(p)) \/ CooldownEnds
    BY <1>6, <1>7, <2>1 DEF LeaseExpires, SetStatus, BecomesDue, CooldownEnds
  <2> QED BY <1>5, <1>7, <2>1 DEF Trouble
<1>8. CASE UNCHANGED allVars
  BY <1>6, <1>8 DEF allVars, vars, claims
<1> QED BY <1>2, <1>4, <1>5, <1>7, <1>8 DEF SchedulerNext

(* The tokens stay in order, and no run goes on without its tick. *)
LEMMA TicksPreserved ==
  ASSUME TypeOK, TickInv, [SchedulerNext]_allVars
  PROVE  TickInv'
<1>1. Token \subseteq Nat /\ None \notin Token
  BY TokenAssumption, ConstantsAssumption
<1>2. state \in StateType /\ TicksInOrder /\ \A t \in Token : RunHasTick(t)
  BY DEF TypeOK, TickInv
<1>3. CASE TickRests
  BY <1>2, <1>3 DEF TickRests, TickInv, TicksInOrder, RunHasTick
<1>4. ASSUME NEW t \in Token, TickTurn(t) PROVE TickInv'
  <2>1. \A u \in Token \ {t} : tick'[u] = tick[u] /\ run'[u] = run[u]
    BY <1>4 DEF TickTurn
  <2>2. \A u \in Token : RunHasTick(u)'
    BY <1>2, <1>4, <2>1 DEF TickTurn, RunHasTick
  <2>3. ASSUME NEW u \in Token, NEW v \in Token, tick'[u] # "idle", v < u
        PROVE  tick'[v] # "idle"
    <3>1. CASE u = t
      BY <1>2, <1>4, <2>1, <2>3, <3>1 DEF TickTurn, Fresh, TicksInOrder
    <3>2. CASE u # t
      BY <1>2, <1>4, <2>1, <2>3, <3>2 DEF TickTurn, TicksInOrder
    <3> QED BY <3>1, <3>2
  <2>4. \A u \in Token : tick[u] # "idle" => tick'[u] # "idle"
    BY <1>4, <2>1 DEF TickTurn
  <2>5. state.owner \in Token \cup {None} /\ state.lastRun \in Token \cup {None}
    BY <1>2 DEF StateType
  <2>6. \A u \in {state'.owner, state'.lastRun} \ {None} : tick'[u] # "idle"
    BY <1>2, <1>4, <2>4, <2>5 DEF TickTurn, TicksInOrder
  <2>7. state'.owner # None /\ state'.lastRun # None => state'.lastRun <= state'.owner
    <3>1. CASE state'.owner = state.owner /\ state'.lastRun = state.lastRun
      BY <1>2, <3>1 DEF TicksInOrder
    <3>2. CASE Fresh(t) /\ state'.owner = t /\ state'.lastRun = state.lastRun
      <4>1. state.lastRun # None => state.lastRun \in Token /\ tick[state.lastRun] # "idle"
        BY <1>2, <2>5 DEF TicksInOrder
      <4>2. tick[t] = "idle"
        BY <3>2 DEF Fresh
      <4>3. state.lastRun # None => ~(t < state.lastRun)
        BY <1>2, <4>1, <4>2 DEF TicksInOrder
      <4>4. \A m, n \in Nat : ~(n < m) => m <= n
        OBVIOUS
      <4>5. t \in Nat /\ (state.lastRun # None => state.lastRun \in Nat)
        BY <1>1, <4>1
      <4> QED BY <3>2, <4>3, <4>4, <4>5
    <3>3. CASE state'.owner = None
      BY <3>3
    <3>4. CASE state'.owner = t /\ state'.lastRun = t
      BY <1>1, <3>4
    <3> QED BY <1>4, <3>1, <3>2, <3>3, <3>4 DEF TickTurn
  <2> QED BY <2>2, <2>3, <2>6, <2>7 DEF TickInv, TicksInOrder
<1> QED BY <1>3, <1>4, SchedulerMoves

(* The lease leaves its owner as it should, and the runs are recorded in order. *)
LEMMA LeaseMoves ==
  ASSUME TypeOK, TickInv, [SchedulerNext]_allVars
  PROVE  /\ \A t \in Token : state.owner = t /\ state'.owner # t
                               => tick[t] = "release" \/ state.expired
         /\ state'.lastRun # state.lastRun =>
              /\ state'.lastRun = state.owner
              /\ state.lastRun # None => state'.lastRun > state.lastRun
<1>1. Token \subseteq Nat /\ None \notin Token
  BY TokenAssumption, ConstantsAssumption
<1>2. state \in StateType /\ TicksInOrder
  BY DEF TypeOK, TickInv
<1>3. CASE TickRests
  BY <1>3 DEF TickRests
<1>4. ASSUME NEW t \in Token, TickTurn(t)
      PROVE  /\ \A u \in Token : state.owner = u /\ state'.owner # u
                                   => tick[u] = "release" \/ state.expired
             /\ state'.lastRun # state.lastRun =>
                  /\ state'.lastRun = state.owner
                  /\ state.lastRun # None => state'.lastRun > state.lastRun
  <2>1. ASSUME NEW u \in Token, state.owner = u, state'.owner # u
        PROVE  tick[u] = "release" \/ state.expired
    BY <1>1, <1>4, <2>1 DEF TickTurn, LeaseFree
  <2>2. ASSUME state'.lastRun # state.lastRun
        PROVE  /\ state'.lastRun = state.owner /\ state.owner = t
               /\ state.lastRun # None => state.lastRun <= state.owner
    BY <1>1, <1>2, <1>4, <2>2 DEF TickTurn, TicksInOrder
  <2>3. state.lastRun # None => state.lastRun \in Token
    BY <1>2 DEF StateType
  <2>4. \A m, n \in Nat : m <= n /\ n # m => n > m
    OBVIOUS
  <2>5. t \in Nat /\ (state.lastRun # None => state.lastRun \in Nat)
    BY <1>1, <2>3
  <2> QED BY <2>1, <2>2, <2>4, <2>5
<1> QED BY <1>3, <1>4, SchedulerMoves

-----------------------------------------------------------------------------
(* The kinds of steps, for the runs and the players.                       *)

Kinds ==
  \/ Quiet \/ RowOnly
  \/ \E t \in Token : OwnStep(t) \/ ClaimWave(t) \/ FoldWave(t) \/ Dies(t)
                      \/ \E p \in Player : PlayerMoves(t, p)

(* Every step is of one of these kinds. *)
LEMMA StepsHaveKinds ==
  ASSUME TypeOK, TickInv, [SchedulerNext]_allVars
  PROVE  Kinds
<1>1. cooling \in BOOLEAN
  BY DEF TypeOK
<1>2. CASE \E t \in Token :
             \/ Acquire(t) \/ RenewLease(t) \/ (TickStep(t) /\ ~RunOnce(t)) \/ TickThrows(t)
  BY <1>1, <1>2 DEF Acquire, RenewLease, TickStep, TickThrows, SkipCooldown, SkipBackpressure,
     RecordTrigger, RecordOutcome, MirrorCooldown, SetCooldown, RecordFailure, ReleaseLease, claims,
     Quiet, Kinds
<1>3. CASE \E t \in Token : RunOnce(t) \/ RunFromCli(t)
  BY <1>3 DEF RunOnce, RunFromCli, OwnStep, Kinds
<1>4. CASE \E t \in Token : CollectorStep(t)
  BY <1>4 DEF CollectorStep, RunStep, PlayerStep, OwnStep, PlayerMoves, Kinds
<1>5. CASE \E t \in Token : ProcessDies(t)
  <2>1. PICK t \in Token : ProcessDies(t)
    BY <1>5
  <2>2. RunHasTick(t)
    BY DEF TickInv
  <2>3. run[t].pc \in Over \/ Crash(t)
    BY <2>1, <2>2 DEF ProcessDies, RunHasTick, OwnSteps, RunReturned, RunThrew, Over
  <2>4. tick'[t] = "dead"
    BY <2>1 DEF ProcessDies, Proceed, TypeOK
  <2> QED BY <2>1, <2>3, <2>4 DEF ProcessDies, Crash, Dies, Kinds
<1>6. CASE Trouble
  BY <1>1, <1>6 DEF Trouble, OwnStep, PlayerMoves, RowOnly, Quiet, CooldownEnds, Kinds
<1>7. CASE SchedulerLeaseExpires \/ LocalCooldownEnds \/ UNCHANGED allVars
  BY <1>1, <1>7 DEF SchedulerLeaseExpires, LocalCooldownEnds, allVars, vars, claims, Quiet, Kinds
<1> QED BY <1>2, <1>3, <1>4, <1>5, <1>6, <1>7 DEF SchedulerNext

(* What others do to a player leaves its streak, and frees it at most. *)
LEMMA RowOnlyWrites ==
  ASSUME TypeOK, RowOnly
  PROVE  /\ row' \in [Player -> RowType] /\ UNCHANGED <<cooling, run, work, uncounted, tally>>
         /\ \A p \in Player : /\ row'[p].owner \in {row[p].owner, None}
                              /\ row'[p].streak = row[p].streak
<1>1. PICK p \in Player : LeaseExpires(p) \/ SetStatus(p) \/ BecomesDue(p)
  BY DEF RowOnly
<1>2. row \in [Player -> RowType] /\ row[p] \in RowType
  BY DEF TypeOK
<1>3. UNCHANGED <<cooling, run, work, uncounted, tally>>
  BY <1>1 DEF LeaseExpires, SetStatus, BecomesDue
<1>4. ASSUME NEW r \in RowType, row' = [row EXCEPT ![p] = r], r.owner \in {row[p].owner, None},
             r.streak = row[p].streak
      PROVE  /\ row' \in [Player -> RowType]
             /\ \A q \in Player : /\ row'[q].owner \in {row[q].owner, None}
                                  /\ row'[q].streak = row[q].streak
  BY <1>2, <1>4
<1>5. CASE LeaseExpires(p)
  <2> DEFINE r == [row[p] EXCEPT !.expired = TRUE]
  <2>1. r \in RowType /\ r.owner = row[p].owner /\ r.streak = row[p].streak
    BY <1>2 DEF RowType
  <2>2. row' = [row EXCEPT ![p] = r]
    BY <1>5 DEF LeaseExpires
  <2> HIDE DEF r
  <2> QED BY <1>3, <1>4, <2>1, <2>2
<1>6. CASE BecomesDue(p)
  <2> DEFINE r == [row[p] EXCEPT !.due = TRUE]
  <2>1. r \in RowType /\ r.owner = row[p].owner /\ r.streak = row[p].streak
    BY <1>2 DEF RowType
  <2>2. row' = [row EXCEPT ![p] = r]
    BY <1>6 DEF BecomesDue
  <2> HIDE DEF r
  <2> QED BY <1>3, <1>4, <2>1, <2>2
<1>7. CASE SetStatus(p)
  <2>1. PICK s \in {"ACTIVE", "PAUSED"}, force \in BOOLEAN, reset \in BOOLEAN :
          LET r == [row[p] EXCEPT !.status = s, !.due = row[p].due \/ s = "ACTIVE",
                                  !.failures = IF reset THEN 0 ELSE row[p].failures]
          IN row' = [row EXCEPT ![p] = IF force THEN Freed(r) ELSE r]
    BY <1>7 DEF SetStatus
  <2> DEFINE due == row[p].due \/ s = "ACTIVE"
             n == IF reset THEN 0 ELSE row[p].failures
             r == [row[p] EXCEPT !.status = s, !.due = due, !.failures = n]
             w == IF force THEN Freed(r) ELSE r
  <2>2. row' = [row EXCEPT ![p] = w]
    BY <2>1
  <2>3. due \in BOOLEAN /\ n \in Nat
    BY <1>2 DEF RowType
  <2> HIDE DEF due, n
  <2>4. r \in RowType /\ r.owner = row[p].owner /\ r.streak = row[p].streak
    BY <1>2, <2>3 DEF RowType
  <2> HIDE DEF r
  <2>5. w \in RowType /\ w.owner \in {row[p].owner, None} /\ w.streak = row[p].streak
    BY <2>4, FreedTyped
  <2> HIDE DEF w
  <2> QED BY <1>3, <1>4, <2>2, <2>5
<1> QED BY <1>1, <1>5, <1>6, <1>7

(* What dies with a process. *)
LEMMA DiesWrites ==
  ASSUME TypeOK, NEW t \in Token, Dies(t)
  PROVE  /\ run' \in [Token -> RunType] /\ work' \in [Token -> [Player -> WorkType]]
         /\ \A u \in Token \ {t} : run'[u] = run[u] /\ work'[u] = work[u]
         /\ \A p \in Player : work'[t][p] = NoWork
         /\ \/ run'[t] = run[t] /\ run[t].pc \in Over
            \/ run'[t].pc = "dead" /\ run'[t].count = Zero
<1>1. /\ run \in [Token -> RunType] /\ run[t] \in RunType
      /\ work \in [Token -> [Player -> WorkType]]
  BY DEF TypeOK
<1>2. /\ work' \in [Token -> [Player -> WorkType]]
      /\ \A u \in Token \ {t} : work'[u] = work[u]
      /\ \A p \in Player : work'[t][p] = NoWork
  <2> DEFINE none == [p \in Player |-> NoWork]
  <2>1. none \in [Player -> WorkType] /\ \A p \in Player : none[p] = NoWork
    BY NoWorkTyped
  <2> HIDE DEF none
  <2> QED BY <1>1, <2>1 DEF Dies, none
<1> DEFINE y == [NoRun EXCEPT !.pc = "dead", !.status = run[t].status]
<1>3. y \in RunType /\ y.pc = "dead" /\ y.count = Zero
  BY <1>1, NoRunTyped DEF RunType, RunPc, Over
<1>4. (run' = run /\ run[t].pc \in Over) \/ run' = [run EXCEPT ![t] = y]
  BY DEF Dies
<1> HIDE DEF y
<1>5. CASE run' = run /\ run[t].pc \in Over
  BY <1>1, <1>2, <1>5
<1>6. CASE run' = [run EXCEPT ![t] = y]
  BY <1>1, <1>2, <1>3, <1>6
<1> QED BY <1>4, <1>5, <1>6

-----------------------------------------------------------------------------
(* Every step keeps the types.                                             *)

(* The types are kept. *)
LEMMA TypePreserved ==
  ASSUME TypeOK, Kinds, state' \in StateType, tick' \in [Token -> TickPc]
  PROVE  TypeOK'
<1>1. CASE Quiet
  BY <1>1 DEF Quiet, TypeOK
<1>2. CASE RowOnly
  BY <1>2, RowOnlyWrites DEF TypeOK
<1>3. ASSUME NEW t \in Token, OwnStep(t) PROVE TypeOK'
  <2>1. row' \in [Player -> RowType]
    BY <1>3, RunTurns, ReleasedTyped DEF Turn, TypeOK
  <2> QED BY <1>3, <2>1, RunTurns DEF TypeOK
<1>4. ASSUME NEW t \in Token, ClaimWave(t) PROVE TypeOK'
  <2>1. /\ row' \in [Player -> RowType] /\ run' \in [Token -> RunType]
        /\ work' \in [Token -> [Player -> WorkType]]
    BY <1>4, WaveIsClaimed DEF WaveOf
  <2>2. UNCHANGED <<cooling, uncounted, tally>>
    BY <1>4 DEF ClaimWave
  <2> QED BY <2>1, <2>2 DEF TypeOK
<1>5. ASSUME NEW t \in Token, FoldWave(t) PROVE TypeOK'
  <2>1. UNCHANGED <<row, cooling, uncounted, tally>>
    BY <1>5 DEF FoldWave
  <2> QED BY <1>5, <2>1, FoldWrites DEF TypeOK
<1>6. ASSUME NEW t \in Token, Dies(t) PROVE TypeOK'
  <2>1. UNCHANGED <<row, cooling, uncounted, tally>>
    BY <1>6 DEF Dies
  <2> QED BY <1>6, <2>1, DiesWrites DEF TypeOK
<1>7. ASSUME NEW t \in Token, NEW p \in Player, PlayerMoves(t, p) PROVE TypeOK'
  BY <1>7, RowMoves, RunMoves, WorkMoves, TallyMoves DEF TypeOK
<1> QED BY <1>1, <1>2, <1>3, <1>4, <1>5, <1>6, <1>7 DEF Kinds

-----------------------------------------------------------------------------
(* Claims.                                                                 *)

(* The claims of the run u, after a step that claims nothing for it. *)
NoNewClaim(u) ==
  \A p \in Player : row'[p].owner = u => row[p].owner = u /\ row'[p].streak = row[p].streak

ClaimsOf(u) == RunInv(u) /\ \A p \in Player : StreakIsKept(u, p)

(* What another run does not touch stays as it was. *)
LEMMA ClaimFrame ==
  ASSUME NEW u \in Token, ClaimsOf(u), run'[u] = run[u], work'[u] = work[u], NoNewClaim(u)
  PROVE  ClaimsOf(u)'
BY DEF ClaimsOf, RunInv, StreakIsKept, NoNewClaim, Owns

(* A run that goes on by itself claims nothing, and releases before it ends. *)
LEMMA OwnStepClaims ==
  ASSUME TypeOK, NEW t \in Token, ClaimsOf(t), OwnStep(t)
  PROVE  ClaimsOf(t)' /\ \A u \in Token : NoNewClaim(u)
<1>1. None \notin Token
  BY ConstantsAssumption
<1>2. Turn(t) /\ run'[t].wave = run[t].wave /\ work' = work
  BY RunTurns
<1>3. row' = row \/ row' = Released(t)
  BY <1>2 DEF Turn
<1>4. \A u \in Token : NoNewClaim(u)
  BY <1>1, <1>3, ReleasedTyped DEF NoNewClaim
<1>5. row' = Released(t) => \A p \in Player : ~Owns(t, p)'
  BY <1>1, ReleasedTyped DEF Owns
<1>6. RunInv(t)'
  <2>1. run'[t].pc \in {"finalize", "returned", "catchFinalize", "threw"}
          => \A p \in Player : ~Owns(t, p)'
    BY <1>2, <1>5 DEF ClaimsOf, RunInv, Turn, Owns
  <2>2. run'[t].pc \in {"none", "loop", "ensure", "finalize", "returned"} => run'[t].wave = {}
    BY <1>2 DEF ClaimsOf, RunInv, Turn
  <2> QED BY <1>2, <2>1, <2>2 DEF ClaimsOf, RunInv
<1>7. \A p \in Player : StreakIsKept(t, p)'
  BY <1>2, <1>4 DEF ClaimsOf, StreakIsKept, NoNewClaim, Owns
<1> QED BY <1>4, <1>6, <1>7 DEF ClaimsOf

(* A claim is written with the streak it read. *)
LEMMA ClaimWaveClaims ==
  ASSUME TypeOK, NEW t \in Token, ClaimsOf(t), ClaimWave(t)
  PROVE  ClaimsOf(t)' /\ \A u \in Token \ {t} : NoNewClaim(u)
<1>1. PICK S \in SUBSET Player : \E b \in [S -> 0..MatchesPerPlayer] : WaveOf(t, S, b)
  BY WaveIsClaimed
<1>2. PICK b \in [S -> 0..MatchesPerPlayer] : WaveOf(t, S, b)
  BY <1>1
<1>3. /\ row \in [Player -> RowType] /\ run[t].pc = "loop" /\ run[t].wave = {}
      /\ \A p \in Player : work[t][p] = NoWork
  BY DEF TypeOK, ClaimsOf, RunInv, ClaimWave, MayClaim
<1>4. ASSUME NEW p \in S PROVE row'[p].owner = t /\ row'[p].streak = row[p].streak
  <2>1. row[p] \in RowType /\ row'[p] = [row[p] EXCEPT !.owner = t, !.expired = FALSE]
    BY <1>2, <1>3 DEF WaveOf
  <2> QED BY <2>1 DEF RowType
<1>5. \A u \in Token \ {t} : NoNewClaim(u)
  BY <1>2, <1>4 DEF WaveOf, NoNewClaim
<1>6. ASSUME NEW p \in S
      PROVE  /\ work'[t][p].phase = "assigned" /\ work'[t][p].outcome = "none"
             /\ work'[t][p].streak = row[p].streak
  <2>1. work'[t][p] = [NoWork EXCEPT !.phase = "assigned", !.budget = b[p],
                                     !.streak = row[p].streak]
    BY <1>2 DEF WaveOf
  <2> QED BY <2>1 DEF NoWork
<1>7. \A p \in Player \ S : work'[t][p] = NoWork
  BY <1>2, <1>3 DEF WaveOf
<1>8. RunInv(t)'
  <2>1. run'[t].wave = S /\ run'[t].pc = (IF S = {} THEN "ensure" ELSE "wave")
    BY <1>2 DEF WaveOf
  <2> QED BY <1>6, <1>7, <2>1, NoWorkTyped DEF RunInv
<1>9. \A p \in Player : StreakIsKept(t, p)'
  BY <1>4, <1>6, <1>7, NoWorkTyped DEF StreakIsKept
<1> QED BY <1>5, <1>8, <1>9 DEF ClaimsOf

(* After the fold nobody is refreshed. *)
LEMMA FoldWaveClaims ==
  ASSUME TypeOK, NEW t \in Token, ClaimsOf(t), FoldWave(t)
  PROVE  ClaimsOf(t)' /\ \A u \in Token : NoNewClaim(u)
<1>1. row' = row
  BY DEF FoldWave
<1>2. \A p \in Player : work'[t][p] = NoWork
  BY FoldWrites DEF ClaimsOf, RunInv
<1>3. run'[t].pc = "loop" /\ run'[t].wave = {}
  BY FoldWrites
<1> QED BY <1>1, <1>2, <1>3, NoWorkTyped DEF ClaimsOf, RunInv, StreakIsKept, NoNewClaim

(* A process that dies leaves its leases to expire. *)
LEMMA DiesClaims ==
  ASSUME TypeOK, NEW t \in Token, ClaimsOf(t), Dies(t)
  PROVE  ClaimsOf(t)' /\ \A u \in Token : NoNewClaim(u)
<1>1. row' = row
  BY DEF Dies
<1>2. /\ \A p \in Player : work'[t][p] = NoWork
      /\ run'[t] = run[t] \/ run'[t].pc = "dead"
  BY DiesWrites
<1> QED BY <1>1, <1>2, NoWorkTyped DEF ClaimsOf, RunInv, StreakIsKept, NoNewClaim, Owns

(* A refresh frees the row of its own player at most. *)
LEMMA PlayerMovesClaims ==
  ASSUME TypeOK, NEW t \in Token, NEW p \in Player, ClaimsOf(t), PlayerMoves(t, p)
  PROVE  ClaimsOf(t)' /\ \A u \in Token : NoNewClaim(u)
<1>1. None \notin Token
  BY ConstantsAssumption
<1>2. /\ \A q \in Player \ {p} : work'[t][q] = work[t][q] /\ row'[q] = row[q]
      /\ work[t][p].phase \in Active
      /\ \/ row' = row
         \/ row'[p].owner = None /\ work'[t][p].phase = "done"
  BY WorkMoves, RowMoves
<1>3. \/ /\ work'[t][p].phase \in Active \ {"assigned"} /\ work'[t][p].streak = work[t][p].streak
         /\ work'[t][p].outcome = work[t][p].outcome
      \/ work'[t][p].phase = "done"
  BY WorkMoves DEF Active
<1>4. \A u \in Token : NoNewClaim(u)
  BY <1>1, <1>2 DEF NoNewClaim
<1>5. p \in run[t].wave
  BY <1>2, NoWorkTyped DEF ClaimsOf, RunInv, Active
<1>6. RunInv(t)'
  <2>1. /\ run'[t].wave = run[t].wave
        /\ run'[t].pc = run[t].pc \/ (run[t].pc = "wave" /\ run'[t].pc = "catch")
    BY RunMoves
  <2>2. run'[t].pc \in {"finalize", "returned", "catchFinalize", "threw"}
          => \A q \in Player : ~Owns(t, q)'
    BY <1>4, <2>1 DEF ClaimsOf, RunInv, Owns, NoNewClaim
  <2>3. run'[t].pc \in {"none", "loop", "ensure", "finalize", "returned"} => run'[t].wave = {}
    BY <2>1 DEF ClaimsOf, RunInv
  <2>4. \A q \in Player \ run'[t].wave : work'[t][q] = NoWork
    BY <1>2, <1>5, <2>1 DEF ClaimsOf, RunInv
  <2>5. \A q \in Player : work'[t][q].phase # "done" => work'[t][q].outcome = "none"
    BY <1>2, <1>3 DEF ClaimsOf, RunInv, Active
  <2> QED BY <2>2, <2>3, <2>4, <2>5 DEF RunInv
<1>7. \A q \in Player : StreakIsKept(t, q)'
  BY <1>2, <1>3, <1>4 DEF ClaimsOf, StreakIsKept, NoNewClaim, Owns, Active
<1> QED BY <1>4, <1>6, <1>7 DEF ClaimsOf

(* A step of one run leaves what the others have in memory. *)
LEMMA OthersKeep ==
  ASSUME TypeOK, NEW t \in Token,
         \/ OwnStep(t) \/ ClaimWave(t) \/ FoldWave(t) \/ Dies(t)
         \/ \E p \in Player : PlayerMoves(t, p)
  PROVE  \A u \in Token \ {t} : run'[u] = run[u] /\ work'[u] = work[u] /\ tally'[u] = tally[u]
<1>1. CASE OwnStep(t)
  BY <1>1, RunTurns
<1>2. CASE ClaimWave(t)
  <2>1. \A u \in Token \ {t} : run'[u] = run[u] /\ work'[u] = work[u]
    BY <1>2, WaveIsClaimed DEF WaveOf
  <2> QED BY <1>2, <2>1 DEF ClaimWave
<1>3. CASE FoldWave(t)
  <2>1. tally' = tally
    BY <1>3 DEF FoldWave
  <2> QED BY <1>3, <2>1, FoldWrites
<1>4. CASE Dies(t)
  <2>1. tally' = tally
    BY <1>4 DEF Dies
  <2> QED BY <1>4, <2>1, DiesWrites
<1>5. ASSUME NEW p \in Player, PlayerMoves(t, p), NEW u \in Token \ {t}
      PROVE  run'[u] = run[u] /\ work'[u] = work[u] /\ tally'[u] = tally[u]
  <2>1. /\ work'[u] \in [Player -> WorkType] /\ work[u] \in [Player -> WorkType]
        /\ \A q \in Player : work'[u][q] = work[u][q]
    BY <1>5, WorkMoves DEF TypeOK
  <2>2. work'[u] = work[u]
    BY <2>1
  <2> QED BY <1>5, <2>2, RunMoves, TallyMoves
<1> QED BY <1>1, <1>2, <1>3, <1>4, <1>5

(* The claims of every run are kept. *)
LEMMA ClaimsPreserved ==
  ASSUME TypeOK, ClaimInv, Kinds
  PROVE  ClaimInv'
<1>1. \A u \in Token : ClaimsOf(u)
  BY DEF ClaimInv, ClaimsOf
<1>2. SUFFICES ASSUME NEW u \in Token PROVE ClaimsOf(u)'
  BY DEF ClaimInv, ClaimsOf
<1>3. CASE Quiet
  BY <1>1, <1>3, ClaimFrame DEF Quiet, NoNewClaim
<1>4. CASE RowOnly
  <2>1. NoNewClaim(u) /\ run' = run /\ work' = work
    BY <1>4, RowOnlyWrites, ConstantsAssumption DEF NoNewClaim
  <2> QED BY <1>1, <2>1, ClaimFrame
<1>5. ASSUME NEW t \in Token,
             \/ OwnStep(t) \/ ClaimWave(t) \/ FoldWave(t) \/ Dies(t)
             \/ \E p \in Player : PlayerMoves(t, p)
      PROVE  ClaimsOf(u)'
  <2>1. ClaimsOf(t)' /\ \A v \in Token \ {t} : NoNewClaim(v)
    BY <1>1, <1>5, OwnStepClaims, ClaimWaveClaims, FoldWaveClaims, DiesClaims, PlayerMovesClaims
  <2> QED BY <1>1, <1>5, <2>1, OthersKeep, ClaimFrame
<1> QED BY <1>3, <1>4, <1>5 DEF Kinds

-----------------------------------------------------------------------------
(* Counts.                                                                 *)

CountsOf(u) == SharesFit(u) /\ TallyAgrees(u)

(* What another run does not touch counts as before. *)
LEMMA CountFrame ==
  ASSUME NEW u \in Token, CountsOf(u), run'[u] = run[u], work'[u] = work[u], tally'[u] = tally[u]
  PROVE  CountsOf(u)'
<1>1. Share(u)' = Share(u)
  BY DEF Share
<1>2. \A k : Outcomes(u, k)' = Outcomes(u, k)
  BY DEF Outcomes
<1> QED BY <1>1, <1>2 DEF CountsOf, SharesFit, TallyAgrees, MatchBudget, EnqueueBudget

(* What the refresh of a player may still count. *)
LEMMA ShareTyped ==
  ASSUME TypeOK, NEW t \in Token, NEW p \in Player
  PROVE  /\ Share(t)[p] \in Nat
         /\ Share(t)[p] = IF work[t][p].phase = "assigned" THEN work[t][p].budget ELSE work[t][p].found
<1>1. work[t][p] \in WorkType
  BY DEF TypeOK
<1>2. work[t][p].budget \in Nat /\ work[t][p].found \in Nat
  BY <1>1, ConstantsAssumption DEF WorkType
<1> QED BY <1>2 DEF Share

(* The useful budget is within both budgets. *)
LEMMA BudgetsTyped ==
  ASSUME TypeOK, NEW t \in Token
  PROVE  /\ MatchBudget(t) \in Int /\ EnqueueBudget(t) \in Int /\ UsefulBudget(t) \in Int
         /\ UsefulBudget(t) <= MatchBudget(t) /\ UsefulBudget(t) <= EnqueueBudget(t)
         /\ SumFunctionOnSet(Share(t), Player) \in Nat
<1>1. MatchBudget(t) \in Int /\ EnqueueBudget(t) \in Int
  <2>1. run[t].count \in CountType
    BY DEF TypeOK, RunType
  <2> QED BY <2>1, ConstantsAssumption DEF MatchBudget, EnqueueBudget, CountType
<1>2. SumFunctionOnSet(Share(t), Player) \in Nat
  BY ShareTyped, SumTyped, ConstantsAssumption
<1> QED BY <1>1, <1>2, LeastBounds DEF UsefulBudget

(* A step that counts nothing, and after which no more is left to count. *)
LEMMA SharesShrink ==
  ASSUME TypeOK, TypeOK', NEW t \in Token, SharesFit(t),
         run'[t].count.claimed = run[t].count.claimed,
         run'[t].count.discovered = run[t].count.discovered,
         run'[t].count.enqueued = run[t].count.enqueued,
         \A p \in Player : /\ Share(t)'[p] <= Share(t)[p]
                           /\ work'[t][p].enqueued <= work'[t][p].found
                           /\ work'[t][p].phase = "assigned" => work'[t][p].found = 0
  PROVE  SharesFit(t)'
<1>1. \A p \in Player : Share(t)[p] \in Nat /\ Share(t)'[p] \in Nat
  <2>1. \A p \in Player : Share(t)'[p] \in Nat
    <3> TAKE p \in Player
    <3>1. work'[t][p] \in WorkType
      BY DEF TypeOK
    <3>2. work'[t][p].budget \in Nat /\ work'[t][p].found \in Nat
      BY <3>1, ConstantsAssumption DEF WorkType
    <3> QED BY <3>2 DEF Share
  <2> QED BY <2>1, ShareTyped
<1>2. SumFunctionOnSet(Share(t)', Player) <= SumFunctionOnSet(Share(t), Player)
  <2> DEFINE f == Share(t)
             g == Share(t)'
  <2>1. \A p \in Player : f[p] \in Nat /\ g[p] \in Nat /\ g[p] <= f[p]
    BY <1>1
  <2> HIDE DEF f, g
  <2>2. SumFunctionOnSet(g, Player) <= SumFunctionOnSet(f, Player)
    BY <2>1, SumGrows, ConstantsAssumption
  <2> QED BY <2>2 DEF f, g
<1>3. SumFunctionOnSet(Share(t)', Player) \in Nat
  BY <1>1, SumTyped, ConstantsAssumption
<1>4. /\ MatchBudget(t)' = MatchBudget(t) /\ EnqueueBudget(t)' = EnqueueBudget(t)
      /\ run'[t].count.claimed <= BatchLimit[t]
  BY DEF SharesFit, MatchBudget, EnqueueBudget
<1>5. \A a, b \in Nat : \A c \in Int : a <= b /\ b <= c => a <= c
  OBVIOUS
<1>6. /\ SumFunctionOnSet(Share(t)', Player) <= MatchBudget(t)
      /\ SumFunctionOnSet(Share(t)', Player) <= EnqueueBudget(t)
  BY <1>2, <1>3, <1>5, BudgetsTyped DEF SharesFit
<1> QED BY <1>4, <1>6 DEF SharesFit

(* Refreshes without an outcome leave nothing for the fold to count. *)
LEMMA NoOutcomes ==
  ASSUME TypeOK', NEW t \in Token, \A p \in Player : work'[t][p].outcome = "none"
  PROVE  \A k \in {"success", "failure", "ownership_lost"} :
           Outcomes(t, k)' = {} /\ Cardinality(Outcomes(t, k)') = 0
<1>1. run'[t].wave \subseteq Player
  BY DEF TypeOK, RunType
<1>2. ASSUME NEW k \in {"success", "failure", "ownership_lost"} PROVE Outcomes(t, k)' = {}
  BY <1>1 DEF Outcomes
<1> QED BY <1>2, FS_EmptySet

(* And players that nobody refreshes have nothing to count. *)
LEMMA NoSharesLeft ==
  ASSUME NEW t \in Token, \A p \in Player : work'[t][p] = NoWork
  PROVE  SumFunctionOnSet(Share(t)', Player) = 0
<1>1. \A p \in Player : Share(t)'[p] = 0
  BY NoWorkTyped DEF Share
<1> QED BY <1>1, SumOfZeros, ConstantsAssumption

(* A run that goes on by itself counts nothing. *)
LEMMA OwnStepCounts ==
  ASSUME TypeOK, TypeOK', NEW t \in Token, CountsOf(t), OwnStep(t)
  PROVE  CountsOf(t)'
<1>1. /\ UNCHANGED <<work, tally>> /\ Turn(t) /\ run'[t].wave = run[t].wave
      /\ \E b \in BOOLEAN : run'[t].count = [run[t].count EXCEPT !.exhausted = b]
  BY RunTurns
<1> DEFINE c == run[t].count
           d == run'[t].count
<1>2. c \in CountType
  BY DEF TypeOK, RunType
<1>3. /\ d.claimed = c.claimed /\ d.discovered = c.discovered /\ d.enqueued = c.enqueued
      /\ d.succeeded = c.succeeded /\ d.failed = c.failed /\ d.lost = c.lost
  BY <1>1, <1>2 DEF CountType
<1> HIDE DEF c, d
<1>4. SharesFit(t)'
  <2>1. Share(t)' = Share(t)
    BY <1>1 DEF Share
  <2>2. MatchBudget(t)' = MatchBudget(t) /\ EnqueueBudget(t)' = EnqueueBudget(t)
    BY <1>3 DEF MatchBudget, EnqueueBudget, c, d
  <2> QED BY <1>1, <1>3, <2>1, <2>2 DEF CountsOf, SharesFit, c, d
<1>5. TallyAgrees(t)'
  <2>1. \A k : Outcomes(t, k)' = Outcomes(t, k)
    BY <1>1 DEF Outcomes
  <2>2. run'[t].pc \in {"none", "loop", "wave", "ensure", "finalize", "returned"}
          => run[t].pc \in {"none", "loop", "wave", "ensure", "finalize"}
    BY <1>1 DEF Turn
  <2>3. run'[t].pc = "returned" => run'[t].status = Terminal(c)
    BY <1>1 DEF Turn, c
  <2>4. c.failed \in Nat /\ c.lost \in Nat
    BY <1>2 DEF CountType
  <2>5. Terminal(c) = "COMPLETED" => c.failed = 0 /\ c.lost = 0
    BY <2>4 DEF Terminal
  <2> QED BY <1>1, <1>3, <2>1, <2>2, <2>3, <2>5 DEF CountsOf, TallyAgrees, c, d
<1> QED BY <1>4, <1>5 DEF CountsOf

(* The shares of a wave fit into what is left of the budgets. *)
LEMMA ClaimWaveCounts ==
  ASSUME TypeOK, TypeOK', NEW t \in Token, ClaimsOf(t), CountsOf(t), ClaimWave(t)
  PROVE  CountsOf(t)'
<1>1. PICK S \in SUBSET Player : \E b \in [S -> 0..MatchesPerPlayer] : WaveOf(t, S, b)
  BY WaveIsClaimed
<1>2. PICK b \in [S -> 0..MatchesPerPlayer] : WaveOf(t, S, b)
  BY <1>1
<1>3. /\ run[t].pc = "loop" /\ run[t].wave = {} /\ \A p \in Player : work[t][p] = NoWork
      /\ tally' = tally
  BY DEF ClaimsOf, RunInv, ClaimWave, MayClaim
<1> DEFINE c == run[t].count
           d == run'[t].count
<1>4. c \in CountType /\ IsFiniteSet(S) /\ Cardinality(S) \in Nat
  BY FoldTyped DEF TypeOK, RunType
<1>5. /\ d.claimed = c.claimed + Cardinality(S)
      /\ d.discovered = c.discovered /\ d.enqueued = c.enqueued
      /\ d.succeeded = c.succeeded /\ d.failed = c.failed /\ d.lost = c.lost
  <2>1. d = [c EXCEPT !.claimed = c.claimed + Cardinality(S)]
    BY <1>2 DEF WaveOf
  <2> HIDE DEF d, c
  <2> QED BY <1>4, <2>1 DEF CountType
<1>6. ASSUME NEW p \in S
      PROVE  /\ work'[t][p].phase = "assigned" /\ work'[t][p].outcome = "none"
             /\ work'[t][p].budget = b[p]
             /\ work'[t][p].found = 0 /\ work'[t][p].enqueued = 0
  <2>1. work'[t][p] = [NoWork EXCEPT !.phase = "assigned", !.budget = b[p],
                                     !.streak = row[p].streak]
    BY <1>2 DEF WaveOf
  <2> QED BY <2>1 DEF NoWork
<1>7. \A p \in Player \ S : work'[t][p] = NoWork
  BY <1>2, <1>3 DEF WaveOf
<1>8. SumFunctionOnSet(Share(t)', Player) = SumFunctionOnSet(b, S)
  <2> DEFINE f == Share(t)'
  <2>1. \A p \in S : b[p] \in Nat /\ f[p] = b[p]
    BY <1>2, <1>6, ConstantsAssumption DEF Share
  <2>2. \A p \in Player \ S : f[p] = 0
    BY <1>7, NoWorkTyped DEF Share
  <2>3. \A p \in Player : f[p] \in Nat
    BY <2>1, <2>2
  <2> HIDE DEF f
  <2>4. SumFunctionOnSet(f, Player) = SumFunctionOnSet(f, S)
    BY <2>2, <2>3, SumOfSupport, ConstantsAssumption
  <2>5. SumFunctionOnSet(f, S) = SumFunctionOnSet(b, S)
    BY <1>4, <2>1, SumSame
  <2> QED BY <2>4, <2>5 DEF f
<1>9. SharesFit(t)'
  <2>1. SumFunctionOnSet(b, S) \in Nat /\ SumFunctionOnSet(b, S) <= UsefulBudget(t)
        /\ Cardinality(S) <= RemainingBatch(t)
    <3>1. \A p \in S : b[p] \in Nat
      BY ConstantsAssumption
    <3>2. SumFunctionOnSet(b, S) \in Nat
      BY <1>4, <3>1, SumTyped
    <3> QED BY <1>2, <3>2 DEF WaveOf
  <2>2. SumFunctionOnSet(b, S) <= MatchBudget(t) /\ SumFunctionOnSet(b, S) <= EnqueueBudget(t)
    <3>1. \A a \in Nat : \A m, n \in Int : a <= m /\ m <= n => a <= n
      OBVIOUS
    <3> QED BY <2>1, <3>1, BudgetsTyped
  <2>3. MatchBudget(t)' = MatchBudget(t) /\ EnqueueBudget(t)' = EnqueueBudget(t)
    BY <1>5 DEF MatchBudget, EnqueueBudget
  <2>4. d.claimed <= BatchLimit[t]
    <3>1. BatchLimit[t] \in Nat /\ c.claimed \in Nat
      BY <1>4, ConstantsAssumption DEF CountType
    <3>2. Cardinality(S) <= BatchLimit[t] - c.claimed
      BY <2>1 DEF RemainingBatch
    <3> HIDE DEF c, d
    <3> QED BY <1>4, <1>5, <3>1, <3>2
  <2>5. \A p \in Player : /\ work'[t][p].enqueued <= work'[t][p].found
                          /\ work'[t][p].phase = "assigned" => work'[t][p].found = 0
    BY <1>6, <1>7, NoWorkTyped
  <2> QED BY <1>8, <2>2, <2>3, <2>4, <2>5 DEF SharesFit
<1>10. TallyAgrees(t)'
  <2>1. \A p \in Player : work'[t][p].outcome = "none"
    BY <1>6, <1>7, NoWorkTyped
  <2>2. \A k \in {"success", "failure", "ownership_lost"} :
          Cardinality(Outcomes(t, k)') = 0 /\ Cardinality(Outcomes(t, k)) = 0
    <3>1. \A k : Outcomes(t, k) = {}
      BY <1>3 DEF Outcomes
    <3> QED BY <2>1, <3>1, NoOutcomes, FS_EmptySet
  <2>3. run'[t].pc # "returned"
    BY <1>2 DEF WaveOf
  <2> QED BY <1>3, <1>5, <2>2, <2>3 DEF CountsOf, TallyAgrees
<1> QED BY <1>9, <1>10 DEF CountsOf

(* What the fold counts was within the shares. *)
LEMMA FoldWaveCounts ==
  ASSUME TypeOK, TypeOK', NEW t \in Token, ClaimsOf(t), CountsOf(t), FoldWave(t)
  PROVE  CountsOf(t)'
<1> DEFINE c == run[t].count
           d == Counted(t)
           won == Outcomes(t, "success")
           bad == Outcomes(t, "failure")
           gone == Outcomes(t, "ownership_lost")
           found == FoundBy(t, won \cup bad)
           enqueued == EnqueuedBy(t, won \cup bad)
<1>1. /\ run'[t].pc = "loop" /\ run'[t].count = d /\ d \in CountType
      /\ \A p \in Player : work'[t][p] = NoWork
  BY FoldWrites DEF ClaimsOf, RunInv
<1>2. /\ tally' = tally /\ run[t].pc = "wave"
      /\ \A p \in run[t].wave : work[t][p].phase = "done"
  BY DEF FoldWave
<1>3. /\ c \in CountType /\ run[t].wave \subseteq Player
      /\ \A p \in Player : work[t][p] \in WorkType
  BY DEF TypeOK, RunType
<1>4. /\ won \in SUBSET Player /\ bad \in SUBSET Player /\ gone \in SUBSET Player
      /\ won \cup bad \in SUBSET Player
      /\ \A p \in won \cup bad : work[t][p].phase = "done"
  BY <1>2, <1>3 DEF Outcomes
<1>5. /\ Cardinality(won) \in Nat /\ Cardinality(bad) \in Nat /\ Cardinality(gone) \in Nat
      /\ found \in Nat /\ enqueued \in Nat
  BY <1>4, FoldTyped
<1>6. /\ d.claimed = c.claimed /\ d.discovered = c.discovered + found
      /\ d.enqueued = c.enqueued + enqueued
      /\ d.succeeded = c.succeeded + Cardinality(won) /\ d.failed = c.failed + Cardinality(bad)
      /\ d.lost = c.lost + Cardinality(gone)
  <2> HIDE DEF won, bad, gone, found, enqueued, c
  <2> QED BY <1>3 DEF Counted, CountType, won, bad, gone, found, enqueued, c
<1> HIDE DEF c, d, found, enqueued, won, bad, gone
<1>7. found <= SumFunctionOnSet(Share(t), Player) /\ enqueued <= SumFunctionOnSet(Share(t), Player)
  <2> DEFINE f == [p \in Player |-> work[t][p].found]
             e == [p \in Player |-> work[t][p].enqueued]
             s == Share(t)
  <2>1. \A p \in Player : s[p] \in Nat
    BY ShareTyped
  <2>2. ASSUME NEW p \in won \cup bad
        PROVE  f[p] \in Nat /\ f[p] <= s[p] /\ e[p] \in Nat /\ e[p] <= s[p]
    <3>1. p \in Player /\ work[t][p].phase = "done"
      BY <1>4
    <3>2. /\ work[t][p].found \in Nat /\ work[t][p].enqueued \in Nat
          /\ work[t][p].enqueued <= work[t][p].found
      <4>1. work[t][p] \in WorkType /\ MatchesPerPlayer \in Nat
        BY <1>3, <3>1, ConstantsAssumption
      <4>2. work[t][p].found \in Nat /\ work[t][p].enqueued \in Nat
        BY <4>1 DEF WorkType
      <4>3. \A q \in Player : work[t][q].enqueued <= work[t][q].found
        BY DEF CountsOf, SharesFit
      <4> QED BY <3>1, <4>2, <4>3
    <3>3. s[p] = work[t][p].found
      BY <3>1, ShareTyped
    <3> HIDE DEF s
    <3> QED BY <3>1, <3>2, <3>3
  <2> HIDE DEF f, e, s
  <2>3. /\ SumFunctionOnSet(f, won \cup bad) <= SumFunctionOnSet(s, Player)
        /\ SumFunctionOnSet(e, won \cup bad) <= SumFunctionOnSet(s, Player)
    BY <1>4, <2>1, <2>2, SumGrows, ConstantsAssumption
  <2> QED BY <2>3 DEF f, e, s, found, enqueued, FoundBy, EnqueuedBy
<1>8. SharesFit(t)'
  <2>1. found <= MatchBudget(t) /\ enqueued <= EnqueueBudget(t)
    <3>1. \A a, b \in Nat : \A n \in Int : a <= b /\ b <= n => a <= n
      OBVIOUS
    <3> QED BY <1>5, <1>7, <3>1, BudgetsTyped DEF CountsOf, SharesFit
  <2>2. found <= MaxMatchIds - c.discovered /\ enqueued <= MaxEnqueue - c.enqueued
    BY <2>1 DEF MatchBudget, EnqueueBudget, c
  <2>3. c.discovered \in Nat /\ c.enqueued \in Nat /\ MaxMatchIds \in Nat /\ MaxEnqueue \in Nat
    BY <1>3, ConstantsAssumption DEF CountType
  <2>4. 0 <= MaxMatchIds - d.discovered /\ 0 <= MaxEnqueue - d.enqueued
    BY <1>5, <1>6, <2>2, <2>3
  <2>5. SumFunctionOnSet(Share(t)', Player) = 0
    BY <1>1, NoSharesLeft
  <2>6. 0 <= MatchBudget(t)' /\ 0 <= EnqueueBudget(t)'
    BY <1>1, <2>4 DEF MatchBudget, EnqueueBudget
  <2>7. run'[t].count.claimed <= BatchLimit[t]
    BY <1>1, <1>6 DEF CountsOf, SharesFit, c
  <2> QED BY <1>1, <2>5, <2>6, <2>7, NoWorkTyped DEF SharesFit
<1>9. TallyAgrees(t)'
  <2>1. \A k \in {"success", "failure", "ownership_lost"} : Cardinality(Outcomes(t, k)') = 0
    BY <1>1, NoWorkTyped, NoOutcomes
  <2>2. /\ tally[t].succeeded = d.succeeded /\ tally[t].failed = d.failed /\ tally[t].lost = d.lost
    BY <1>2, <1>6 DEF CountsOf, TallyAgrees, c, won, bad, gone
  <2>3. d.succeeded \in Nat /\ d.failed \in Nat /\ d.lost \in Nat
    BY <1>1 DEF CountType
  <2> QED BY <1>1, <1>2, <2>1, <2>2, <2>3 DEF TallyAgrees
<1> QED BY <1>8, <1>9 DEF CountsOf

(* A process that dies counts nothing any more. *)
LEMMA DiesCounts ==
  ASSUME TypeOK, TypeOK', NEW t \in Token, ClaimsOf(t), CountsOf(t), Dies(t)
  PROVE  CountsOf(t)'
<1>1. \A p \in Player : work'[t][p] = NoWork
  BY DiesWrites
<1>2. tally' = tally
  BY DEF Dies
<1>3. SumFunctionOnSet(Share(t)', Player) = 0
  BY <1>1, NoSharesLeft
<1>4. CASE run'[t] = run[t] /\ run[t].pc \in Over
  <2>1. /\ 0 <= MatchBudget(t)' /\ 0 <= EnqueueBudget(t)'
        /\ run'[t].count.claimed <= BatchLimit[t]
    <3>1. MatchBudget(t)' = MatchBudget(t) /\ EnqueueBudget(t)' = EnqueueBudget(t)
      BY <1>4 DEF MatchBudget, EnqueueBudget
    <3>2. \A a \in Nat : \A n \in Int : a <= n => 0 <= n
      OBVIOUS
    <3> QED BY <1>4, <3>1, <3>2, BudgetsTyped DEF CountsOf, SharesFit
  <2>2. run[t].pc # "wave"
    BY <1>4 DEF Over
  <2>3. run[t].pc \in {"none", "returned"} => \A k : Outcomes(t, k) = {} /\ Outcomes(t, k)' = {}
    BY <1>4 DEF ClaimsOf, RunInv, Outcomes
  <2>4. TallyAgrees(t)'
    BY <1>2, <1>4, <2>3 DEF CountsOf, TallyAgrees, Over
  <2> QED BY <1>1, <1>3, <2>1, <2>4, NoWorkTyped DEF CountsOf, SharesFit
<1>5. CASE run'[t].pc = "dead" /\ run'[t].count = Zero
  <2>1. /\ 0 <= MatchBudget(t)' /\ 0 <= EnqueueBudget(t)'
        /\ run'[t].count.claimed <= BatchLimit[t]
    BY <1>5, ConstantsAssumption DEF Zero, MatchBudget, EnqueueBudget
  <2> QED BY <1>1, <1>3, <1>5, <2>1, NoWorkTyped DEF CountsOf, SharesFit, TallyAgrees
<1> QED BY <1>4, <1>5, DiesWrites

(* One more outcome, one more to count. *)
LEMMA OutcomeAdded ==
  ASSUME TypeOK, NEW t \in Token, NEW p \in Player, ClaimsOf(t), PlayerMoves(t, p),
         NEW k \in {"success", "failure", "ownership_lost"}
  PROVE  /\ Cardinality(Outcomes(t, k)) \in Nat
         /\ Cardinality(Outcomes(t, k)')
              = Cardinality(Outcomes(t, k))
                  + (IF work'[t][p].phase = "done" /\ work'[t][p].outcome = k THEN 1 ELSE 0)
<1>1. /\ \A q \in Player \ {p} : work'[t][q] = work[t][q]
      /\ work[t][p].phase \in Active /\ run'[t].wave = run[t].wave
      /\ work'[t][p].outcome = work[t][p].outcome \/ work'[t][p].phase = "done"
  BY WorkMoves, RunMoves
<1>2. p \in run[t].wave /\ work[t][p].outcome = "none" /\ run[t].wave \subseteq Player
  BY <1>1, NoWorkTyped DEF ClaimsOf, RunInv, Active, TypeOK, RunType
<1>3. p \notin Outcomes(t, k) /\ Outcomes(t, k) \in SUBSET Player
  BY <1>2 DEF Outcomes
<1>4. IsFiniteSet(Outcomes(t, k)) /\ Cardinality(Outcomes(t, k)) \in Nat
  BY <1>3, FoldTyped
<1>5. CASE work'[t][p].phase = "done" /\ work'[t][p].outcome = k
  <2>1. Outcomes(t, k)' = Outcomes(t, k) \cup {p}
    BY <1>1, <1>2, <1>5 DEF Outcomes
  <2> QED BY <1>3, <1>4, <1>5, <2>1, FS_AddElement
<1>6. CASE ~(work'[t][p].phase = "done" /\ work'[t][p].outcome = k)
  <2>1. work'[t][p].outcome # k
    BY <1>1, <1>2, <1>6
  <2>2. Outcomes(t, k)' = Outcomes(t, k)
    BY <1>1, <1>2, <2>1 DEF Outcomes
  <2> QED BY <1>4, <1>6, <2>2
<1> QED BY <1>5, <1>6

(* A refresh counts within its share, and its settlement once. *)
LEMMA PlayerMovesCounts ==
  ASSUME TypeOK, TypeOK', NEW t \in Token, NEW p \in Player, ClaimsOf(t), CountsOf(t),
         PlayerMoves(t, p)
  PROVE  CountsOf(t)'
<1>1. /\ run'[t].count = run[t].count /\ run'[t].status = run[t].status
      /\ run'[t].wave = run[t].wave
      /\ run'[t].pc = run[t].pc \/ (run[t].pc = "wave" /\ run'[t].pc = "catch")
  BY RunMoves
<1>2. /\ \A q \in Player \ {p} : work'[t][q] = work[t][q]
      /\ work[t][p].phase \in Active /\ work'[t][p].phase # "assigned"
  BY WorkMoves DEF Active
<1>3. /\ work[t][p].enqueued <= work[t][p].found
      /\ work[t][p].phase = "assigned" => work[t][p].found = 0
      /\ work[t][p] \in WorkType
  BY DEF CountsOf, SharesFit, TypeOK
<1>4. /\ work[t][p].found \in Nat /\ work[t][p].budget \in Nat
  BY <1>3, ConstantsAssumption DEF WorkType
<1>5. /\ work'[t][p].enqueued <= work'[t][p].found
      /\ work'[t][p].found \in Nat /\ Share(t)'[p] <= Share(t)[p]
  <2>1. work'[t][p].found \in Nat
    BY ConstantsAssumption DEF TypeOK, WorkType
  <2>2. /\ Share(t)[p] = IF work[t][p].phase = "assigned" THEN work[t][p].budget ELSE work[t][p].found
        /\ Share(t)'[p] = work'[t][p].found
    BY <1>2 DEF Share
  <2>3. CASE work'[t][p].found = work[t][p].found /\ work'[t][p].enqueued = work[t][p].enqueued
    BY <1>3, <1>4, <2>1, <2>2, <2>3
  <2>4. CASE /\ work[t][p].phase = "assigned" /\ work'[t][p].found <= work[t][p].budget
             /\ work'[t][p].enqueued <= work'[t][p].found
    BY <1>4, <2>1, <2>2, <2>4
  <2> QED BY <2>3, <2>4, WorkMoves
<1>6. SharesFit(t)'
  <2>1. ASSUME NEW q \in Player
        PROVE  /\ Share(t)'[q] <= Share(t)[q]
               /\ work'[t][q].enqueued <= work'[t][q].found
               /\ work'[t][q].phase = "assigned" => work'[t][q].found = 0
    <3>1. CASE q = p
      BY <1>2, <1>5, <3>1
    <3>2. CASE q # p
      <4>1. Share(t)'[q] = Share(t)[q] /\ Share(t)[q] \in Nat
        BY <1>2, <3>2, ShareTyped DEF Share
      <4>2. /\ work[t][q].enqueued <= work[t][q].found
            /\ work[t][q].phase = "assigned" => work[t][q].found = 0
        BY DEF CountsOf, SharesFit
      <4> QED BY <1>2, <3>2, <4>1, <4>2
    <3> QED BY <3>1, <3>2
  <2> QED BY <1>1, <2>1, SharesShrink DEF CountsOf
<1>7. TallyAgrees(t)'
  <2>1. run'[t].pc \in {"none", "loop", "wave", "ensure", "finalize", "returned"}
          => run[t].pc = "wave" /\ run'[t].pc = "wave"
    BY <1>1, <1>2, NoWorkTyped DEF ClaimsOf, RunInv, Active
  <2>2. run[t].count.succeeded \in Nat /\ run[t].count.failed \in Nat /\ run[t].count.lost \in Nat
    BY DEF TypeOK, RunType, CountType
  <2> DEFINE one(o) == IF work'[t][p].phase = "done" /\ work'[t][p].outcome = o THEN 1 ELSE 0
             won == Cardinality(Outcomes(t, "success"))
             bad == Cardinality(Outcomes(t, "failure"))
             gone == Cardinality(Outcomes(t, "ownership_lost"))
  <2>3. /\ won \in Nat /\ Cardinality(Outcomes(t, "success")') = won + one("success")
        /\ bad \in Nat /\ Cardinality(Outcomes(t, "failure")') = bad + one("failure")
        /\ gone \in Nat /\ Cardinality(Outcomes(t, "ownership_lost")') = gone + one("ownership_lost")
    BY OutcomeAdded
  <2>4. /\ tally'[t].succeeded = tally[t].succeeded + one("success")
        /\ tally'[t].failed = tally[t].failed + one("failure")
        /\ tally'[t].lost = tally[t].lost + one("ownership_lost")
    BY TallyMoves
  <2>5. one("success") \in Nat /\ one("failure") \in Nat /\ one("ownership_lost") \in Nat
    OBVIOUS
  <2>6. run[t].pc = "wave" => /\ tally[t].succeeded = run[t].count.succeeded + won
                              /\ tally[t].failed = run[t].count.failed + bad
                              /\ tally[t].lost = run[t].count.lost + gone
    BY DEF CountsOf, TallyAgrees
  <2> HIDE DEF one, won, bad, gone
  <2>7. run[t].pc = "wave" =>
          /\ tally'[t].succeeded = run'[t].count.succeeded + Cardinality(Outcomes(t, "success")')
          /\ tally'[t].failed = run'[t].count.failed + Cardinality(Outcomes(t, "failure")')
          /\ tally'[t].lost = run'[t].count.lost + Cardinality(Outcomes(t, "ownership_lost")')
    BY <1>1, <2>2, <2>3, <2>4, <2>5, <2>6
  <2> QED BY <2>1, <2>7 DEF TallyAgrees
<1> QED BY <1>6, <1>7 DEF CountsOf

(* The counts of every run are kept. *)
LEMMA CountsPreserved ==
  ASSUME TypeOK, TypeOK', ClaimInv, CountInv, Kinds
  PROVE  CountInv'
<1>1. \A u \in Token : ClaimsOf(u) /\ CountsOf(u)
  BY DEF ClaimInv, ClaimsOf, CountInv, CountsOf
<1>2. SUFFICES ASSUME NEW u \in Token PROVE CountsOf(u)'
  BY DEF CountInv, CountsOf
<1>3. CASE Quiet \/ RowOnly
  BY <1>1, <1>3, RowOnlyWrites, CountFrame DEF Quiet
<1>4. ASSUME NEW t \in Token,
             \/ OwnStep(t) \/ ClaimWave(t) \/ FoldWave(t) \/ Dies(t)
             \/ \E p \in Player : PlayerMoves(t, p)
      PROVE  CountsOf(u)'
  <2>1. CASE u # t
    BY <1>1, <1>4, <2>1, OthersKeep, CountFrame
  <2>2. CASE u = t
    BY <1>1, <1>4, <2>2, OwnStepCounts, ClaimWaveCounts, FoldWaveCounts, DiesCounts,
       PlayerMovesCounts
  <2> QED BY <2>1, <2>2
<1> QED BY <1>3, <1>4 DEF Kinds

-----------------------------------------------------------------------------
(* The inductive invariant, and what follows from it.                      *)

(* The invariant holds at first, *)
LEMMA InitIInv ==
  ASSUME SchedulerInit
  PROVE  IInv
<1>1. /\ \A p \in Player : row[p] = [status |-> "ACTIVE", due |-> TRUE, owner |-> None,
                                     expired |-> FALSE, failures |-> 0, streak |-> 0]
      /\ \A t \in Token : /\ run[t] = NoRun /\ tick[t] = "idle"
                          /\ tally[t] = [succeeded |-> 0, failed |-> 0, lost |-> 0]
                          /\ \A p \in Player : work[t][p] = NoWork
      /\ state = [owner |-> None, expired |-> FALSE, lastRun |-> None, cooldown |-> FALSE]
  BY DEF SchedulerInit, Init
<1>2. None \notin Token /\ MaxMatchIds \in Nat /\ MaxEnqueue \in Nat
      /\ \A t \in Token : BatchLimit[t] \in Nat
  BY ConstantsAssumption
<1>3. TypeOK
  <2>1. row \in [Player -> RowType]
    <3>1. [status |-> "ACTIVE", due |-> TRUE, owner |-> None, expired |-> FALSE, failures |-> 0,
           streak |-> 0] \in RowType
      BY ConstantsAssumption DEF RowType
    <3> QED BY <3>1 DEF SchedulerInit, Init
  <2>2. run \in [Token -> RunType] /\ work \in [Token -> [Player -> WorkType]]
    BY NoRunTyped, NoWorkTyped DEF SchedulerInit, Init
  <2>3. state \in StateType /\ tick \in [Token -> TickPc]
    BY DEF SchedulerInit, StateType, TickPc
  <2>4. /\ cooling \in BOOLEAN /\ uncounted \in [Token -> BOOLEAN]
        /\ tally \in [Token -> [succeeded : Nat, failed : Nat, lost : Nat]]
    BY DEF SchedulerInit, Init
  <2> QED BY <2>1, <2>2, <2>3, <2>4 DEF TypeOK
<1>4. ClaimInv
  <2>1. \A t \in Token, p \in Player : ~Owns(t, p)
    BY <1>1, <1>2 DEF Owns
  <2> QED BY <1>1, <2>1, NoRunTyped, NoWorkTyped DEF ClaimInv, RunInv, StreakIsKept
<1>5. CountInv
  <2> SUFFICES ASSUME NEW t \in Token PROVE SharesFit(t) /\ TallyAgrees(t)
    BY DEF CountInv
  <2>1. run[t].pc = "none" /\ run[t].count = Zero
    BY <1>1, NoRunTyped
  <2>2. SumFunctionOnSet(Share(t), Player) = 0
    <3>1. \A p \in Player : Share(t)[p] = 0
      BY <1>1, NoWorkTyped DEF Share
    <3> QED BY <3>1, SumOfZeros, ConstantsAssumption
  <2>3. SharesFit(t)
    BY <1>1, <1>2, <2>1, <2>2, NoWorkTyped DEF SharesFit, MatchBudget, EnqueueBudget, Zero
  <2>4. \A k \in {"success", "failure", "ownership_lost"} : Cardinality(Outcomes(t, k)) = 0
    <3>1. \A k : Outcomes(t, k) = {}
      BY <1>1, NoRunTyped DEF Outcomes
    <3> QED BY <3>1, FS_EmptySet
  <2>5. /\ tally[t].succeeded = 0 /\ tally[t].failed = 0 /\ tally[t].lost = 0
        /\ Zero.succeeded = 0 /\ Zero.failed = 0 /\ Zero.lost = 0
    BY <1>1 DEF Zero
  <2>6. TallyAgrees(t)
    BY <2>1, <2>4, <2>5 DEF TallyAgrees
  <2> QED BY <2>3, <2>6
<1>6. TickInv
  BY <1>1, NoRunTyped DEF TickInv, TicksInOrder, RunHasTick, Over
<1> QED BY <1>3, <1>4, <1>5, <1>6 DEF IInv

(* and every step keeps it. *)
LEMMA NextIInv ==
  ASSUME IInv, [SchedulerNext]_allVars
  PROVE  IInv'
<1>1. TypeOK /\ ClaimInv /\ CountInv /\ TickInv
  BY DEF IInv
<1>2. Kinds /\ state' \in StateType /\ tick' \in [Token -> TickPc]
  BY <1>1, StepsHaveKinds, SchedulerMoves
<1>3. TypeOK'
  BY <1>1, <1>2, TypePreserved
<1> QED BY <1>1, <1>2, <1>3, ClaimsPreserved, CountsPreserved, TicksPreserved DEF IInv

(* The invariant of all that follows: what the runs claim, what they may still
   count, what they have counted, and the order of the ticks.              *)
THEOREM Inductive == SchedulerSpec => []IInv
<1>1. SchedulerInit => IInv
  BY InitIInv
<1>2. IInv /\ [SchedulerNext]_allVars => IInv'
  BY NextIInv
<1> QED BY <1>1, <1>2, PTL DEF SchedulerSpec

(* Every variable has its type. *)
THEOREM TypeCorrect == SchedulerSpec => []TypeOK
<1>1. IInv => TypeOK
  BY DEF IInv
<1> QED BY <1>1, Inductive, PTL

(* A run that has ended, with a result or by an exception, keeps no player:
   ensureNoUnreleasedLeases and the release in the catch come before.      *)
THEOREM NoLeaseLeft == SchedulerSpec => []EndedRunsHoldNoLease
<1>1. IInv => EndedRunsHoldNoLease
  BY DEF IInv, ClaimInv, RunInv, EndedRunsHoldNoLease
<1> QED BY <1>1, Inductive, PTL

(* The counters of a run that returned are what it did, however many workers
   settled, lost or skipped their players meanwhile, and stay within the
   budgets of the run.                                                     *)
THEOREM CountsAreTrue == SchedulerSpec => []RunsCountTruly
<1>1. ASSUME IInv PROVE RunRowsTellTheTruth
  <2>1. TypeOK /\ ClaimInv /\ CountInv
    BY <1>1 DEF IInv
  <2> SUFFICES ASSUME NEW t \in Token, run[t].pc = "returned"
               PROVE  LET c == run[t].count IN
                        /\ c.succeeded = tally[t].succeeded /\ c.failed = tally[t].failed
                        /\ c.lost = tally[t].lost
                        /\ run[t].status = "COMPLETED" => tally[t].failed = 0 /\ tally[t].lost = 0
    BY DEF RunRowsTellTheTruth
  <2>2. \A k \in {"success", "failure", "ownership_lost"} : Cardinality(Outcomes(t, k)) = 0
    <3>1. \A k : Outcomes(t, k) = {}
      BY <2>1 DEF ClaimInv, RunInv, Outcomes
    <3> QED BY <3>1, FS_EmptySet
  <2> DEFINE c == run[t].count
  <2>3. c.succeeded \in Nat /\ c.failed \in Nat /\ c.lost \in Nat
    BY <2>1 DEF TypeOK, RunType, CountType
  <2>4. /\ tally[t].succeeded = c.succeeded + 0 /\ tally[t].failed = c.failed + 0
        /\ tally[t].lost = c.lost + 0
        /\ run[t].status = "COMPLETED" => c.failed = 0 /\ c.lost = 0
    BY <2>1, <2>2 DEF CountInv, TallyAgrees
  <2> QED BY <2>3, <2>4
<1>2. ASSUME IInv PROVE CountsStayWithinBudgets
  <2>1. TypeOK /\ CountInv
    BY <1>2 DEF IInv
  <2> SUFFICES ASSUME NEW t \in Token
               PROVE  LET c == run[t].count IN
                        /\ c.claimed <= BatchLimit[t] /\ c.discovered <= MaxMatchIds
                        /\ c.enqueued <= MaxEnqueue
    BY DEF CountsStayWithinBudgets
  <2>2. run[t].count \in CountType
    BY <2>1 DEF TypeOK, RunType
  <2>3. 0 <= MatchBudget(t) /\ 0 <= EnqueueBudget(t)
    <3>1. \A a \in Nat : \A n \in Int : a <= n => 0 <= n
      OBVIOUS
    <3> QED BY <2>1, <3>1, BudgetsTyped DEF CountInv, SharesFit
  <2>4. MaxMatchIds \in Nat /\ MaxEnqueue \in Nat
    BY ConstantsAssumption
  <2> QED BY <2>1, <2>2, <2>3, <2>4 DEF CountInv, SharesFit, MatchBudget, EnqueueBudget, CountType
<1>3. IInv => RunsCountTruly
  BY <1>1, <1>2 DEF RunsCountTruly
<1> QED BY <1>3, Inductive, PTL

(* README, lease safety: the lease of the scheduler leaves its owner by its own
   release or once it has expired, and no tick that lost it records its run
   over a later one.                                                       *)
THEOREM StaleTicks == SchedulerSpec => StaleTicksChangeNothing
<1>1. ASSUME IInv, [SchedulerNext]_allVars
      PROVE  [/\ \A t \in Token : state.owner = t /\ state'.owner # t
                                    => tick[t] = "release" \/ state.expired
              /\ state'.lastRun # state.lastRun =>
                   /\ state'.lastRun = state.owner
                   /\ state.lastRun # None => state'.lastRun > state.lastRun]_allVars
  BY <1>1, LeaseMoves DEF IInv
<1>2. SchedulerSpec => [][SchedulerNext]_allVars
  BY PTL DEF SchedulerSpec
<1> QED BY <1>1, <1>2, Inductive, PTL DEF StaleTicksChangeNothing

-----------------------------------------------------------------------------
(* The rows implement PlayerClaims.                                        *)

(* What a step may do to the row of a player. *)
RowTurn(p) ==
  \/ row'[p] = row[p] \/ \E b \in BOOLEAN : row'[p] = [row[p] EXCEPT !.due = b]
  \/ \E t \in Token : Eligible(p) /\ row'[p] = [row[p] EXCEPT !.owner = t, !.expired = FALSE]
  \/ row[p].owner # None /\ row'[p] = [row[p] EXCEPT !.expired = TRUE]
  \/ /\ row[p].owner # None
     /\ \/ row'[p] = Freed(row[p])
        \/ \E n \in {0, Least(row[p].streak + 1, MaxStreak)} : row'[p] = SettledSuccess(row[p], n)
        \/ \E b \in BOOLEAN : row'[p] = SettledFailure(row[p], b)
  \/ \E s \in {"ACTIVE", "PAUSED"}, due \in BOOLEAN, n \in {0, row[p].failures} :
       LET r == [row[p] EXCEPT !.status = s, !.due = due, !.failures = n] IN
       row'[p] = r \/ row'[p] = Freed(r)

(* A settlement moves the streak from where the row has it. *)
LEMMA PlayerMovesRow ==
  ASSUME TypeOK, NEW t \in Token, NEW p \in Player, ClaimsOf(t), PlayerMoves(t, p)
  PROVE  \A q \in Player : RowTurn(q)
<1>1. row \in [Player -> RowType] /\ None \notin Token
  BY ConstantsAssumption DEF TypeOK
<1>2. CASE row' = row
  BY <1>2 DEF RowTurn
<1>3. ASSUME NEW r, Owns(t, p), row' = [row EXCEPT ![p] = r],
             \/ r = Freed(row[p])
             \/ \E n \in {0, Least(row[p].streak + 1, MaxStreak)} : r = SettledSuccess(row[p], n)
             \/ \E b \in BOOLEAN : r = SettledFailure(row[p], b)
      PROVE  \A q \in Player : RowTurn(q)
  BY <1>1, <1>3 DEF RowTurn, Owns
<1>4. CASE SkipForCooldown(t, p)
  BY <1>2, <1>3, <1>4 DEF SkipForCooldown, Lost
<1>5. CASE FinalizeSuccess(t, p)
  <2>1. CASE Lost(t, p)
    BY <1>2, <2>1 DEF Lost
  <2>2. CASE ~Lost(t, p)
    <3> DEFINE n == NextStreak(work[t][p].streak, work[t][p].enqueued)
    <3>1. Owns(t, p) /\ row' = [row EXCEPT ![p] = SettledSuccess(row[p], n)]
      BY <1>5, <2>2 DEF FinalizeSuccess
    <3>2. work[t][p].streak = row[p].streak
      BY <1>5, <3>1 DEF ClaimsOf, StreakIsKept, FinalizeSuccess
    <3>3. n \in {0, Least(row[p].streak + 1, MaxStreak)}
      BY <3>2 DEF NextStreak
    <3> HIDE DEF n
    <3> QED BY <1>3, <3>1, <3>3
  <2> QED BY <2>1, <2>2
<1>6. CASE FinalizeFailure(t, p)
  <2>1. CASE Lost(t, p)
    BY <1>2, <2>1 DEF Lost
  <2>2. CASE ~Lost(t, p)
    <3> DEFINE b == work[t][p].result = "permanent"
    <3>1. Owns(t, p) /\ row' = [row EXCEPT ![p] = SettledFailure(row[p], b)]
      BY <1>6, <2>2 DEF FinalizeFailure
    <3>2. b \in BOOLEAN
      OBVIOUS
    <3> HIDE DEF b
    <3> QED BY <1>3, <3>1, <3>2
  <2> QED BY <2>1, <2>2
<1> QED BY <1>2, <1>4, <1>5, <1>6 DEF PlayerMoves, Invalid, Discover, Timeout, PublishCooldown,
          WorkerThrows

(* What others do to a player. *)
LEMMA RowOnlyTurns ==
  ASSUME TypeOK, RowOnly
  PROVE  \A q \in Player : RowTurn(q)
<1>1. PICK p \in Player : LeaseExpires(p) \/ SetStatus(p) \/ BecomesDue(p)
  BY DEF RowOnly
<1>2. row \in [Player -> RowType] /\ row[p] \in RowType
  BY DEF TypeOK
<1>3. ASSUME NEW r, row' = [row EXCEPT ![p] = r], RowTurn(p)
      PROVE  \A q \in Player : RowTurn(q)
  <2>1. \A q \in Player \ {p} : row'[q] = row[q]
    BY <1>2, <1>3
  <2>2. \A q \in Player : row'[q] = row[q] => RowTurn(q)
    BY DEF RowTurn
  <2> QED BY <1>3, <2>1, <2>2
<1>4. CASE LeaseExpires(p)
  <2>1. row' = [row EXCEPT ![p] = [row[p] EXCEPT !.expired = TRUE]] /\ row[p].owner # None
    BY <1>4 DEF LeaseExpires
  <2>2. RowTurn(p)
    BY <1>2, <2>1 DEF RowTurn
  <2> QED BY <1>3, <2>1, <2>2
<1>5. CASE BecomesDue(p)
  <2>1. row' = [row EXCEPT ![p] = [row[p] EXCEPT !.due = TRUE]]
    BY <1>5 DEF BecomesDue
  <2>2. RowTurn(p)
    BY <1>2, <2>1 DEF RowTurn
  <2> QED BY <1>3, <2>1, <2>2
<1>6. CASE SetStatus(p)
  <2>1. PICK s \in {"ACTIVE", "PAUSED"}, force \in BOOLEAN, reset \in BOOLEAN :
          LET r == [row[p] EXCEPT !.status = s, !.due = row[p].due \/ s = "ACTIVE",
                                  !.failures = IF reset THEN 0 ELSE row[p].failures]
          IN row' = [row EXCEPT ![p] = IF force THEN Freed(r) ELSE r]
    BY <1>6 DEF SetStatus
  <2> DEFINE due == row[p].due \/ s = "ACTIVE"
             n == IF reset THEN 0 ELSE row[p].failures
             r == [row[p] EXCEPT !.status = s, !.due = due, !.failures = n]
             w == IF force THEN Freed(r) ELSE r
  <2>2. row' = [row EXCEPT ![p] = w]
    BY <2>1
  <2>3. due \in BOOLEAN /\ n \in {0, row[p].failures} /\ (w = r \/ w = Freed(r))
    BY <1>2 DEF RowType
  <2> HIDE DEF due, n, w
  <2>4. RowTurn(p)
    BY <1>2, <2>2, <2>3 DEF RowTurn
  <2> QED BY <1>3, <2>2, <2>4
<1> QED BY <1>1, <1>4, <1>5, <1>6

(* Every step does one of these to the row of each player. *)
LEMMA RowsTurn ==
  ASSUME TypeOK, ClaimInv, Kinds
  PROVE  \A q \in Player : RowTurn(q)
<1>1. CASE Quiet
  BY <1>1 DEF Quiet, RowTurn
<1>2. ASSUME NEW t \in Token, OwnStep(t) PROVE \A q \in Player : RowTurn(q)
  <2>1. row' = row \/ row' = Released(t)
    BY <1>2, RunTurns DEF Turn
  <2>2. None \notin Token
    BY ConstantsAssumption
  <2> QED BY <2>1, <2>2 DEF Released, RowTurn, Owns
<1>3. ASSUME NEW t \in Token, ClaimWave(t) PROVE \A q \in Player : RowTurn(q)
  <2>1. PICK S \in SUBSET Player : \E b \in [S -> 0..MatchesPerPlayer] : WaveOf(t, S, b)
    BY <1>3, WaveIsClaimed
  <2> QED BY <2>1 DEF WaveOf, RowTurn
<1>4. ASSUME NEW t \in Token, FoldWave(t) \/ Dies(t) PROVE \A q \in Player : RowTurn(q)
  BY <1>4 DEF FoldWave, Dies, RowTurn
<1>5. ASSUME NEW t \in Token, NEW p \in Player, PlayerMoves(t, p)
      PROVE  \A q \in Player : RowTurn(q)
  <2>1. ClaimsOf(t)
    BY DEF ClaimInv, ClaimsOf
  <2> QED BY <1>5, <2>1, PlayerMovesRow
<1> QED BY <1>1, <1>2, <1>3, <1>4, <1>5, RowOnlyTurns DEF Kinds

(* The steps of PlayerClaims, from the row r of a player to the row s. *)
Keeps(r, s) == s.status = r.status /\ s.failures = r.failures /\ s.streak = r.streak
Frees(r, s) == r.owner # None /\ s.owner = None /\ ~s.expired

ClaimStep(r, s) ==
  \/ s.owner = r.owner /\ s.expired = r.expired /\ Keeps(r, s)
  \/ /\ r.status = "ACTIVE" /\ (r.owner = None \/ r.expired)
     /\ s.owner \in Token /\ ~s.expired /\ Keeps(r, s)
  \/ r.owner # None /\ s.owner = r.owner /\ s.expired /\ Keeps(r, s)
  \/ Frees(r, s) /\ Keeps(r, s)
  \/ /\ Frees(r, s) /\ s.status = r.status
     /\ s.streak \in {0, Least(r.streak + 1, MaxStreak)}
     /\ s.failures = IF r.status = "ACTIVE" THEN 0 ELSE r.failures
  \/ /\ Frees(r, s) /\ s.failures = r.failures + 1
     /\ s.status \in {r.status, "SUSPENDED"} /\ s.streak = r.streak
  \/ /\ s.status \in {"ACTIVE", "PAUSED"} /\ s.failures \in {0, r.failures} /\ s.streak = r.streak
     /\ \/ s.owner = r.owner /\ s.expired = r.expired
        \/ s.owner = None /\ ~s.expired

(* And each of them is a step of PlayerClaims. *)
LEMMA RowTurnIsClaimStep ==
  ASSUME TypeOK, NEW p \in Player, RowTurn(p)
  PROVE  ClaimStep(row[p], row'[p])
<1> DEFINE r == row[p]
           s == row'[p]
<1> SUFFICES ClaimStep(r, s)
  OBVIOUS
<1>1. r \in RowType
  BY DEF TypeOK
<1>2. ASSUME NEW x \in RowType
      PROVE  /\ Freed(x).owner = None /\ Freed(x).expired = FALSE /\ Freed(x).status = x.status
             /\ Freed(x).failures = x.failures /\ Freed(x).streak = x.streak /\ Freed(x) \in RowType
  BY <1>2 DEF Freed, RowType
<1> HIDE DEF r, s
<1>3. CASE s = r \/ \E b \in BOOLEAN : s = [r EXCEPT !.due = b]
  BY <1>1, <1>3 DEF ClaimStep, Keeps, RowType
<1>4. CASE \E t \in Token : Eligible(p) /\ s = [r EXCEPT !.owner = t, !.expired = FALSE]
  BY <1>1, <1>4 DEF ClaimStep, Keeps, RowType, Eligible, r
<1>5. CASE r.owner # None /\ s = [r EXCEPT !.expired = TRUE]
  BY <1>1, <1>5 DEF ClaimStep, Keeps, RowType
<1>6. CASE r.owner # None /\ s = Freed(r)
  BY <1>1, <1>2, <1>6 DEF ClaimStep, Keeps, Frees
<1>7. CASE r.owner # None /\ \E n \in {0, Least(r.streak + 1, MaxStreak)} : s = SettledSuccess(r, n)
  <2>1. PICK n \in {0, Least(r.streak + 1, MaxStreak)} : s = SettledSuccess(r, n)
    BY <1>7
  <2> DEFINE f == Freed(r)
  <2>2. f \in RowType /\ f.owner = None /\ f.expired = FALSE /\ f.status = r.status
        /\ f.failures = r.failures
    BY <1>1, <1>2
  <2>3. s = [f EXCEPT !.due = FALSE, !.streak = n,
                      !.failures = IF r.status = "ACTIVE" THEN 0 ELSE f.failures]
    BY <2>1, <2>2 DEF SettledSuccess, RowType
  <2> HIDE DEF f
  <2>4. /\ s.owner = None /\ s.expired = FALSE /\ s.status = r.status /\ s.streak = n
        /\ s.failures = IF r.status = "ACTIVE" THEN 0 ELSE r.failures
    BY <2>2, <2>3 DEF RowType
  <2> QED BY <1>7, <2>4 DEF ClaimStep, Frees
<1>8. CASE r.owner # None /\ \E b \in BOOLEAN : s = SettledFailure(r, b)
  <2>1. PICK b \in BOOLEAN : s = SettledFailure(r, b)
    BY <1>8
  <2> DEFINE f == Freed(r)
             w == IF b THEN "SUSPENDED" ELSE f.status
  <2>2. f \in RowType /\ f.owner = None /\ f.expired = FALSE /\ f.status = r.status
        /\ f.failures = r.failures /\ f.streak = r.streak
    BY <1>1, <1>2
  <2>3. s = [f EXCEPT !.due = FALSE, !.failures = f.failures + 1, !.status = w]
    BY <2>1, <2>2 DEF SettledFailure, RowType
  <2>4. w \in {r.status, "SUSPENDED"}
    BY <2>2
  <2> HIDE DEF f, w
  <2>5. /\ s.owner = None /\ s.expired = FALSE /\ s.status = w /\ s.streak = r.streak
        /\ s.failures = r.failures + 1
    BY <2>2, <2>3 DEF RowType
  <2> QED BY <1>8, <2>4, <2>5 DEF ClaimStep, Frees
<1>9. CASE \E a \in {"ACTIVE", "PAUSED"}, due \in BOOLEAN, n \in {0, r.failures} :
             LET x == [r EXCEPT !.status = a, !.due = due, !.failures = n] IN
             s = x \/ s = Freed(x)
  <2>1. PICK a \in {"ACTIVE", "PAUSED"}, due \in BOOLEAN, n \in {0, r.failures} :
             LET x == [r EXCEPT !.status = a, !.due = due, !.failures = n] IN
             s = x \/ s = Freed(x)
    BY <1>9
  <2> DEFINE x == [r EXCEPT !.status = a, !.due = due, !.failures = n]
  <2>2. x \in RowType /\ x.status = a /\ x.failures = n /\ x.streak = r.streak
        /\ x.owner = r.owner /\ x.expired = r.expired
    <3>1. n \in Nat
      BY <1>1 DEF RowType
    <3> QED BY <1>1, <3>1 DEF RowType
  <2>3. s = x \/ s = Freed(x)
    BY <2>1
  <2> HIDE DEF x
  <2> QED BY <1>2, <2>2, <2>3 DEF ClaimStep
<1> QED BY <1>3, <1>4, <1>5, <1>6, <1>7, <1>8, <1>9 DEF RowTurn, r, s

(* The rows of the players implement PlayerClaims: however the runs overlap,
   time out or die, and whatever the operators do meanwhile, a claim is settled
   once at most, and on the streak that it was made with.                  *)
THEOREM RefinesClaims == SchedulerSpec => ClaimsSettledOnce
<1>1. SchedulerInit => Claims!Init
  BY DEF SchedulerInit, Init, Claims!Init
<1>2. ASSUME IInv, [SchedulerNext]_allVars
      PROVE  Claims!Next
  <2>1. TypeOK /\ ClaimInv /\ Kinds
    BY <1>2, StepsHaveKinds DEF IInv
  <2>2. \A p \in Player : ClaimStep(row[p], row'[p])
    BY <2>1, RowsTurn, RowTurnIsClaimStep
  <2>3. ASSUME NEW p \in Player
        PROVE  \/ /\ row'[p].owner = row[p].owner /\ row'[p].expired = row[p].expired
                  /\ Claims!Kept(p)
               \/ Claims!Claim(p) \/ Claims!Lapse(p) \/ Claims!Release(p)
               \/ Claims!SettleSuccess(p) \/ Claims!SettleFailure(p) \/ Claims!Operator(p)
    <3> DEFINE r == row[p]
               s == row'[p]
    <3>1. ClaimStep(r, s)
      BY <2>2
    <3>2. Keeps(r, s) => Claims!Kept(p)
      BY DEF Keeps, Claims!Kept
    <3>3. Frees(r, s) => Claims!Freed(p)
      BY DEF Frees, Claims!Freed
    <3>4. CASE s.owner = r.owner /\ s.expired = r.expired /\ Keeps(r, s)
      BY <3>2, <3>4
    <3>5. CASE /\ r.status = "ACTIVE" /\ (r.owner = None \/ r.expired)
               /\ s.owner \in Token /\ ~s.expired /\ Keeps(r, s)
      BY <3>2, <3>5 DEF Claims!Claim
    <3>6. CASE r.owner # None /\ s.owner = r.owner /\ s.expired /\ Keeps(r, s)
      BY <3>2, <3>6 DEF Claims!Lapse
    <3>7. CASE Frees(r, s) /\ Keeps(r, s)
      BY <3>2, <3>3, <3>7 DEF Claims!Release
    <3>8. CASE /\ Frees(r, s) /\ s.status = r.status
               /\ s.streak \in {0, Least(r.streak + 1, MaxStreak)}
               /\ s.failures = IF r.status = "ACTIVE" THEN 0 ELSE r.failures
      <4>1. Least(r.streak + 1, MaxStreak) = IF r.streak < MaxStreak THEN r.streak + 1 ELSE MaxStreak
        <5>1. r.streak \in 0..MaxStreak /\ MaxStreak \in Nat
          BY <2>1, ConstantsAssumption DEF TypeOK, RowType
        <5> QED BY <5>1 DEF Least
      <4> QED BY <3>3, <3>8, <4>1 DEF Claims!SettleSuccess
    <3>9. CASE /\ Frees(r, s) /\ s.failures = r.failures + 1
               /\ s.status \in {r.status, "SUSPENDED"} /\ s.streak = r.streak
      BY <3>3, <3>9 DEF Claims!SettleFailure
    <3>10. CASE /\ s.status \in {"ACTIVE", "PAUSED"} /\ s.failures \in {0, r.failures}
                /\ s.streak = r.streak
                /\ \/ s.owner = r.owner /\ s.expired = r.expired
                   \/ s.owner = None /\ ~s.expired
      BY <3>10 DEF Claims!Operator, Claims!Status
    <3> QED BY <3>1, <3>4, <3>5, <3>6, <3>7, <3>8, <3>9, <3>10 DEF ClaimStep
  <2> QED BY <2>3 DEF Claims!Next
<1> QED BY <1>1, <1>2, Inductive, PTL DEF SchedulerSpec, ClaimsSettledOnce, Claims!Spec

-----------------------------------------------------------------------------
(* Progress.                                                               *)

(* What is left to do for a player. *)
LEMMA PlayerWorkTyped ==
  ASSUME NEW t \in Token
  PROVE  /\ \A p \in Player : PlayerWork(t)[p] \in Nat /\ PlayerWork(t)'[p] \in Nat
         /\ SumFunctionOnSet(PlayerWork(t), Player) \in Nat
         /\ SumFunctionOnSet(PlayerWork(t)', Player) \in Nat
<1>1. \A p \in Player : PlayerWork(t)[p] \in Nat /\ PlayerWork(t)'[p] \in Nat
  BY DEF PlayerWork
<1> QED BY <1>1, SumTyped, ConstantsAssumption

(* A step of the run itself is one less. *)
LEMMA OwnStepProgress ==
  ASSUME TypeOK, NEW t \in Token, OwnStep(t), run[t].pc # "none"
  PROVE  Remaining(t)' < Remaining(t)
<1>1. /\ work' = work /\ Turn(t) /\ run[t].count \in CountType
      /\ \E b \in BOOLEAN : run'[t].count = [run[t].count EXCEPT !.exhausted = b]
  BY RunTurns DEF TypeOK, RunType
<1>2. PlayerWork(t)' = PlayerWork(t)
  BY <1>1 DEF PlayerWork
<1>3. OwnWork(t) \in Nat /\ OwnWork(t)' \in Nat /\ OwnWork(t)' < OwnWork(t)
  BY <1>1 DEF OwnWork, Turn
<1>4. RemainingBatch(t)' = RemainingBatch(t) /\ RemainingBatch(t) \in Int
  BY <1>1, ConstantsAssumption DEF RemainingBatch, CountType
<1> DEFINE w == SumFunctionOnSet(PlayerWork(t), Player)
<1>5. w \in Nat
  BY PlayerWorkTyped
<1>6. Remaining(t) = 10 * RemainingBatch(t) + OwnWork(t) + w
      /\ Remaining(t)' = 10 * RemainingBatch(t) + OwnWork(t)' + w
  BY <1>2, <1>4 DEF Remaining
<1> HIDE DEF w
<1> QED BY <1>3, <1>4, <1>5, <1>6

(* A wave uses up the batch by more than it adds to do. *)
LEMMA ClaimWaveProgress ==
  ASSUME TypeOK, NEW t \in Token, ClaimsOf(t), ClaimWave(t)
  PROVE  Remaining(t)' < Remaining(t)
<1>1. PICK S \in SUBSET Player : \E b \in [S -> 0..MatchesPerPlayer] : WaveOf(t, S, b)
  BY WaveIsClaimed
<1>2. /\ run[t].pc = "loop" /\ run[t].wave = {} /\ \A p \in Player : work[t][p] = NoWork
      /\ run[t].count \in CountType /\ IsFiniteSet(S) /\ Cardinality(S) \in Nat
  BY FoldTyped DEF ClaimsOf, RunInv, ClaimWave, MayClaim, TypeOK, RunType
<1>3. /\ run'[t].pc = (IF S = {} THEN "ensure" ELSE "wave")
      /\ run'[t].count = [run[t].count EXCEPT !.claimed = run[t].count.claimed + Cardinality(S)]
      /\ \A p \in Player \ S : work'[t][p] = NoWork
  BY <1>1, <1>2 DEF WaveOf
<1>4. ASSUME NEW p \in S PROVE work'[t][p].phase = "assigned"
  <2>1. PICK b \in [S -> 0..MatchesPerPlayer] : WaveOf(t, S, b)
    BY <1>1
  <2>2. work'[t][p] = [NoWork EXCEPT !.phase = "assigned", !.budget = b[p],
                                     !.streak = row[p].streak]
    BY <2>1 DEF WaveOf
  <2> QED BY <2>2 DEF NoWork
<1>5. SumFunctionOnSet(PlayerWork(t), Player) = 0
  <2>1. \A p \in Player : PlayerWork(t)[p] = 0
    BY <1>2, NoWorkTyped DEF PlayerWork
  <2> QED BY <2>1, SumOfZeros, ConstantsAssumption
<1>6. SumFunctionOnSet(PlayerWork(t)', Player) = Cardinality(S) * 3
  <2> DEFINE f == PlayerWork(t)'
  <2>1. \A p \in S : f[p] = 3
    BY <1>4 DEF PlayerWork
  <2>2. \A p \in Player \ S : f[p] = 0
    BY <1>3, NoWorkTyped DEF PlayerWork
  <2>3. \A p \in Player : f[p] \in Nat
    BY <2>1, <2>2
  <2> HIDE DEF f
  <2>4. SumFunctionOnSet(f, Player) = SumFunctionOnSet(f, S)
    BY <2>2, <2>3, SumOfSupport, ConstantsAssumption
  <2>5. SumFunctionOnSet(f, S) = Cardinality(S) * 3
    BY <1>2, <2>1, SumOfSame
  <2> QED BY <2>4, <2>5 DEF f
<1>7. RemainingBatch(t) \in Int /\ RemainingBatch(t)' = RemainingBatch(t) - Cardinality(S)
  BY <1>2, <1>3, ConstantsAssumption DEF RemainingBatch, CountType
<1>8. OwnWork(t) = 8 /\ OwnWork(t)' = (IF S = {} THEN 7 ELSE 9)
  BY <1>2, <1>3 DEF OwnWork
<1>9. S # {} => Cardinality(S) >= 1
  BY <1>2, FS_EmptySet
<1> DEFINE n == Cardinality(S)
           b == RemainingBatch(t)
<1>10. /\ Remaining(t) = 10 * b + 8 + 0
       /\ Remaining(t)' = 10 * (b - n) + OwnWork(t)' + n * 3
  BY <1>5, <1>6, <1>7, <1>8 DEF Remaining
<1>11. S = {} => n = 0
  BY FS_EmptySet
<1> HIDE DEF n, b
<1>12. n \in Nat /\ b \in Int
  BY <1>2, <1>7 DEF n, b
<1>13. S # {} => n >= 1
  BY <1>9 DEF n
<1> QED BY <1>8, <1>10, <1>11, <1>12, <1>13

(* The fold ends the wave. *)
LEMMA FoldWaveProgress ==
  ASSUME TypeOK, NEW t \in Token, ClaimsOf(t), FoldWave(t)
  PROVE  Remaining(t)' < Remaining(t)
<1>1. /\ run[t].pc = "wave" /\ run'[t].pc = "loop" /\ run'[t].count = Counted(t)
      /\ \A p \in Player : work'[t][p] = NoWork
  BY FoldWrites DEF ClaimsOf, RunInv, FoldWave
<1>2. run[t].count \in CountType
  BY DEF TypeOK, RunType
<1>3. Counted(t).claimed = run[t].count.claimed
  BY <1>2 DEF Counted, CountType
<1>4. RemainingBatch(t)' = RemainingBatch(t) /\ RemainingBatch(t) \in Int
  BY <1>1, <1>2, <1>3, ConstantsAssumption DEF RemainingBatch, CountType
<1>5. SumFunctionOnSet(PlayerWork(t)', Player) = 0
  <2>1. \A p \in Player : PlayerWork(t)'[p] = 0
    BY <1>1, NoWorkTyped DEF PlayerWork
  <2> QED BY <2>1, SumOfZeros, ConstantsAssumption
<1>6. OwnWork(t) = 9 /\ OwnWork(t)' = 8
  BY <1>1 DEF OwnWork
<1> DEFINE w == SumFunctionOnSet(PlayerWork(t), Player)
<1>7. w \in Nat
  BY PlayerWorkTyped
<1>8. /\ Remaining(t) = 10 * RemainingBatch(t) + 9 + w
      /\ Remaining(t)' = 10 * RemainingBatch(t) + 8 + 0
  BY <1>4, <1>5, <1>6 DEF Remaining
<1> HIDE DEF w
<1> QED BY <1>4, <1>7, <1>8

(* A refresh is one step further. *)
LEMMA PlayerMovesProgress ==
  ASSUME TypeOK, NEW t \in Token, NEW p \in Player, PlayerMoves(t, p)
  PROVE  Remaining(t)' < Remaining(t)
<1>1. /\ run'[t].count = run[t].count /\ run[t].count \in CountType
      /\ run'[t].pc = run[t].pc \/ (run[t].pc = "wave" /\ run'[t].pc = "catch")
  BY RunMoves DEF TypeOK, RunType
<1>2. /\ \A q \in Player \ {p} : work'[t][q] = work[t][q]
      /\ work[t][p].phase \in {"assigned", "publish", "settling"}
      /\ \/ work[t][p].phase = "assigned" /\ work'[t][p].phase \in {"publish", "settling"}
         \/ work[t][p].phase = "publish" /\ work'[t][p].phase = "settling"
         \/ work'[t][p].phase = "done"
  BY WorkMoves DEF Active
<1> DEFINE f == PlayerWork(t)
           g == PlayerWork(t)'
<1>3. f[p] \in Nat /\ g[p] \in Nat /\ g[p] < f[p]
  BY <1>2 DEF PlayerWork
<1>4. \A q \in Player \ {p} : g[q] = f[q]
  BY <1>2 DEF PlayerWork
<1>5. \A q \in Player : f[q] \in Nat /\ g[q] \in Nat
  BY PlayerWorkTyped
<1>6. RemainingBatch(t)' = RemainingBatch(t) /\ RemainingBatch(t) \in Int
  BY <1>1, ConstantsAssumption DEF RemainingBatch, CountType
<1>7. OwnWork(t) \in Nat /\ OwnWork(t)' \in Nat /\ OwnWork(t)' <= OwnWork(t)
  BY <1>1 DEF OwnWork
<1> DEFINE v == SumFunctionOnSet(f, Player)
           w == SumFunctionOnSet(g, Player)
<1>8. /\ Remaining(t) = 10 * RemainingBatch(t) + OwnWork(t) + v
      /\ Remaining(t)' = 10 * RemainingBatch(t) + OwnWork(t)' + w
  BY <1>6 DEF Remaining
<1>9. v \in Nat /\ w \in Nat
  BY PlayerWorkTyped
<1> HIDE DEF f, g
<1>10. w = v + g[p] - f[p]
  BY <1>4, <1>5, SumChanges, ConstantsAssumption
<1> HIDE DEF v, w
<1> QED BY <1>3, <1>6, <1>7, <1>8, <1>9, <1>10

(* Every step of a run that its process survives takes it closer to its end:
   runOnce terminates, though players released because of a shared cooldown are
   eligible again at once.                                                 *)
THEOREM RunsEnd == SchedulerSpec => RunsMakeProgress
<1> DEFINE Progress == \A t \in Token :
             /\ run[t].pc \notin {"none", "dead"} /\ tick'[t] # "dead"
             /\ <<run[t], work[t]>>' # <<run[t], work[t]>>
             => Remaining(t)' < Remaining(t)
<1>1. ASSUME IInv, [SchedulerNext]_allVars PROVE Progress
  <2>1. TypeOK /\ ClaimInv /\ Kinds
    BY <1>1, StepsHaveKinds DEF IInv
  <2> SUFFICES ASSUME NEW t \in Token, run[t].pc \notin {"none", "dead"}, tick'[t] # "dead",
                      run'[t] # run[t] \/ work'[t] # work[t]
               PROVE  Remaining(t)' < Remaining(t)
    OBVIOUS
  <2>2. ~Quiet /\ ~RowOnly
    BY <2>1, RowOnlyWrites DEF Quiet
  <2>3. PICK u \in Token : \/ OwnStep(u) \/ ClaimWave(u) \/ FoldWave(u) \/ Dies(u)
                           \/ \E p \in Player : PlayerMoves(u, p)
    BY <2>1, <2>2 DEF Kinds
  <2>4. u = t
    BY <2>1, <2>3, OthersKeep
  <2>5. ClaimsOf(t) /\ ~Dies(t)
    BY <2>1 DEF ClaimInv, ClaimsOf, Dies
  <2> QED BY <2>1, <2>3, <2>4, <2>5, OwnStepProgress, ClaimWaveProgress, FoldWaveProgress,
         PlayerMovesProgress
<1> QED BY <1>1, Inductive, PTL DEF SchedulerSpec, RunsMakeProgress

=============================================================================
