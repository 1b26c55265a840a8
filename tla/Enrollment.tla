----------------------------- MODULE Enrollment -----------------------------
(***************************************************************************)
(* Enrolment of tracked players: explicit roots (search, seed, bootstrap), *)
(* ladder entries, and the expansion of a completed match into its         *)
(* participants. The quota rows are counters in Postgres, incremented and  *)
(* read back by guarded UPDATEs in one transaction with the INSERT of the  *)
(* player.                                                                 *)
(*                                                                         *)
(* A transaction that has updated a row holds its lock until it ends, so   *)
(* one set stands for both: held is what the transaction has reserved and  *)
(* not committed, and a row in it is locked. The tables show what is       *)
(* committed. The observational expansion metrics of CollectorRun are left *)
(* out.                                                                    *)
(***************************************************************************)
EXTENDS Integers, FiniteSets, Functions

CONSTANTS
  Player, Match, Run, Exec,   \* exec: concurrent enrolments
  Roster,         \* the participants of each match with a stable identity
  Position,       \* the order of externalAccountId
  Roots,          \* players tracked at the start
  TotalCap, LadderCap, PopulationCap, RunCap, SourceCap,
  MaxPerMatch, MaxDepth,
  MaxExecs, MaxAborts, MaxDrops,   \* exploration bounds
  None

Source == {"ROOT", "LADDER", "MATCH_PARTICIPANT"}

ASSUME ConstantsAssumption ==
  /\ IsFiniteSet(Player)
  /\ Roster \in [Match -> SUBSET Player]
  /\ Position \in [Player -> Nat]
  /\ \A p, q \in Player : Position[p] = Position[q] => p = q
  /\ Roots \subseteq Player /\ Cardinality(Roots) <= TotalCap
  /\ {TotalCap, LadderCap, PopulationCap, RunCap, SourceCap, MaxPerMatch, MaxDepth,
      MaxExecs, MaxAborts, MaxDrops} \subseteq Nat
  /\ None \notin Player /\ None \notin Run /\ None \notin Source

VARIABLES
  tracked, depth,      \* TrackedPlayer: enrollmentSource and discoveryDepth
  total, ladder,       \* CollectorTrackedPlayerBudget
  population,          \* CollectorPopulationBudget
  runs, enrolledBy,    \* CollectorRun rows that exist, and their counter
  quota,               \* CollectorRunSourceQuota
  exec,                \* the enrolments under way
  considered,          \* history: the players each match's expansions looked at
  execs, aborts, drops \* exploration counters

tables == <<tracked, depth, total, ladder, population, runs, enrolledBy, quota>>
counters == <<execs, aborts, drops>>
vars == <<tables, exec, considered, counters>>

Idle == [pc |-> "idle", kind |-> "ROOT", player |-> None, depth |-> 0, source |-> None,
         run |-> None, attributed |-> FALSE, retried |-> FALSE, todo |-> {}, held |-> {}]

Init ==
  /\ tracked = [p \in Player |-> IF p \in Roots THEN "ROOT" ELSE None]
  /\ depth = [p \in Player |-> 0]
  /\ total = Cardinality(Roots) /\ ladder = 0 /\ population = 0
  /\ runs = Run
  /\ enrolledBy = [r \in Run |-> 0]
  /\ quota = [r \in Run |-> [p \in Player |-> 0]]
  /\ exec = [e \in Exec |-> Idle]
  /\ considered = [m \in Match |-> {}]
  /\ execs = 0 /\ aborts = 0 /\ drops = 0

-----------------------------------------------------------------------------
(* Rows and locks.                                                         *)

BudgetRow == <<"budget", None, None>>
PopulationRow == <<"population", None, None>>
RunRow(r) == <<"run", r, None>>
QuotaRow(r, p) == <<"quota", r, p>>
PlayerRow(p) == <<"player", None, p>>

\* Mistake: a count is read, compared and written back without a lock.
Unlocked(e, row) == TRUE

\* A row another transaction has written makes this one wait.
Free(e, row) == \A f \in Exec \ {e} : row \notin exec[f].held

Begin(e, x) ==
  /\ exec[e].pc = "idle" /\ execs < MaxExecs
  /\ exec' = [exec EXCEPT ![e] = x]
  /\ execs' = execs + 1

Goto(e, pc) == exec' = [exec EXCEPT ![e].pc = pc]

\* One more row reserved, and locked, by the transaction.
Hold(e, row, pc) == exec' = [exec EXCEPT ![e] = [@ EXCEPT !.held = exec[e].held \cup {row}, !.pc = pc]]

\* Where an enrolment goes when it is done with its player.
Done(e) == IF exec[e].kind = "MATCH_PARTICIPANT" THEN "next" ELSE "idle"

\* Where a rejection leads: nobody catches that of the retry, and the whole
\* expansion is over.
Rejected(e, pc) == IF exec[e].retried THEN "idle" ELSE pc

\* 1 if the transaction has reserved the row, else 0.
Reserved(e, row) == IF row \in exec[e].held THEN 1 ELSE 0

\* The tables with what the transaction reserved.
ApplyReservations(e) ==
  LET x == exec[e] IN
    /\ total' = total + Reserved(e, BudgetRow)
    /\ ladder' = ladder + (IF x.kind = "LADDER" THEN Reserved(e, BudgetRow) ELSE 0)
    /\ population' = population + Reserved(e, PopulationRow)
    /\ enrolledBy' = [r \in Run |-> enrolledBy[r] + Reserved(e, RunRow(r))]
    /\ quota' = [r \in Run |-> [p \in Player |-> quota[r][p] + Reserved(e, QuotaRow(r, p))]]
    /\ UNCHANGED runs

\* Mistake: the unique conflict is handled inside the transaction.
CommitAnyway(e, pc) ==
  /\ ApplyReservations(e)
  /\ exec' = [exec EXCEPT ![e] = [@ EXCEPT !.held = {}, !.pc = pc]]
  /\ UNCHANGED <<tracked, depth>>

\* Throwing inside the transaction undoes every reservation.
Rollback(e, pc) ==
  /\ exec' = [exec EXCEPT ![e] = [@ EXCEPT !.held = {}, !.pc = pc]]
  /\ UNCHANGED tables

-----------------------------------------------------------------------------
(* Explicit roots: CollectorEnrollmentService.enroll.                      *)

EnrollRoot(e, p) ==
  /\ Begin(e, [Idle EXCEPT !.pc = IF tracked[p] # None THEN "depthMin" ELSE "total",
                           !.kind = "ROOT", !.player = p])
  /\ UNCHANGED <<tables, considered, aborts, drops>>

(* Ladder entries: enrollLadderCandidate looks the player up, may ask      *)
(* Account-v1 for its names, and looks again.                              *)

EnrollLadder(e, p) ==
  /\ Begin(e, [Idle EXCEPT !.pc = IF tracked[p] # None THEN "depthMin" ELSE "recheck",
                           !.kind = "LADDER", !.player = p])
  /\ UNCHANGED <<tables, considered, aborts, drops>>

-----------------------------------------------------------------------------
(* Expansion of a completed match, requested by one of its participants.   *)

\* selectExpansionCandidates: sort by stable identity, take the first N.
Window(m, source) ==
  LET others == Roster[m] \ {source} IN
    {p \in others : Cardinality({q \in others : Position[q] < Position[p]}) < MaxPerMatch}

\* Mistake: the child is nearer to the roots than its source.
NearerDepth(d) == d - 1

ChildDepth(d) == d + 1

\* The depth of the source is read once, for all candidates.
Expand(e, m, source, r) ==
  /\ source \in Roster[m] /\ tracked[source] # None
  /\ Begin(e, [Idle EXCEPT !.pc = "next", !.kind = "MATCH_PARTICIPANT", !.source = source,
                           !.depth = ChildDepth(depth[source]), !.run = r,
                           !.todo = Window(m, source)])
  /\ considered' = [considered EXCEPT ![m] = @ \cup Window(m, source)]
  /\ UNCHANGED <<tables, aborts, drops>>

\* Mistake: the limit is put to the depth of the source.
SourceTooDeep(d) == d - 1 > MaxDepth

TooDeep(d) == d > MaxDepth

\* The next candidate of the window: is it tracked, is it too deep?
NextCandidate(e) ==
  /\ exec[e].pc = "next" /\ exec[e].todo # {}
  /\ \E p \in exec[e].todo :
       /\ \A q \in exec[e].todo : Position[p] <= Position[q]
       /\ exec' = [exec EXCEPT ![e] = [@ EXCEPT
                       !.player = p, !.todo = exec[e].todo \ {p},
                       !.pc = CASE tracked[p] # None -> "depthMin"
                                [] tracked[p] = None /\ TooDeep(exec[e].depth) -> "next"
                                [] OTHER -> "recheck"]]
  /\ UNCHANGED <<tables, considered, counters>>

EndExpansion(e) ==
  /\ exec[e].pc = "next" /\ exec[e].todo = {}
  /\ Goto(e, "idle")
  /\ UNCHANGED <<tables, considered, counters>>

\* The account upsert fails: this candidate is skipped.
SkipIdentity(e) ==
  /\ exec[e].pc = "recheck"
  /\ Goto(e, Done(e))
  /\ UNCHANGED <<tables, considered, counters>>

\* After the account upsert another enrolment may have won; and is the run that
\* the expansion is attributed to still there?
Recheck(e) ==
  /\ exec[e].pc = "recheck"
  /\ exec' = [exec EXCEPT ![e] = [@ EXCEPT
                  !.pc = IF tracked[exec[e].player] # None THEN "depthMin" ELSE "total",
                  !.attributed = exec[e].run \in runs, !.retried = FALSE]]
  /\ UNCHANGED <<tables, considered, counters>>

-----------------------------------------------------------------------------
(* The reservation transaction, one statement at a time. Each guarded      *)
(* UPDATE waits for the lock of its row and then tests what is committed.  *)

AfterTotal(e) == IF exec[e].kind = "MATCH_PARTICIPANT" THEN "population" ELSE "insert"

UnderTotalCap(kind) == total < TotalCap /\ (kind = "LADDER" => ladder < LadderCap)

ReserveTotal(e) ==
  /\ exec[e].pc = "total" /\ Free(e, BudgetRow)
  /\ IF UnderTotalCap(exec[e].kind)
       THEN Hold(e, BudgetRow, AfterTotal(e)) /\ UNCHANGED tables
       ELSE Rollback(e, Rejected(e, Done(e)))
  /\ UNCHANGED <<considered, counters>>

ReservePopulation(e) ==
  /\ exec[e].pc = "population" /\ Free(e, PopulationRow)
  /\ IF population < PopulationCap
       THEN Hold(e, PopulationRow, IF exec[e].attributed THEN "run" ELSE "insert")
            /\ UNCHANGED tables
       ELSE Rollback(e, Rejected(e, Done(e)))
  /\ UNCHANGED <<considered, counters>>

\* Mistake: no source quota is reserved.
AfterRunInsert == "insert"

AfterRun == "source"

ReserveRun(e) ==
  LET r == exec[e].run IN
    /\ exec[e].pc = "run" /\ r \in runs /\ Free(e, RunRow(r))
    /\ IF enrolledBy[r] < RunCap
         THEN Hold(e, RunRow(r), AfterRun) /\ UNCHANGED tables
         ELSE Rollback(e, Rejected(e, Done(e)))
    /\ UNCHANGED <<considered, counters>>

\* Mistake: the retry is attributed to the missing run again.
StillAttributed(e) == exec[e].attributed

\* missing_run_switch_unattributed.
RetryAttributed(e) == FALSE

\* The run is gone: start again, once, not attributed to it.
RunMissing(e) ==
  /\ exec[e].pc = "run" /\ exec[e].run \notin runs
  /\ exec' = [exec EXCEPT ![e] = [@ EXCEPT !.held = {}, !.pc = "total",
                                               !.attributed = RetryAttributed(e), !.retried = TRUE]]
  /\ UNCHANGED <<tables, considered, counters>>

\* The quota row is inserted with 0 unless it is there.
ReserveSource(e) ==
  LET r == exec[e].run
      p == exec[e].source
  IN
    /\ exec[e].pc = "source" /\ Free(e, QuotaRow(r, p))
    /\ IF quota[r][p] < SourceCap
         THEN Hold(e, QuotaRow(r, p), "insert") /\ UNCHANGED tables
         ELSE Rollback(e, Rejected(e, Done(e)))
    /\ UNCHANGED <<considered, counters>>

\* Unique on playerAccountId: a conflict throws, so the reservations go; on the
\* retry the throw ends the expansion.
Insert(e) ==
  LET p == exec[e].player IN
    /\ exec[e].pc = "insert" /\ Free(e, PlayerRow(p))
    /\ IF tracked[p] = None
         THEN Hold(e, PlayerRow(p), "commit") /\ UNCHANGED tables
         ELSE Rollback(e, Rejected(e, "depthMin"))
    /\ UNCHANGED <<considered, counters>>

Commit(e) ==
  /\ exec[e].pc = "commit"
  /\ ApplyReservations(e)
  /\ tracked' = [tracked EXCEPT ![exec[e].player] = exec[e].kind]
  /\ depth' = [depth EXCEPT ![exec[e].player] = exec[e].depth]
  /\ exec' = [exec EXCEPT ![e] = [@ EXCEPT !.held = {}, !.pc = Done(e)]]
  /\ UNCHANGED <<considered, counters>>

-----------------------------------------------------------------------------
(* An already tracked player: the depth shrinks, the source stays.         *)

\* Mistake: the depth of the latest discovery.
LatestDepth(old, proposed) == proposed

\* LEAST.
LeastDepth(old, proposed) == IF proposed < old THEN proposed ELSE old

ApplyDepthMin(e) ==
  LET p == exec[e].player IN
    /\ exec[e].pc = "depthMin" /\ Free(e, PlayerRow(p))
    /\ depth' = [depth EXCEPT ![p] = LeastDepth(@, exec[e].depth)]
    /\ Goto(e, Done(e))
    /\ UNCHANGED <<tracked, total, ladder, population, runs, enrolledBy, quota, considered,
                   counters>>

-----------------------------------------------------------------------------
(* Failures: a transaction times out or its connection is lost, or another *)
(* call of the enrolment throws; a run is deleted by hand.                 *)

Abort(e) ==
  /\ exec[e].pc # "idle" /\ aborts < MaxAborts
  /\ exec' = [exec EXCEPT ![e] = Idle]
  /\ aborts' = aborts + 1
  /\ UNCHANGED <<tables, considered, execs, drops>>

DropRun(r) ==
  /\ r \in runs /\ drops < MaxDrops
  /\ \A e \in Exec : RunRow(r) \notin exec[e].held
  /\ runs' = runs \ {r}
  /\ drops' = drops + 1
  /\ UNCHANGED <<tracked, depth, total, ladder, population, enrolledBy, quota, exec,
                 considered, execs, aborts>>

-----------------------------------------------------------------------------

Start(e) ==
  \/ \E p \in Player : EnrollRoot(e, p) \/ EnrollLadder(e, p)
  \/ \E m \in Match, source \in Player, r \in Run \cup {None} : Expand(e, m, source, r)

Step(e) ==
  \/ NextCandidate(e) \/ EndExpansion(e) \/ SkipIdentity(e) \/ Recheck(e)
  \/ ReserveTotal(e) \/ ReservePopulation(e) \/ ReserveRun(e) \/ RunMissing(e)
  \/ ReserveSource(e) \/ Insert(e) \/ Commit(e) \/ ApplyDepthMin(e)

Next ==
  \/ \E e \in Exec : Start(e) \/ Step(e) \/ Abort(e)
  \/ \E r \in Run : DropRun(r)

Spec == Init /\ [][Next]_vars

\* Statements under way complete once their locks are free.
FairSpec == Spec /\ \A e \in Exec : WF_vars(Step(e))

-----------------------------------------------------------------------------
(* Properties.                                                             *)

Row == {BudgetRow, PopulationRow} \cup {RunRow(r) : r \in Run}
         \cup {QuotaRow(r, p) : r \in Run, p \in Player} \cup {PlayerRow(p) : p \in Player}

TransactionPc == {"population", "run", "source", "insert", "commit"}

Pc == {"idle", "next", "recheck", "total", "depthMin"} \cup TransactionPc

ExecType == [pc : Pc,
             kind : Source, player : Player \cup {None}, depth : Nat,
             source : Player \cup {None}, run : Run \cup {None}, attributed : BOOLEAN, retried : BOOLEAN,
             todo : SUBSET Player, held : SUBSET Row]

\* Every variable has its type.
TypeOK ==
  /\ tracked \in [Player -> Source \cup {None}] /\ depth \in [Player -> Nat]
  /\ total \in Nat /\ ladder \in Nat /\ population \in Nat
  /\ runs \in SUBSET Run
  /\ enrolledBy \in [Run -> Nat] /\ quota \in [Run -> [Player -> Nat]]
  /\ exec \in [Exec -> ExecType]
  /\ considered \in [Match -> SUBSET Player]
  /\ execs \in Nat /\ aborts \in Nat /\ drops \in Nat

Ceiling == [s \in Source |-> CASE s = "LADDER" -> LadderCap
                               [] s = "MATCH_PARTICIPANT" -> PopulationCap
                               [] OTHER -> TotalCap]

Abstract == INSTANCE TrackedPopulation
              WITH origin <- tracked, TotalCeiling <- TotalCap

\* At most one transaction has got past the first of the rows in lock order.
OneTransaction ==
  \A e, f \in Exec : exec[e].pc \in TransactionPc /\ exec[f].pc \in TransactionPc => e = f

\* What a transaction has reserved, by how far it has come.
ReservedByPc(e) ==
  LET x == exec[e] IN
    /\ BudgetRow \in x.held <=> x.pc \in TransactionPc
    /\ PopulationRow \in x.held <=> /\ x.kind = "MATCH_PARTICIPANT"
                                    /\ x.pc \in TransactionPc \ {"population"}
    /\ x.pc \in {"next", "population", "run", "source"} => x.kind = "MATCH_PARTICIPANT"
    /\ x.pc \notin {"idle", "next"} => x.player \in Player
    /\ x.kind = "MATCH_PARTICIPANT" => x.source \in Player
    /\ x.pc = "source" => x.run \in Run

\* What a transaction has reserved is free until it commits.
ReservedIsFree(e) ==
  LET x == exec[e] IN
    /\ x.pc \in TransactionPc => UnderTotalCap(x.kind)
    /\ PopulationRow \in x.held => population < PopulationCap
    /\ x.pc = "commit" => tracked[x.player] = None

\* The collector audit's tolerance 0: the budget counters are the numbers of
\* rows, whatever transaction was rolled back, aborted or raced.
BudgetsMatchRows ==
  /\ total = Cardinality(Abstract!Enrolled)
  /\ ladder = Cardinality(Abstract!EnrolledFrom("LADDER"))
  /\ population = Cardinality(Abstract!EnrolledFrom("MATCH_PARTICIPANT"))

\* Every counter agrees with its rows, and who is about to add one may.
BudgetInv ==
  /\ TypeOK /\ BudgetsMatchRows /\ OneTransaction
  /\ \A e \in Exec : ReservedByPc(e) /\ ReservedIsFree(e)

\* No run, and no source player in a run, enrols more than its quota.
RunQuotasHold ==
  \A r \in Run : enrolledBy[r] <= RunCap /\ \A p \in Player : quota[r][p] <= SourceCap

\* Autonomous growth stays within the configured depth, although the depth of
\* the source may change while its match is expanded.
GrowthIsShallow ==
  \A p \in Player : tracked[p] = "MATCH_PARTICIPANT" => depth[p] <= MaxDepth

\* However the enrolments interleave, growth keeps to its depth and its quotas.
GrowthIsBounded == GrowthIsShallow /\ RunQuotasHold

\* A candidate past the depth test is not too deep, rows are reserved in a
\* transaction only, and a reserved place of a run or a source is free.
GrowthByPc(e) ==
  LET x == exec[e] IN
    /\ x.kind = "MATCH_PARTICIPANT" /\ x.pc \in {"recheck", "total"} \cup TransactionPc
         => ~TooDeep(x.depth)
    /\ x.pc \notin TransactionPc => x.held = {}
    /\ \A r \in Run :
         /\ RunRow(r) \in x.held => enrolledBy[r] < RunCap
         /\ \A p \in Player : QuotaRow(r, p) \in x.held => quota[r][p] < SourceCap

GrowthInv == GrowthIsBounded /\ \A e \in Exec : GrowthByPc(e)

\* What a run has enrolled is what its sources have enrolled in it: the two
\* reservations of the transaction commit or roll back together.
RunCountsItsSources ==
  \A r \in Run : enrolledBy[r] = SumFunctionOnSet(quota[r], Player)

\* A transaction that can commit has a place of its source in every run in
\* which it has a place, and no other.
ReservedTogether(e) ==
  LET x == exec[e] IN
    \A r \in Run :
      /\ x.pc \in {"population", "run"} => RunRow(r) \notin x.held
      /\ x.pc = "source" /\ RunRow(r) \in x.held => r = x.run
      /\ x.pc = "source" => RunRow(x.run) \in x.held
      /\ RunRow(r) \in x.held => x.source \in Player
      /\ \A p \in Player :
           QuotaRow(r, p) \in x.held <=> /\ x.pc \in {"insert", "commit"}
                                        /\ RunRow(r) \in x.held /\ p = x.source

QuotaInv == RunCountsItsSources /\ \A e \in Exec : ReservedTogether(e)

\* The inductive invariant behind the theorems of EnrollmentProofs.
IInv == BudgetInv /\ GrowthInv /\ QuotaInv

\* Concurrent enrolments never take the population, or a source of it, past its
\* hard cap, and no enrolment source is ever rewritten.
WithinCaps == Abstract!Spec

\* Rediscovery never changes where a player came from, nor moves it away from
\* the roots.
DepthOnlyShrinks ==
  [][\A p \in Player : tracked[p] # None => tracked'[p] = tracked[p] /\ depth'[p] <= depth[p]]_vars

\* Waiting for row locks, and retrying without a missing run, ends.
EnrollmentsEnd == \A e \in Exec : exec[e].pc # "idle" ~> exec[e].pc = "idle"

\* README, per-match consideration window: "Repeated processing must not slide
\* to later candidates."
WindowNeverSlides ==
  [][\A m \in Match : considered[m] # {} =>
       \A p \in considered'[m] \ considered[m] :
         \E q \in considered[m] : Position[p] < Position[q]]_vars
=============================================================================
