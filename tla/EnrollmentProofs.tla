--------------------------- MODULE EnrollmentProofs ---------------------------
(***************************************************************************)
(* The budget counters are the numbers of rows, and enrolment implements   *)
(* TrackedPopulation, for every number of players, runs and concurrent     *)
(* enrolments, whatever is rolled back or aborted.                         *)
(***************************************************************************)
EXTENDS Enrollment, SumLemmas

(* A step that changes the execution e alone, and no table the budgets are
   counted from, keeps the invariant if what it leaves of e does.          *)
LEMMA ExecStep ==
  ASSUME BudgetInv, NEW e \in Exec, UNCHANGED <<tracked, total, ladder, population>>, TypeOK',
         \A f \in Exec \ {e} : exec'[f] = exec[f],
         \/ exec'[e].pc \notin TransactionPc
         \/ exec[e].pc \in TransactionPc
         \/ \A f \in Exec \ {e} : exec[f].pc \notin TransactionPc,
         ReservedByPc(e)', ReservedIsFree(e)'
  PROVE  BudgetInv'
<1>1. BudgetsMatchRows'
  BY DEF BudgetInv, BudgetsMatchRows, Abstract!Enrolled, Abstract!EnrolledFrom
<1>2. OneTransaction'
  BY DEF BudgetInv, OneTransaction
<1>3. ASSUME NEW f \in Exec PROVE ReservedByPc(f)' /\ ReservedIsFree(f)'
  <2>1. CASE f = e
    BY <2>1
  <2>2. CASE f # e
    BY <2>2 DEF BudgetInv, ReservedByPc, ReservedIsFree, UnderTotalCap
  <2> QED BY <2>1, <2>2
<1> QED BY <1>1, <1>2, <1>3 DEF BudgetInv

(* The rows of the tables, by kind. *)
LEMMA RowsAreRows ==
  /\ BudgetRow \in Row /\ PopulationRow \in Row
  /\ \A r \in Run : RunRow(r) \in Row
  /\ \A r \in Run, p \in Player : QuotaRow(r, p) \in Row
  /\ \A p \in Player : PlayerRow(p) \in Row
BY DEF Row

(* Rows of different kinds are different locks. *)
LEMMA RowsDiffer ==
  /\ BudgetRow # PopulationRow
  /\ \A r : RunRow(r) \notin {BudgetRow, PopulationRow}
  /\ \A r, p : QuotaRow(r, p) \notin {BudgetRow, PopulationRow}
  /\ \A p : PlayerRow(p) \notin {BudgetRow, PopulationRow}
BY DEF BudgetRow, PopulationRow, RunRow, QuotaRow, PlayerRow

(* An executor that does nothing holds nothing. *)
LEMMA IdleTyped == Idle \in ExecType /\ Idle.pc = "idle" /\ Idle.held = {} /\ Idle.kind = "ROOT"
BY DEF Idle, ExecType, Pc, Source

(* The initial states satisfy the inductive invariant. *)
LEMMA InitBudgetInv == Init => BudgetInv
<1> SUFFICES ASSUME Init PROVE BudgetInv
  OBVIOUS
<1>1. Cardinality(Roots) \in Nat
  BY ConstantsAssumption, FS_Subset, FS_CardinalityType
<1>2. TypeOK
  BY <1>1, IdleTyped DEF Init, TypeOK, Source
<1>3. BudgetsMatchRows
  <2>1. Abstract!Enrolled = Roots
    BY ConstantsAssumption DEF Init, Abstract!Enrolled, Source
  <2>2. Abstract!EnrolledFrom("LADDER") = {} /\ Abstract!EnrolledFrom("MATCH_PARTICIPANT") = {}
    BY ConstantsAssumption DEF Init, Abstract!EnrolledFrom, Source
  <2> QED BY <2>1, <2>2, FS_EmptySet DEF Init, BudgetsMatchRows
<1>4. OneTransaction
  BY IdleTyped DEF Init, OneTransaction, TransactionPc
<1>5. ASSUME NEW e \in Exec PROVE ReservedByPc(e) /\ ReservedIsFree(e)
  BY IdleTyped DEF Init, ReservedByPc, ReservedIsFree, TransactionPc
<1> QED BY <1>2, <1>3, <1>4, <1>5 DEF BudgetInv

-----------------------------------------------------------------------------
(* Steps that leave the tables alone.                                      *)

(* A step of one enrolment leaves the others. *)
LEMMA ExecUpdated ==
  ASSUME TypeOK, NEW e \in Exec, NEW x \in ExecType, exec' = [exec EXCEPT ![e] = x]
  PROVE  /\ exec' \in [Exec -> ExecType] /\ exec'[e] = x
         /\ \A f \in Exec \ {e} : exec'[f] = exec[f]
BY DEF TypeOK

(* A step that gives e the record y, and leaves the tables alone, keeps the
   invariant if y satisfies its part of it.                                *)
LEMMA ExecGets ==
  ASSUME BudgetInv, NEW e \in Exec, NEW y \in ExecType, exec' = [exec EXCEPT ![e] = y],
         UNCHANGED <<tables, considered, counters>>,
         \/ y.pc \notin TransactionPc
         \/ exec[e].pc \in TransactionPc
         \/ \A f \in Exec \ {e} : exec[f].pc \notin TransactionPc,
         BudgetRow \in y.held <=> y.pc \in TransactionPc,
         PopulationRow \in y.held <=> /\ y.kind = "MATCH_PARTICIPANT"
                                     /\ y.pc \in TransactionPc \ {"population"},
         y.pc \in {"next", "population", "run", "source"} => y.kind = "MATCH_PARTICIPANT",
         y.pc \notin {"idle", "next"} => y.player \in Player,
         y.kind = "MATCH_PARTICIPANT" => y.source \in Player,
         y.pc = "source" => y.run \in Run,
         y.pc \in TransactionPc => UnderTotalCap(y.kind),
         PopulationRow \in y.held => population < PopulationCap,
         y.pc = "commit" => tracked[y.player] = None
  PROVE  BudgetInv'
<1>1. exec' \in [Exec -> ExecType] /\ exec'[e] = y /\ \A f \in Exec \ {e} : exec'[f] = exec[f]
  BY ExecUpdated DEF BudgetInv
<1>2. TypeOK'
  BY <1>1 DEF BudgetInv, TypeOK, tables, counters
<1>3. ReservedByPc(e)'
  BY <1>1 DEF ReservedByPc
<1>4. ReservedIsFree(e)'
  BY <1>1 DEF ReservedIsFree, UnderTotalCap, tables
<1> QED BY <1>1, <1>2, <1>3, <1>4, ExecStep DEF tables

(* The windows of a match are sets of players. *)
LEMMA WindowTyped ==
  ASSUME NEW m \in Match, NEW p
  PROVE  Window(m, p) \in SUBSET Player
BY ConstantsAssumption DEF Window

(* The start of an enrolment reserves nothing yet. *)
LEMMA StartKeeps ==
  ASSUME BudgetInv, NEW e \in Exec, Start(e)
  PROVE  BudgetInv'
<1>1. ASSUME NEW x \in ExecType, Begin(e, x), x.held = {},
             x.pc \in {"next", "recheck", "total", "depthMin"},
             x.pc = "next" => x.kind = "MATCH_PARTICIPANT",
             x.pc # "next" => x.player \in Player,
             x.kind = "MATCH_PARTICIPANT" => x.source \in Player,
             UNCHANGED <<tables, aborts, drops>>, considered' \in [Match -> SUBSET Player]
      PROVE  BudgetInv'
  <2>1. exec' \in [Exec -> ExecType] /\ exec'[e] = x /\ \A f \in Exec \ {e} : exec'[f] = exec[f]
    BY <1>1, ExecUpdated DEF Begin, BudgetInv
  <2>2. execs' \in Nat
    BY <1>1 DEF Begin, BudgetInv, TypeOK
  <2>3. TypeOK'
    BY <1>1, <2>1, <2>2 DEF BudgetInv, TypeOK, tables
  <2>4. ReservedByPc(e)' /\ ReservedIsFree(e)'
    BY <1>1, <2>1 DEF ReservedByPc, ReservedIsFree, TransactionPc
  <2>5. x.pc \notin TransactionPc
    BY <1>1 DEF TransactionPc
  <2> QED BY <1>1, <2>1, <2>3, <2>4, <2>5, ExecStep DEF tables
<1>2. considered \in [Match -> SUBSET Player] /\ depth \in [Player -> Nat]
  BY DEF BudgetInv, TypeOK
<1>3. ASSUME NEW p \in Player, EnrollRoot(e, p) PROVE BudgetInv'
  <2>1. ASSUME NEW pc \in {"depthMin", "total"}
        PROVE  [Idle EXCEPT !.pc = pc, !.kind = "ROOT", !.player = p] \in ExecType
    BY DEF Idle, ExecType, Pc, Source
  <2> DEFINE pc == IF tracked[p] # None THEN "depthMin" ELSE "total"
             x == [Idle EXCEPT !.pc = pc, !.kind = "ROOT", !.player = p]
  <2>2. Begin(e, x) /\ UNCHANGED <<tables, considered, aborts, drops>>
    BY <1>3 DEF EnrollRoot
  <2>3. x \in ExecType /\ x.held = {} /\ x.pc \in {"depthMin", "total"} /\ x.player = p
        /\ x.kind = "ROOT"
    BY <2>1 DEF Idle
  <2> HIDE DEF x
  <2> QED BY <1>1, <1>2, <2>2, <2>3
<1>4. ASSUME NEW p \in Player, EnrollLadder(e, p) PROVE BudgetInv'
  <2>1. ASSUME NEW pc \in {"depthMin", "recheck"}
        PROVE  [Idle EXCEPT !.pc = pc, !.kind = "LADDER", !.player = p] \in ExecType
    BY DEF Idle, ExecType, Pc, Source
  <2> DEFINE pc == IF tracked[p] # None THEN "depthMin" ELSE "recheck"
             x == [Idle EXCEPT !.pc = pc, !.kind = "LADDER", !.player = p]
  <2>2. Begin(e, x) /\ UNCHANGED <<tables, considered, aborts, drops>>
    BY <1>4 DEF EnrollLadder
  <2>3. x \in ExecType /\ x.held = {} /\ x.pc \in {"depthMin", "recheck"} /\ x.player = p
        /\ x.kind = "LADDER"
    BY <2>1 DEF Idle
  <2> HIDE DEF x
  <2> QED BY <1>1, <1>2, <2>2, <2>3
<1>5. ASSUME NEW m \in Match, NEW source \in Player, NEW r \in Run \cup {None},
             Expand(e, m, source, r)
      PROVE  BudgetInv'
  <2> DEFINE x == [Idle EXCEPT !.pc = "next", !.kind = "MATCH_PARTICIPANT",
                               !.source = source, !.depth = ChildDepth(depth[source]),
                               !.run = r, !.todo = Window(m, source)]
  <2>1. ChildDepth(depth[source]) \in Nat /\ Window(m, source) \in SUBSET Player
    BY <1>2, WindowTyped DEF ChildDepth
  <2>2. x \in ExecType /\ x.held = {} /\ x.pc = "next" /\ x.kind = "MATCH_PARTICIPANT"
        /\ x.source = source
    BY <2>1 DEF Idle, ExecType, Pc, Source
  <2>3. Begin(e, x) /\ UNCHANGED <<tables, aborts, drops>>
    BY <1>5 DEF Expand
  <2>4. considered' \in [Match -> SUBSET Player]
    BY <1>2, <1>5, <2>1 DEF Expand
  <2> HIDE DEF x
  <2> QED BY <1>1, <2>2, <2>3, <2>4
<1> QED BY <1>3, <1>4, <1>5 DEF Start

(* Moving on outside a transaction. *)
LEMMA LookKeeps ==
  ASSUME BudgetInv, NEW e \in Exec,
         NextCandidate(e) \/ EndExpansion(e) \/ SkipIdentity(e) \/ Recheck(e)
  PROVE  BudgetInv'
<1> DEFINE x == exec[e]
<1>0. x \in ExecType /\ exec \in [Exec -> ExecType] /\ ReservedByPc(e)
  BY DEF BudgetInv, TypeOK
<1>1. ASSUME NEW y \in ExecType, exec' = [exec EXCEPT ![e] = y],
             y.held = x.held, y.kind = x.kind, y.source = x.source, x.pc \notin TransactionPc,
             y.pc \notin TransactionPc, y.pc = "next" => x.kind = "MATCH_PARTICIPANT",
             y.pc \notin {"idle", "next"} => y.player \in Player,
             UNCHANGED <<tables, considered, counters>>
      PROVE  BudgetInv'
  <2>1. y.pc \notin TransactionPc => /\ BudgetRow \notin y.held
                                     /\ PopulationRow \notin y.held
    BY <1>0, <1>1 DEF ReservedByPc
  <2>2. y.pc \notin {"population", "run", "source", "commit"}
    BY <1>1 DEF TransactionPc
  <2>3. /\ y.pc = "next" => y.kind = "MATCH_PARTICIPANT"
        /\ y.kind = "MATCH_PARTICIPANT" => y.source \in Player
        /\ y.pc # "source"
    BY <1>0, <1>1 DEF ReservedByPc, TransactionPc
  <2> HIDE DEF x
  <2> QED BY <1>1, <2>1, <2>2, <2>3, ExecGets
<1>2. CASE NextCandidate(e)
  <2>1. PICK p \in x.todo, pc \in {"depthMin", "next", "recheck"} :
          exec' = [exec EXCEPT ![e] = [x EXCEPT !.player = p, !.todo = x.todo \ {p},
                                                !.pc = pc]]
    BY <1>0, <1>2 DEF NextCandidate
  <2> DEFINE y == [x EXCEPT !.player = p, !.todo = x.todo \ {p}, !.pc = pc]
  <2>2. y \in ExecType /\ y.held = x.held /\ y.kind = x.kind /\ y.source = x.source
        /\ y.pc = pc /\ y.player \in Player
    BY <1>0 DEF ExecType, Pc
  <2>3. x.pc = "next" /\ UNCHANGED <<tables, considered, counters>>
    BY <1>2 DEF NextCandidate
  <2>4. x.kind = "MATCH_PARTICIPANT"
    BY <1>0, <2>3 DEF ReservedByPc
  <2>5. x.pc \notin TransactionPc /\ pc \notin TransactionPc
    BY <2>3 DEF TransactionPc
  <2>6. exec' = [exec EXCEPT ![e] = y]
    BY <2>1
  <2> HIDE DEF x, y
  <2> QED BY <1>1, <2>2, <2>3, <2>4, <2>5, <2>6
<1>3. ASSUME NEW pc \in {"idle", "next"}, Goto(e, pc), x.pc \in {"next", "recheck"},
             pc = "next" => x.kind = "MATCH_PARTICIPANT",
             UNCHANGED <<tables, considered, counters>>
      PROVE  BudgetInv'
  <2> DEFINE y == [x EXCEPT !.pc = pc]
  <2>1. y \in ExecType /\ y.held = x.held /\ y.kind = x.kind /\ y.source = x.source
        /\ y.pc = pc
    BY <1>0 DEF ExecType, Pc
  <2>2. x.pc \notin TransactionPc /\ pc \notin TransactionPc
    BY <1>3 DEF TransactionPc
  <2>3. exec' = [exec EXCEPT ![e] = y]
    BY <1>3 DEF Goto
  <2> HIDE DEF x, y
  <2> QED BY <1>1, <1>3, <2>1, <2>2, <2>3
<1>4. CASE EndExpansion(e)
  BY <1>3, <1>4 DEF EndExpansion
<1>5. CASE SkipIdentity(e)
  <2>1. Done(e) \in {"idle", "next"} /\ (Done(e) = "next" => x.kind = "MATCH_PARTICIPANT")
    BY DEF Done
  <2> QED BY <1>3, <1>5, <2>1 DEF SkipIdentity
<1>6. CASE Recheck(e)
  <2> DEFINE pc == IF tracked[x.player] # None THEN "depthMin" ELSE "total"
             attributed == x.run \in runs
             y == [x EXCEPT !.pc = pc, !.attributed = attributed, !.retried = FALSE]
  <2>1. exec' = [exec EXCEPT ![e] = y]
    BY <1>6 DEF Recheck
  <2>a. pc \in {"depthMin", "total"} /\ attributed \in BOOLEAN
    OBVIOUS
  <2> HIDE DEF pc, attributed
  <2>2. y \in ExecType /\ y.held = x.held /\ y.kind = x.kind /\ y.source = x.source
        /\ y.pc = pc /\ y.player = x.player
    BY <1>0, <2>a DEF ExecType, Pc
  <2>3. x.pc = "recheck" /\ UNCHANGED <<tables, considered, counters>>
    BY <1>6 DEF Recheck
  <2>4. x.player \in Player
    BY <1>0, <2>3 DEF ReservedByPc
  <2>5. x.pc \notin TransactionPc /\ pc \notin TransactionPc
    BY <2>3, <2>a DEF TransactionPc
  <2> HIDE DEF x, y
  <2> QED BY <1>1, <2>1, <2>a, <2>2, <2>3, <2>4, <2>5
<1> QED BY <1>2, <1>4, <1>5, <1>6

-----------------------------------------------------------------------------
(* The reservation transaction.                                            *)

(* One more reserved row, which is neither the budget row nor the population
   row, or is the one that the next step needs.                            *)
LEMMA HoldKeeps ==
  ASSUME BudgetInv, NEW e \in Exec, NEW row \in Row, NEW pc \in TransactionPc, Hold(e, row, pc),
         UNCHANGED <<tables, considered, counters>>,
         exec[e].player \in Player,
         \/ exec[e].pc \in TransactionPc /\ row # BudgetRow
         \/ /\ exec[e].pc = "total" /\ row = BudgetRow /\ Free(e, BudgetRow)
            /\ UnderTotalCap(exec[e].kind),
         pc = "population" <=> exec[e].pc = "total" /\ exec[e].kind = "MATCH_PARTICIPANT",
         row = PopulationRow <=> exec[e].pc = "population",
         row = PopulationRow => population < PopulationCap,
         pc \in {"run", "source"} => exec[e].kind = "MATCH_PARTICIPANT",
         pc = "source" => exec[e].run \in Run,
         pc = "commit" => tracked[exec[e].player] = None
  PROVE  BudgetInv'
<1> DEFINE x == exec[e]
           y == [x EXCEPT !.held = x.held \cup {row}, !.pc = pc]
<1>1. x \in ExecType /\ ReservedByPc(e) /\ ReservedIsFree(e)
  BY DEF BudgetInv, TypeOK
<1>2. exec' = [exec EXCEPT ![e] = y]
  BY DEF Hold
<1>3. y \in ExecType /\ y.held = x.held \cup {row} /\ y.pc = pc /\ y.kind = x.kind
      /\ y.player = x.player /\ y.source = x.source /\ y.run = x.run
  BY <1>1 DEF ExecType, Pc
<1>4. \/ x.pc \in TransactionPc
      \/ \A f \in Exec \ {e} : exec[f].pc \notin TransactionPc
  BY DEF BudgetInv, Free, ReservedByPc
<1>5. BudgetRow \in y.held
  BY <1>1, <1>3 DEF ReservedByPc
<1>6. PopulationRow \in y.held <=> y.kind = "MATCH_PARTICIPANT" /\ pc # "population"
  BY <1>1, <1>3, RowsDiffer DEF ReservedByPc, TransactionPc
<1>7. UnderTotalCap(y.kind)
  BY <1>1, <1>3 DEF ReservedIsFree
<1>8. PopulationRow \in y.held => population < PopulationCap
  BY <1>1, <1>3 DEF ReservedIsFree
<1>10. y.kind = "MATCH_PARTICIPANT" => y.source \in Player
  BY <1>1, <1>3 DEF ReservedByPc
<1>9. pc \in {"next", "population", "run", "source"} => y.kind = "MATCH_PARTICIPANT"
  BY <1>3 DEF TransactionPc
<1> HIDE DEF y
<1> QED BY <1>2, <1>3, <1>4, <1>5, <1>6, <1>7, <1>8, <1>9, <1>10, ExecGets

(* A transaction that throws leaves no reservation behind. *)
LEMMA RollbackKeeps ==
  ASSUME BudgetInv, NEW e \in Exec, NEW pc \in {"idle", "next", "depthMin"}, Rollback(e, pc),
         UNCHANGED <<considered, counters>>, exec[e].player \in Player,
         pc = "next" => exec[e].kind = "MATCH_PARTICIPANT"
  PROVE  BudgetInv'
<1> DEFINE x == exec[e]
           y == [x EXCEPT !.held = {}, !.pc = pc]
<1>1. x \in ExecType
  BY DEF BudgetInv, TypeOK
<1>2. exec' = [exec EXCEPT ![e] = y] /\ UNCHANGED tables
  BY DEF Rollback
<1>3. y \in ExecType /\ y.held = {} /\ y.pc = pc /\ y.kind = x.kind /\ y.player = x.player
      /\ y.source = x.source
  BY <1>1 DEF ExecType, Pc
<1>4. pc \notin TransactionPc
  BY DEF TransactionPc
<1>5. y.kind = "MATCH_PARTICIPANT" => y.source \in Player
  BY <1>3 DEF BudgetInv, ReservedByPc
<1> HIDE DEF y
<1> QED BY <1>2, <1>3, <1>4, <1>5, ExecGets

(* The steps inside the transaction. *)
LEMMA TransactionKeeps ==
  ASSUME BudgetInv, NEW e \in Exec,
         ReserveTotal(e) \/ ReservePopulation(e) \/ ReserveRun(e) \/ ReserveSource(e) \/ Insert(e)
  PROVE  BudgetInv'
<1> DEFINE x == exec[e]
<1>1. ReservedByPc(e) /\ ReservedIsFree(e) /\ x.kind \in Source /\ x.run \in Run \cup {None}
      /\ x.source \in Player \cup {None}
  BY DEF BudgetInv, TypeOK, ExecType
<1>2. x.player \in Player
  BY <1>1 DEF ReservedByPc, ReserveTotal, ReservePopulation, ReserveRun, ReserveSource, Insert
<1>3. ASSUME NEW pc \in {"idle", "next", "depthMin"}, Rollback(e, pc), pc = "next" => pc = Done(e),
             UNCHANGED <<considered, counters>>
      PROVE  BudgetInv'
  <2>1. pc = "next" => x.kind = "MATCH_PARTICIPANT"
    BY <1>3 DEF Done
  <2> HIDE DEF x
  <2> QED BY <1>2, <1>3, <2>1, RollbackKeeps DEF x
<1>9. /\ Rejected(e, Done(e)) \in {"idle", "next", "depthMin"}
      /\ Rejected(e, Done(e)) = "next" => Rejected(e, Done(e)) = Done(e)
      /\ Rejected(e, "depthMin") \in {"idle", "next", "depthMin"} /\ Rejected(e, "depthMin") # "next"
  BY DEF Rejected, Done
<1>4. CASE ReserveTotal(e)
  <2>1. CASE UnderTotalCap(x.kind)
    <3>1. AfterTotal(e) \in {"population", "insert"}
          /\ (AfterTotal(e) = "population" <=> x.kind = "MATCH_PARTICIPANT")
      BY DEF AfterTotal
    <3>2. Hold(e, BudgetRow, AfterTotal(e)) /\ UNCHANGED <<tables, considered, counters>>
          /\ x.pc = "total" /\ Free(e, BudgetRow)
      BY <1>4, <2>1 DEF ReserveTotal
    <3>3. AfterTotal(e) \in TransactionPc
      BY <3>1 DEF TransactionPc
    <3> QED BY <1>2, <2>1, <3>1, <3>2, <3>3, RowsAreRows, RowsDiffer, HoldKeeps
  <2>2. CASE ~UnderTotalCap(x.kind)
    BY <1>3, <1>4, <1>9, <2>2 DEF ReserveTotal
  <2> QED BY <2>1, <2>2
<1>5. CASE ReservePopulation(e)
  <2>1. CASE population < PopulationCap
    <3> DEFINE pc == IF exec[e].attributed THEN "run" ELSE "insert"
    <3>1. pc \in TransactionPc /\ pc \in {"run", "insert"}
      BY DEF TransactionPc
    <3>2. Hold(e, PopulationRow, pc) /\ UNCHANGED <<tables, considered, counters>>
          /\ x.pc = "population"
      BY <1>5, <2>1 DEF ReservePopulation
    <3>3. x.kind = "MATCH_PARTICIPANT" /\ x.pc \in TransactionPc
      BY <1>1, <3>2 DEF ReservedByPc, TransactionPc
    <3> HIDE DEF pc
    <3> QED BY <1>2, <2>1, <3>1, <3>2, <3>3, RowsAreRows, RowsDiffer, HoldKeeps
  <2>2. CASE ~(population < PopulationCap)
    BY <1>3, <1>5, <1>9, <2>2 DEF ReservePopulation
  <2> QED BY <2>1, <2>2
<1>6. CASE ReserveRun(e)
  <2>1. CASE enrolledBy[x.run] < RunCap
    <3>1. Hold(e, RunRow(x.run), "source") /\ UNCHANGED <<tables, considered, counters>>
          /\ x.pc = "run" /\ x.run \in Run
      BY <1>6, <2>1 DEF ReserveRun, AfterRun, BudgetInv, TypeOK
    <3>2. x.kind = "MATCH_PARTICIPANT" /\ x.pc \in TransactionPc /\ "source" \in TransactionPc
      BY <1>1, <3>1 DEF ReservedByPc, TransactionPc
    <3> QED BY <1>2, <3>1, <3>2, RowsAreRows, RowsDiffer, HoldKeeps
  <2>2. CASE ~(enrolledBy[x.run] < RunCap)
    BY <1>3, <1>6, <1>9, <2>2 DEF ReserveRun
  <2> QED BY <2>1, <2>2
<1>7. CASE ReserveSource(e)
  <2>1. CASE quota[x.run][x.source] < SourceCap
    <3>1. Hold(e, QuotaRow(x.run, x.source), "insert") /\ UNCHANGED <<tables, considered, counters>>
          /\ x.pc = "source"
      BY <1>7, <2>1 DEF ReserveSource
    <3>3. x.run \in Run /\ x.source \in Player
      BY <1>1, <3>1 DEF ReservedByPc
    <3>2. x.kind = "MATCH_PARTICIPANT" /\ x.pc \in TransactionPc /\ "insert" \in TransactionPc
      BY <1>1, <3>1 DEF ReservedByPc, TransactionPc
    <3> QED BY <1>2, <3>1, <3>2, <3>3, RowsAreRows, RowsDiffer, HoldKeeps
  <2>2. CASE ~(quota[x.run][x.source] < SourceCap)
    BY <1>3, <1>7, <1>9, <2>2 DEF ReserveSource
  <2> QED BY <2>1, <2>2
<1>8. CASE Insert(e)
  <2>1. CASE tracked[x.player] = None
    <3>1. Hold(e, PlayerRow(x.player), "commit") /\ UNCHANGED <<tables, considered, counters>>
          /\ x.pc = "insert"
      BY <1>8, <2>1 DEF Insert
    <3>2. x.pc \in TransactionPc /\ "commit" \in TransactionPc
      BY <3>1 DEF TransactionPc
    <3> QED BY <1>2, <2>1, <3>1, <3>2, RowsAreRows, RowsDiffer, HoldKeeps
  <2>2. CASE tracked[x.player] # None
    <3>1. Rollback(e, Rejected(e, "depthMin")) /\ UNCHANGED <<considered, counters>>
      BY <1>8, <2>2 DEF Insert
    <3> QED BY <1>3, <1>9, <3>1
  <2> QED BY <2>1, <2>2
<1> QED BY <1>4, <1>5, <1>6, <1>7, <1>8

(* The run to attribute to has gone. *)
LEMMA RunMissingKeeps ==
  ASSUME BudgetInv, NEW e \in Exec, RunMissing(e)
  PROVE  BudgetInv'
<1> DEFINE x == exec[e]
           y == [x EXCEPT !.held = {}, !.pc = "total", !.attributed = FALSE, !.retried = TRUE]
<1>1. x \in ExecType /\ ReservedByPc(e) /\ x.pc = "run"
  BY DEF BudgetInv, TypeOK, RunMissing
<1>2. exec' = [exec EXCEPT ![e] = y] /\ UNCHANGED <<tables, considered, counters>>
  BY DEF RunMissing, RetryAttributed
<1>3. y \in ExecType /\ y.held = {} /\ y.pc = "total" /\ y.player = x.player
      /\ y.kind = x.kind /\ y.source = x.source
  BY <1>1 DEF ExecType, Pc
<1>4. "total" \notin TransactionPc
  BY DEF TransactionPc
<1>5. x.player \in Player /\ (x.kind = "MATCH_PARTICIPANT" => x.source \in Player)
  BY <1>1 DEF ReservedByPc
<1> HIDE DEF x, y
<1> QED BY <1>2, <1>3, <1>4, <1>5, ExecGets

(* What a commit adds to the numbers of rows. *)
LEMMA CommitCounts ==
  ASSUME NEW p \in Player, NEW s \in Source, tracked[p] = None,
         tracked \in [Player -> Source \cup {None}],
         tracked' = [tracked EXCEPT ![p] = s]
  PROVE  /\ Cardinality(Abstract!Enrolled)' = Cardinality(Abstract!Enrolled) + 1
         /\ \A t \in Source : Cardinality(Abstract!EnrolledFrom(t))'
                               = Cardinality(Abstract!EnrolledFrom(t)) + (IF t = s THEN 1 ELSE 0)
<1>0. IsFiniteSet(Player) /\ None \notin Source
  BY ConstantsAssumption
<1>1. IsFiniteSet(Abstract!Enrolled) /\ p \notin Abstract!Enrolled
      /\ Abstract!Enrolled' = Abstract!Enrolled \cup {p}
  <2>1. Abstract!Enrolled \subseteq Player
    BY DEF Abstract!Enrolled
  <2> QED BY <1>0, <2>1, FS_Subset DEF Abstract!Enrolled
<1>2. ASSUME NEW t \in Source
      PROVE  Cardinality(Abstract!EnrolledFrom(t))'
             = Cardinality(Abstract!EnrolledFrom(t)) + (IF t = s THEN 1 ELSE 0)
  <2>1. IsFiniteSet(Abstract!EnrolledFrom(t)) /\ p \notin Abstract!EnrolledFrom(t)
    <3>1. Abstract!EnrolledFrom(t) \subseteq Player
      BY DEF Abstract!EnrolledFrom
    <3> QED BY <1>0, <3>1, FS_Subset DEF Abstract!EnrolledFrom
  <2>2. Cardinality(Abstract!EnrolledFrom(t)) \in Nat
    BY <2>1, FS_CardinalityType
  <2>3. CASE t = s
    <3>1. Abstract!EnrolledFrom(t)' = Abstract!EnrolledFrom(t) \cup {p}
      BY <2>3 DEF Abstract!EnrolledFrom
    <3> QED BY <2>1, <2>2, <2>3, <3>1, FS_AddElement
  <2>4. CASE t # s
    <3>1. Abstract!EnrolledFrom(t)' = Abstract!EnrolledFrom(t)
      BY <1>0, <2>4 DEF Abstract!EnrolledFrom
    <3> QED BY <2>2, <2>4, <3>1
  <2> QED BY <2>3, <2>4
<1>3. Cardinality(Abstract!Enrolled)' = Cardinality(Abstract!Enrolled) + 1
  BY <1>1, FS_AddElement
<1> QED BY <1>2, <1>3

(* What a commit writes, by its kind. *)
LEMMA CommitWrites ==
  ASSUME BudgetInv, NEW e \in Exec, Commit(e)
  PROVE  /\ exec[e].player \in Player /\ exec[e].kind \in Source
         /\ tracked[exec[e].player] = None
         /\ tracked' = [tracked EXCEPT ![exec[e].player] = exec[e].kind]
         /\ total' = total + 1
         /\ ladder' = ladder + (IF exec[e].kind = "LADDER" THEN 1 ELSE 0)
         /\ population' = population + (IF exec[e].kind = "MATCH_PARTICIPANT" THEN 1 ELSE 0)
<1>1. exec[e].pc = "commit" /\ ReservedByPc(e) /\ ReservedIsFree(e) /\ exec[e].kind \in Source
  BY DEF Commit, BudgetInv, TypeOK, ExecType
<1>2. ladder \in Nat
  BY DEF BudgetInv, TypeOK
<1>3. BudgetRow \in exec[e].held
      /\ (PopulationRow \in exec[e].held <=> exec[e].kind = "MATCH_PARTICIPANT")
  BY <1>1 DEF ReservedByPc, TransactionPc
<1> QED BY <1>1, <1>2, <1>3 DEF Commit, ApplyReservations, Reserved, ReservedByPc, ReservedIsFree

(* The commit turns what is reserved into a row. *)
LEMMA CommitKeeps ==
  ASSUME BudgetInv, NEW e \in Exec, Commit(e)
  PROVE  BudgetInv'
<1> DEFINE x == exec[e]
           y == [x EXCEPT !.held = {}, !.pc = Done(e)]
<1>1. x \in ExecType /\ ReservedByPc(e) /\ x.pc = "commit" /\ TypeOK
  BY DEF BudgetInv, TypeOK, Commit
<1>2. Done(e) \in {"idle", "next"} /\ (Done(e) = "next" => x.kind = "MATCH_PARTICIPANT")
  BY DEF Done
<1>3. y \in ExecType /\ y.held = {} /\ y.pc = Done(e) /\ y.kind = x.kind /\ y.source = x.source
  BY <1>1, <1>2 DEF ExecType, Pc
<1>4. exec' = [exec EXCEPT ![e] = y]
  BY DEF Commit
<1>5. exec' \in [Exec -> ExecType] /\ exec'[e] = y /\ \A f \in Exec \ {e} : exec'[f] = exec[f]
  <2> HIDE DEF y
  <2> QED BY <1>1, <1>3, <1>4, ExecUpdated
<1>6. BudgetsMatchRows'
  BY CommitWrites, CommitCounts, <1>1 DEF BudgetInv, BudgetsMatchRows, TypeOK, Source
<1>7. TypeOK'
  <2>1. total' \in Nat /\ ladder' \in Nat /\ population' \in Nat
    BY <1>1, CommitWrites DEF TypeOK
  <2>2. tracked' \in [Player -> Source \cup {None}]
    BY <1>1, CommitWrites DEF TypeOK
  <2>3. depth' \in [Player -> Nat]
    BY <1>1 DEF TypeOK, Commit, ExecType
  <2>4. enrolledBy' \in [Run -> Nat]
    BY <1>1 DEF TypeOK, Commit, ApplyReservations, Reserved
  <2>5. quota' \in [Run -> [Player -> Nat]]
    BY <1>1 DEF TypeOK, Commit, ApplyReservations, Reserved
  <2>6. UNCHANGED <<runs, considered, execs, aborts, drops>>
    BY DEF Commit, ApplyReservations, counters
  <2> QED BY <1>1, <1>5, <2>1, <2>2, <2>3, <2>4, <2>5, <2>6 DEF TypeOK
<1>8. \A f \in Exec \ {e} : exec[f].pc \notin TransactionPc
  BY <1>1 DEF BudgetInv, OneTransaction, TransactionPc
<1>9. y.pc \notin TransactionPc
  BY <1>2, <1>3 DEF TransactionPc
<1>10. OneTransaction'
  BY <1>5, <1>8, <1>9 DEF OneTransaction
<1>11. ReservedByPc(e)' /\ ReservedIsFree(e)'
  <2>1. x.kind = "MATCH_PARTICIPANT" => x.source \in Player
    BY <1>1 DEF ReservedByPc
  <2> HIDE DEF x, y
  <2> QED BY <1>2, <1>3, <1>5, <1>9, <2>1 DEF ReservedByPc, ReservedIsFree, TransactionPc
<1>12. ASSUME NEW f \in Exec \ {e} PROVE ReservedByPc(f)' /\ ReservedIsFree(f)'
  <2>1. ReservedByPc(f)
    BY DEF BudgetInv
  <2> QED BY <1>5, <1>8, <2>1 DEF ReservedByPc, ReservedIsFree, TransactionPc
<1> QED BY <1>6, <1>7, <1>10, <1>11, <1>12 DEF BudgetInv

(* A rediscovery reserves nothing. *)
LEMMA ApplyDepthMinKeeps ==
  ASSUME BudgetInv, NEW e \in Exec, ApplyDepthMin(e)
  PROVE  BudgetInv'
<1> DEFINE x == exec[e]
           y == [x EXCEPT !.pc = Done(e)]
<1>1. x \in ExecType /\ ReservedByPc(e) /\ x.pc = "depthMin" /\ TypeOK
  BY DEF BudgetInv, TypeOK, ApplyDepthMin
<1>2. Done(e) \in {"idle", "next"} /\ (Done(e) = "next" => x.kind = "MATCH_PARTICIPANT")
  BY DEF Done
<1>3. y \in ExecType /\ y.held = x.held /\ y.pc = Done(e) /\ y.kind = x.kind
      /\ y.source = x.source
  BY <1>1, <1>2 DEF ExecType, Pc
<1>4. exec' = [exec EXCEPT ![e] = y]
  BY DEF ApplyDepthMin, Goto
<1>5. exec' \in [Exec -> ExecType] /\ exec'[e] = y /\ \A f \in Exec \ {e} : exec'[f] = exec[f]
  <2> HIDE DEF y
  <2> QED BY <1>1, <1>3, <1>4, ExecUpdated
<1>6. depth' \in [Player -> Nat]
  <2>1. LeastDepth(depth[x.player], x.depth) \in Nat \/ x.player \notin Player
    BY <1>1 DEF LeastDepth, TypeOK, ExecType
  <2> QED BY <1>1, <2>1 DEF ApplyDepthMin, TypeOK
<1>7. TypeOK'
  BY <1>1, <1>5, <1>6 DEF TypeOK, ApplyDepthMin, counters
<1>8. y.pc \notin TransactionPc /\ x.pc \notin TransactionPc
  BY <1>1, <1>2, <1>3 DEF TransactionPc
<1>9. ReservedByPc(e)' /\ ReservedIsFree(e)'
  <2>1. BudgetRow \notin x.held /\ PopulationRow \notin x.held
        /\ (x.kind = "MATCH_PARTICIPANT" => x.source \in Player)
    BY <1>1, <1>8 DEF ReservedByPc
  <2> HIDE DEF x, y
  <2> QED BY <1>2, <1>3, <1>5, <1>8, <2>1 DEF ReservedByPc, ReservedIsFree, TransactionPc
<1> HIDE DEF y
<1> QED BY <1>5, <1>7, <1>8, <1>9, ExecStep DEF ApplyDepthMin

(* What dies with the connection is rolled back. *)
LEMMA AbortKeeps ==
  ASSUME BudgetInv, NEW e \in Exec, Abort(e)
  PROVE  BudgetInv'
<1>1. exec' \in [Exec -> ExecType] /\ exec'[e] = Idle /\ \A f \in Exec \ {e} : exec'[f] = exec[f]
  BY IdleTyped, ExecUpdated DEF Abort, BudgetInv
<1>2. TypeOK'
  BY <1>1 DEF BudgetInv, TypeOK, Abort, tables
<1>3. ReservedByPc(e)' /\ ReservedIsFree(e)'
  BY <1>1, IdleTyped DEF ReservedByPc, ReservedIsFree, TransactionPc
<1>4. exec'[e].pc \notin TransactionPc
  BY <1>1, IdleTyped DEF TransactionPc
<1> QED BY <1>1, <1>2, <1>3, <1>4, ExecStep DEF Abort, tables

(* A step that leaves the executions and the counted tables alone. *)
LEMMA QuietKeeps ==
  ASSUME BudgetInv, TypeOK', UNCHANGED <<tracked, total, ladder, population, exec>>
  PROVE  BudgetInv'
<1>1. BudgetsMatchRows'
  BY DEF BudgetInv, BudgetsMatchRows, Abstract!Enrolled, Abstract!EnrolledFrom
<1>2. OneTransaction' /\ \A e \in Exec : ReservedByPc(e)' /\ ReservedIsFree(e)'
  BY DEF BudgetInv, OneTransaction, ReservedByPc, ReservedIsFree, UnderTotalCap
<1> QED BY <1>1, <1>2 DEF BudgetInv

(* Every step keeps the inductive invariant. *)
LEMMA NextKeeps == BudgetInv /\ [Next]_vars => BudgetInv'
<1> SUFFICES ASSUME BudgetInv, [Next]_vars PROVE BudgetInv'
  OBVIOUS
<1>1. CASE UNCHANGED vars
  <2>1. TypeOK'
    BY <1>1 DEF vars, tables, counters, BudgetInv, TypeOK
  <2> QED BY <1>1, <2>1, QuietKeeps DEF vars, tables
<1>2. ASSUME NEW r \in Run, DropRun(r) PROVE BudgetInv'
  <2>1. TypeOK'
    BY <1>2 DEF DropRun, BudgetInv, TypeOK
  <2> QED BY <1>2, <2>1, QuietKeeps DEF DropRun
<1>3. ASSUME NEW e \in Exec, Step(e) PROVE BudgetInv'
  BY <1>3, LookKeeps, TransactionKeeps, RunMissingKeeps, CommitKeeps, ApplyDepthMinKeeps DEF Step
<1>4. ASSUME NEW e \in Exec, Start(e) \/ Abort(e) PROVE BudgetInv'
  BY <1>4, StartKeeps, AbortKeeps
<1> QED BY <1>1, <1>2, <1>3, <1>4 DEF Next

-----------------------------------------------------------------------------
(* Growth keeps to its depth and to the quotas of its runs.                *)

(* The bounds on growth hold at first. *)
LEMMA InitGrowthInv == Init => GrowthInv
<1> SUFFICES ASSUME Init PROVE GrowthInv
  OBVIOUS
<1>1. GrowthIsShallow
  BY ConstantsAssumption DEF Init, GrowthIsShallow
<1>2. RunQuotasHold
  BY ConstantsAssumption DEF Init, RunQuotasHold
<1>3. ASSUME NEW e \in Exec PROVE GrowthByPc(e)
  BY IdleTyped DEF Init, GrowthByPc
<1> QED BY <1>1, <1>2, <1>3 DEF GrowthInv, GrowthIsBounded

(* A step that gives e the record y, and leaves the tables alone, keeps the
   invariant if y satisfies its part of it.                                *)
LEMMA GrowthGets ==
  ASSUME TypeOK, GrowthInv, NEW e \in Exec, NEW y, exec' = [exec EXCEPT ![e] = y],
         UNCHANGED <<tracked, depth, enrolledBy, quota>>,
         y.kind = "MATCH_PARTICIPANT" /\ y.pc \in {"recheck", "total"} \cup TransactionPc
           => ~TooDeep(y.depth),
         y.pc \notin TransactionPc => y.held = {},
         \A r \in Run : RunRow(r) \in y.held
                         => RunRow(r) \in exec[e].held \/ enrolledBy[r] < RunCap,
         \A r \in Run, p \in Player : QuotaRow(r, p) \in y.held
                         => QuotaRow(r, p) \in exec[e].held \/ quota[r][p] < SourceCap
  PROVE  GrowthInv'
<1>1. exec'[e] = y /\ \A f \in Exec \ {e} : exec'[f] = exec[f]
  BY DEF TypeOK
<1>2. GrowthIsBounded'
  BY DEF GrowthInv, GrowthIsBounded, GrowthIsShallow, RunQuotasHold
<1>3. ASSUME NEW f \in Exec PROVE GrowthByPc(f)'
  <2>1. CASE f = e
    BY <1>1, <2>1 DEF GrowthInv, GrowthByPc
  <2>2. CASE f # e
    BY <1>1, <2>2 DEF GrowthInv, GrowthByPc
  <2> QED BY <2>1, <2>2
<1> QED BY <1>2, <1>3 DEF GrowthInv

(* Rows that are told apart by their keys. *)
LEMMA GrowthRows ==
  /\ \A r, s : RunRow(r) = RunRow(s) => r = s
  /\ \A r, s, p, q : QuotaRow(r, p) = QuotaRow(s, q) => r = s /\ p = q
  /\ \A r, s, p : RunRow(r) # QuotaRow(s, p)
  /\ \A r, p : RunRow(r) \notin {BudgetRow, PopulationRow, PlayerRow(p)}
  /\ \A r, p, q : QuotaRow(r, p) \notin {BudgetRow, PopulationRow, PlayerRow(q)}
BY DEF BudgetRow, PopulationRow, RunRow, QuotaRow, PlayerRow

(* Outside the transaction. *)
LEMMA LookGrows ==
  ASSUME TypeOK, GrowthInv, NEW e \in Exec,
         \/ Start(e) \/ NextCandidate(e) \/ EndExpansion(e) \/ SkipIdentity(e) \/ Recheck(e)
         \/ RunMissing(e) \/ Abort(e)
  PROVE  GrowthInv'
<1> DEFINE x == exec[e]
<1>1. x \in ExecType /\ GrowthByPc(e)
  BY DEF TypeOK, GrowthInv
<1>2. ASSUME NEW y, exec' = [exec EXCEPT ![e] = y], y.held = {}, UNCHANGED tables,
             y.kind = "MATCH_PARTICIPANT" /\ y.pc \in {"recheck", "total"} \cup TransactionPc
               => ~TooDeep(y.depth)
      PROVE  GrowthInv'
  <2> HIDE DEF x
  <2> QED BY <1>2, GrowthGets DEF tables
<1>3. CASE Start(e)
  <2>1. PICK y : /\ exec' = [exec EXCEPT ![e] = y] /\ UNCHANGED tables
                 /\ y.held = {} /\ (y.kind = "MATCH_PARTICIPANT" => y.pc = "next")
    <3>1. ASSUME NEW p \in Player, NEW pc, NEW kind \in {"ROOT", "LADDER"},
                 Begin(e, [Idle EXCEPT !.pc = pc, !.kind = kind, !.player = p]),
                 UNCHANGED tables
          PROVE  \E y : /\ exec' = [exec EXCEPT ![e] = y] /\ UNCHANGED tables
                        /\ y.held = {} /\ (y.kind = "MATCH_PARTICIPANT" => y.pc = "next")
      <4> DEFINE y == [Idle EXCEPT !.pc = pc, !.kind = kind, !.player = p]
      <4>1. y.held = {} /\ y.kind = kind
        BY DEF Idle
      <4>2. exec' = [exec EXCEPT ![e] = y]
        BY <3>1 DEF Begin
      <4> HIDE DEF y
      <4> QED BY <3>1, <4>1, <4>2
    <3>2. CASE \E p \in Player : EnrollRoot(e, p) \/ EnrollLadder(e, p)
      BY <3>1, <3>2 DEF EnrollRoot, EnrollLadder
    <3>3. ASSUME NEW m \in Match, NEW source \in Player, NEW r \in Run \cup {None},
                 Expand(e, m, source, r)
          PROVE  \E y : /\ exec' = [exec EXCEPT ![e] = y] /\ UNCHANGED tables
                        /\ y.held = {} /\ (y.kind = "MATCH_PARTICIPANT" => y.pc = "next")
      <4> DEFINE y == [Idle EXCEPT !.pc = "next", !.kind = "MATCH_PARTICIPANT",
                                   !.source = source, !.depth = ChildDepth(depth[source]),
                                   !.run = r, !.todo = Window(m, source)]
      <4>1. y.held = {} /\ y.pc = "next"
        BY DEF Idle
      <4>2. exec' = [exec EXCEPT ![e] = y] /\ UNCHANGED tables
        BY <3>3 DEF Expand, Begin
      <4> HIDE DEF y
      <4> QED BY <4>1, <4>2
    <3> QED BY <1>3, <3>2, <3>3 DEF Start
  <2>2. y.pc = "next" => y.pc \notin {"recheck", "total"} \cup TransactionPc
    BY DEF TransactionPc
  <2> QED BY <1>2, <2>1, <2>2
<1>4. ASSUME x.pc \in {"next", "recheck"} PROVE x.held = {}
  BY <1>1, <1>4 DEF GrowthByPc, TransactionPc
<1>5. CASE NextCandidate(e)
  <2> DEFINE step(p) == CASE tracked[p] # None -> "depthMin"
                          [] tracked[p] = None /\ TooDeep(x.depth) -> "next"
                          [] OTHER -> "recheck"
  <2>1. PICK p \in x.todo : exec' = [exec EXCEPT ![e] = [x EXCEPT
                            !.player = p, !.todo = x.todo \ {p}, !.pc = step(p)]]
    BY <1>5 DEF NextCandidate
  <2>2. step(p) = "recheck" => ~TooDeep(x.depth)
    OBVIOUS
  <2>3. step(p) \in {"depthMin", "next", "recheck"}
    OBVIOUS
  <2> HIDE DEF step
  <2> DEFINE y == [x EXCEPT !.player = p, !.todo = x.todo \ {p}, !.pc = step(p)]
  <2>4. y.held = {} /\ y.pc = step(p) /\ y.depth = x.depth
    BY <1>1, <1>4, <1>5 DEF NextCandidate, ExecType
  <2>5. exec' = [exec EXCEPT ![e] = y] /\ UNCHANGED tables
    BY <1>5, <2>1 DEF NextCandidate
  <2>6. step(p) # "recheck" => step(p) \notin {"recheck", "total"} \cup TransactionPc
    BY <2>3 DEF TransactionPc
  <2> HIDE DEF y, x
  <2> QED BY <1>2, <2>2, <2>4, <2>5, <2>6
<1>6. CASE EndExpansion(e) \/ SkipIdentity(e)
  <2>1. PICK pc \in {"idle", "next"} : Goto(e, pc) /\ UNCHANGED tables /\ x.held = {}
    BY <1>4, <1>6 DEF EndExpansion, SkipIdentity, Done
  <2> DEFINE y == [x EXCEPT !.pc = pc]
  <2>2. y.held = {} /\ y.pc = pc
    BY <1>1, <2>1 DEF ExecType
  <2>3. exec' = [exec EXCEPT ![e] = y] /\ UNCHANGED tables
    BY <2>1 DEF Goto
  <2>4. pc \notin {"recheck", "total"} \cup TransactionPc
    BY DEF TransactionPc
  <2> HIDE DEF y, x
  <2> QED BY <1>2, <2>2, <2>3, <2>4
<1>7. CASE Recheck(e)
  <2> DEFINE pc == IF tracked[x.player] # None THEN "depthMin" ELSE "total"
             y == [x EXCEPT !.pc = pc, !.attributed = x.run \in runs, !.retried = FALSE]
  <2>1. y.held = {} /\ y.kind = x.kind /\ y.depth = x.depth /\ x.pc = "recheck"
    BY <1>1, <1>4, <1>7 DEF Recheck, ExecType
  <2>2. exec' = [exec EXCEPT ![e] = y] /\ UNCHANGED tables
    BY <1>7 DEF Recheck
  <2>3. x.kind = "MATCH_PARTICIPANT" => ~TooDeep(x.depth)
    BY <1>1, <2>1 DEF GrowthByPc
  <2> HIDE DEF y, x
  <2> QED BY <1>2, <2>1, <2>2, <2>3
<1>8. CASE RunMissing(e)
  <2> DEFINE y == [x EXCEPT !.held = {}, !.pc = "total", !.attributed = FALSE, !.retried = TRUE]
  <2>1. y.held = {} /\ y.kind = x.kind /\ y.depth = x.depth /\ x.pc = "run"
    BY <1>1, <1>8 DEF RunMissing, ExecType
  <2>2. exec' = [exec EXCEPT ![e] = y] /\ UNCHANGED tables
    BY <1>8 DEF RunMissing, RetryAttributed
  <2>3. x.kind = "MATCH_PARTICIPANT" => ~TooDeep(x.depth)
    BY <1>1, <2>1 DEF GrowthByPc, TransactionPc
  <2> HIDE DEF y, x
  <2> QED BY <1>2, <2>1, <2>2, <2>3
<1>9. CASE Abort(e)
  BY <1>2, <1>9, IdleTyped DEF Abort, tables
<1> QED BY <1>3, <1>5, <1>6, <1>7, <1>8, <1>9

(* Inside the transaction. *)
LEMMA TransactionGrows ==
  ASSUME BudgetInv, GrowthInv, NEW e \in Exec,
         ReserveTotal(e) \/ ReservePopulation(e) \/ ReserveRun(e) \/ ReserveSource(e) \/ Insert(e)
  PROVE  GrowthInv'
<1> DEFINE x == exec[e]
<1>1. x \in ExecType /\ GrowthByPc(e) /\ ReservedByPc(e) /\ TypeOK
  BY DEF BudgetInv, TypeOK, GrowthInv
<1>2. ASSUME NEW pc \in {"idle", "next", "depthMin"}, Rollback(e, pc) PROVE GrowthInv'
  <2> DEFINE y == [x EXCEPT !.held = {}, !.pc = pc]
  <2>1. y.held = {} /\ y.pc = pc
    BY <1>1 DEF ExecType
  <2>2. exec' = [exec EXCEPT ![e] = y] /\ UNCHANGED tables
    BY <1>2 DEF Rollback
  <2>3. pc \notin {"recheck", "total"} \cup TransactionPc
    BY DEF TransactionPc
  <2> HIDE DEF y, x
  <2> QED BY <1>1, <2>1, <2>2, <2>3, GrowthGets DEF tables
<1>3. ASSUME NEW row, NEW pc \in TransactionPc, Hold(e, row, pc), UNCHANGED tables,
             x.pc \in {"total"} \cup TransactionPc,
             \A r \in Run : row = RunRow(r) => enrolledBy[r] < RunCap,
             \A r \in Run, p \in Player : row = QuotaRow(r, p) => quota[r][p] < SourceCap
      PROVE  GrowthInv'
  <2> DEFINE y == [x EXCEPT !.held = x.held \cup {row}, !.pc = pc]
  <2>1. y.held = x.held \cup {row} /\ y.pc = pc /\ y.kind = x.kind /\ y.depth = x.depth
    BY <1>1 DEF ExecType
  <2>2. exec' = [exec EXCEPT ![e] = y]
    BY <1>3 DEF Hold
  <2>3. x.kind = "MATCH_PARTICIPANT" => ~TooDeep(x.depth)
    BY <1>1, <1>3 DEF GrowthByPc
  <2>4. \A r \in Run : RunRow(r) \in y.held
                        => RunRow(r) \in exec[e].held \/ enrolledBy[r] < RunCap
    BY <1>3, <2>1
  <2>5. \A r \in Run, p \in Player : QuotaRow(r, p) \in y.held
                        => QuotaRow(r, p) \in exec[e].held \/ quota[r][p] < SourceCap
    BY <1>3, <2>1
  <2>6. UNCHANGED <<tracked, depth, enrolledBy, quota>>
    BY <1>3 DEF tables
  <2> HIDE DEF y, x
  <2> QED BY <1>1, <1>3, <2>1, <2>2, <2>3, <2>4, <2>5, <2>6, GrowthGets
<1>4. {Rejected(e, Done(e)), Rejected(e, "depthMin")} \subseteq {"idle", "next", "depthMin"}
  BY DEF Rejected, Done
<1>5. CASE ReserveTotal(e)
  <2>1. CASE UnderTotalCap(x.kind)
    <3>1. AfterTotal(e) \in TransactionPc
      BY DEF AfterTotal, TransactionPc
    <3>2. Hold(e, BudgetRow, AfterTotal(e)) /\ UNCHANGED tables /\ x.pc = "total"
      BY <1>5, <2>1 DEF ReserveTotal
    <3> QED BY <1>3, <3>1, <3>2, GrowthRows
  <2>2. CASE ~UnderTotalCap(x.kind)
    BY <1>2, <1>4, <1>5, <2>2 DEF ReserveTotal
  <2> QED BY <2>1, <2>2
<1>6. CASE ReservePopulation(e)
  <2>1. CASE population < PopulationCap
    <3> DEFINE pc == IF exec[e].attributed THEN "run" ELSE "insert"
    <3>1. pc \in TransactionPc
      BY DEF TransactionPc
    <3>2. Hold(e, PopulationRow, pc) /\ UNCHANGED tables /\ x.pc \in TransactionPc
      BY <1>6, <2>1 DEF ReservePopulation, TransactionPc
    <3> HIDE DEF pc
    <3> QED BY <1>3, <3>1, <3>2, GrowthRows
  <2>2. CASE ~(population < PopulationCap)
    BY <1>2, <1>4, <1>6, <2>2 DEF ReservePopulation
  <2> QED BY <2>1, <2>2
<1>7. CASE ReserveRun(e)
  <2>1. CASE enrolledBy[x.run] < RunCap
    <3>1. Hold(e, RunRow(x.run), "source") /\ UNCHANGED tables /\ x.pc = "run"
      BY <1>7, <2>1 DEF ReserveRun, AfterRun
    <3>2. x.pc \in TransactionPc /\ "source" \in TransactionPc
      BY <3>1 DEF TransactionPc
    <3> QED BY <1>3, <2>1, <3>1, <3>2, GrowthRows
  <2>2. CASE ~(enrolledBy[x.run] < RunCap)
    BY <1>2, <1>4, <1>7, <2>2 DEF ReserveRun
  <2> QED BY <2>1, <2>2
<1>8. CASE ReserveSource(e)
  <2>1. CASE quota[x.run][x.source] < SourceCap
    <3>1. Hold(e, QuotaRow(x.run, x.source), "insert") /\ UNCHANGED tables /\ x.pc = "source"
      BY <1>8, <2>1 DEF ReserveSource
    <3>2. x.pc \in TransactionPc /\ "insert" \in TransactionPc
      BY <3>1 DEF TransactionPc
    <3> QED BY <1>3, <2>1, <3>1, <3>2, GrowthRows
  <2>2. CASE ~(quota[x.run][x.source] < SourceCap)
    BY <1>2, <1>4, <1>8, <2>2 DEF ReserveSource
  <2> QED BY <2>1, <2>2
<1>9. CASE Insert(e)
  <2>1. CASE tracked[x.player] = None
    <3>1. Hold(e, PlayerRow(x.player), "commit") /\ UNCHANGED tables /\ x.pc = "insert"
      BY <1>9, <2>1 DEF Insert
    <3>2. x.pc \in TransactionPc /\ "commit" \in TransactionPc
      BY <3>1 DEF TransactionPc
    <3> QED BY <1>3, <3>1, <3>2, GrowthRows
  <2>2. CASE tracked[x.player] # None
    BY <1>2, <1>4, <1>9, <2>2 DEF Insert
  <2> QED BY <2>1, <2>2
<1> QED BY <1>5, <1>6, <1>7, <1>8, <1>9

(* A commit adds one to what it has reserved, which no one else has. *)
LEMMA CommitGrows ==
  ASSUME BudgetInv, GrowthInv, NEW e \in Exec, Commit(e)
  PROVE  GrowthInv'
<1> DEFINE x == exec[e]
<1>1. x \in ExecType /\ GrowthByPc(e) /\ x.pc = "commit" /\ TypeOK /\ x.player \in Player
  BY CommitWrites DEF BudgetInv, TypeOK, GrowthInv, Commit
<1>2. /\ exec'[e] = [x EXCEPT !.held = {}, !.pc = Done(e)]
      /\ \A f \in Exec \ {e} : exec'[f] = exec[f]
  BY <1>1 DEF TypeOK, Commit
<1>3. exec'[e].held = {} /\ exec'[e].pc = Done(e)
  BY <1>1, <1>2 DEF ExecType
<1>4. GrowthIsShallow'
  <2> SUFFICES ASSUME NEW p \in Player, tracked'[p] = "MATCH_PARTICIPANT"
               PROVE  depth'[p] <= MaxDepth
    BY DEF GrowthIsShallow
  <2>1. CASE p = x.player
    <3>1. x.kind = "MATCH_PARTICIPANT" /\ depth'[p] = x.depth
      BY <1>1, <2>1 DEF Commit, TypeOK
    <3>2. ~TooDeep(x.depth)
      BY <1>1, <3>1 DEF GrowthByPc, TransactionPc
    <3> QED BY <1>1, <3>1, <3>2, ConstantsAssumption DEF TooDeep, ExecType
  <2>2. CASE p # x.player
    <3>1. tracked'[p] = tracked[p] /\ depth'[p] = depth[p]
      BY <1>1, <2>2 DEF Commit, TypeOK
    <3> QED BY <3>1 DEF GrowthInv, GrowthIsBounded, GrowthIsShallow
  <2> QED BY <2>1, <2>2
<1>5. \A r \in Run : /\ enrolledBy'[r] = enrolledBy[r] + Reserved(e, RunRow(r))
                     /\ \A p \in Player : quota'[r][p] = quota[r][p] + Reserved(e, QuotaRow(r, p))
  BY DEF Commit, ApplyReservations
<1>6. RunQuotasHold'
  <2> SUFFICES ASSUME NEW r \in Run
               PROVE  enrolledBy'[r] <= RunCap /\ \A p \in Player : quota'[r][p] <= SourceCap
    BY DEF RunQuotasHold
  <2>1. enrolledBy[r] \in Nat /\ RunCap \in Nat /\ SourceCap \in Nat
        /\ \A p \in Player : quota[r][p] \in Nat
    BY <1>1, ConstantsAssumption DEF TypeOK
  <2>2. enrolledBy[r] <= RunCap /\ (RunRow(r) \in x.held => enrolledBy[r] < RunCap)
    BY <1>1 DEF GrowthInv, GrowthIsBounded, RunQuotasHold, GrowthByPc
  <2>3. ASSUME NEW p \in Player
        PROVE  quota[r][p] <= SourceCap /\ (QuotaRow(r, p) \in x.held => quota[r][p] < SourceCap)
    BY <1>1 DEF GrowthInv, GrowthIsBounded, RunQuotasHold, GrowthByPc
  <2>4. enrolledBy'[r] <= RunCap
    BY <1>5, <2>1, <2>2 DEF Reserved
  <2>5. ASSUME NEW p \in Player PROVE quota'[r][p] <= SourceCap
    BY <1>5, <2>1, <2>3 DEF Reserved
  <2> QED BY <2>4, <2>5
<1>7. Done(e) \notin {"recheck", "total"} \cup TransactionPc
  BY DEF Done, TransactionPc
<1>8. ASSUME NEW f \in Exec PROVE GrowthByPc(f)'
  <2>1. CASE f = e
    BY <1>3, <1>7, <2>1 DEF GrowthByPc
  <2>2. CASE f # e
    <3>1. exec[f].pc \notin TransactionPc
      BY <1>1, <2>2 DEF BudgetInv, OneTransaction, TransactionPc
    <3>2. GrowthByPc(f)
      BY DEF GrowthInv
    <3> QED BY <1>2, <2>2, <3>1, <3>2 DEF GrowthByPc
  <2> QED BY <2>1, <2>2
<1> QED BY <1>4, <1>6, <1>8 DEF GrowthInv, GrowthIsBounded

(* What the depth of a known player becomes. *)
LEMMA DepthMinWrites ==
  ASSUME BudgetInv, NEW e \in Exec, ApplyDepthMin(e)
  PROVE  /\ UNCHANGED <<tracked, total, ladder, population, runs, enrolledBy, quota>>
         /\ \A p \in Player : depth'[p] <= depth[p]
<1>1. exec[e].depth \in Nat /\ \A p \in Player : depth[p] \in Nat
  BY DEF BudgetInv, TypeOK, ExecType
<1>2. \A p \in Player : depth'[p] = IF p = exec[e].player THEN LeastDepth(depth[p], exec[e].depth)
                                                         ELSE depth[p]
  BY DEF ApplyDepthMin, BudgetInv, TypeOK
<1> QED BY <1>1, <1>2 DEF ApplyDepthMin, LeastDepth

(* A smaller depth is still within the bounds. *)
LEMMA ApplyDepthMinGrows ==
  ASSUME BudgetInv, GrowthInv, NEW e \in Exec, ApplyDepthMin(e)
  PROVE  GrowthInv'
<1> DEFINE x == exec[e]
<1>1. x \in ExecType /\ GrowthByPc(e) /\ x.pc = "depthMin" /\ TypeOK
  BY DEF BudgetInv, TypeOK, GrowthInv, ApplyDepthMin
<1>2. /\ exec'[e] = [x EXCEPT !.pc = Done(e)]
      /\ \A f \in Exec \ {e} : exec'[f] = exec[f]
  BY <1>1 DEF TypeOK, ApplyDepthMin, Goto
<1>3. exec'[e].held = {} /\ exec'[e].pc = Done(e)
  BY <1>1, <1>2 DEF ExecType, GrowthByPc, TransactionPc
<1>4. Done(e) \notin {"recheck", "total"} \cup TransactionPc
  BY DEF Done, TransactionPc
<1>5. \A p \in Player : depth[p] \in Nat /\ depth'[p] \in Nat /\ depth'[p] <= depth[p]
  BY DepthMinWrites, ApplyDepthMinKeeps DEF BudgetInv, TypeOK
<1>6. GrowthIsBounded'
  BY <1>5, DepthMinWrites, ConstantsAssumption
     DEF GrowthInv, GrowthIsBounded, GrowthIsShallow, RunQuotasHold
<1>7. ASSUME NEW f \in Exec PROVE GrowthByPc(f)'
  <2>1. CASE f = e
    BY <1>3, <1>4, <2>1 DEF GrowthByPc
  <2>2. CASE f # e
    <3>1. GrowthByPc(f)
      BY DEF GrowthInv
    <3> QED BY <1>2, <2>2, <3>1, DepthMinWrites DEF GrowthByPc
  <2> QED BY <2>1, <2>2
<1> QED BY <1>6, <1>7 DEF GrowthInv

(* Every step keeps growth within its bounds. *)
LEMMA NextGrows == BudgetInv /\ GrowthInv /\ [Next]_vars => GrowthInv'
<1> SUFFICES ASSUME BudgetInv, GrowthInv, [Next]_vars PROVE GrowthInv'
  OBVIOUS
<1>0. TypeOK
  BY DEF BudgetInv
<1>1. CASE UNCHANGED vars
  BY <1>1 DEF vars, tables, GrowthInv, GrowthIsBounded, GrowthIsShallow, RunQuotasHold, GrowthByPc
<1>2. ASSUME NEW r \in Run, DropRun(r) PROVE GrowthInv'
  BY <1>2 DEF DropRun, GrowthInv, GrowthIsBounded, GrowthIsShallow, RunQuotasHold, GrowthByPc
<1>3. ASSUME NEW e \in Exec, Start(e) \/ Step(e) \/ Abort(e) PROVE GrowthInv'
  BY <1>0, <1>3, LookGrows, TransactionGrows, CommitGrows, ApplyDepthMinGrows DEF Step
<1> QED BY <1>1, <1>2, <1>3 DEF Next

-----------------------------------------------------------------------------
(* A run counts what its sources count.                                    *)

(* The quotas agree at first. *)
LEMMA InitQuotaInv == Init => QuotaInv
<1> SUFFICES ASSUME Init PROVE QuotaInv
  OBVIOUS
<1>1. ASSUME NEW r \in Run PROVE enrolledBy[r] = SumFunctionOnSet(quota[r], Player)
  <2>1. \A p \in Player : quota[r][p] = 0
    BY DEF Init
  <2>2. SumFunctionOnSet(quota[r], Player) = 0
    BY <2>1, SumOfZeros, ConstantsAssumption
  <2>3. enrolledBy[r] = 0
    BY DEF Init
  <2> QED BY <2>2, <2>3
<1>2. RunCountsItsSources
  BY <1>1 DEF RunCountsItsSources
<1>3. ASSUME NEW e \in Exec PROVE ReservedTogether(e)
  BY IdleTyped DEF Init, ReservedTogether
<1> QED BY <1>2, <1>3 DEF QuotaInv

(* A step that changes the execution e alone, and no counter of a run. *)
LEMMA QuotaStep ==
  ASSUME QuotaInv, NEW e \in Exec, UNCHANGED <<enrolledBy, quota>>,
         \A f \in Exec \ {e} : exec'[f] = exec[f], ReservedTogether(e)'
  PROVE  QuotaInv'
<1>1. ASSUME NEW f \in Exec PROVE ReservedTogether(f)'
  <2>1. CASE f # e
    BY <2>1 DEF QuotaInv, ReservedTogether
  <2> QED BY <2>1
<1>2. RunCountsItsSources'
  BY DEF QuotaInv, RunCountsItsSources
<1> QED BY <1>1, <1>2 DEF QuotaInv

(* Whatever ends outside the transaction. *)
LEMMA OutsideCounts ==
  ASSUME BudgetInv, QuotaInv, GrowthInv', NEW e \in Exec,
         \/ Start(e) \/ NextCandidate(e) \/ EndExpansion(e) \/ SkipIdentity(e) \/ Recheck(e)
         \/ RunMissing(e) \/ Abort(e) \/ ApplyDepthMin(e)
         \/ \E pc \in {"idle", "next", "depthMin"} : Rollback(e, pc)
  PROVE  QuotaInv'
<1> DEFINE Outside == {"idle", "next", "recheck", "total", "depthMin"}
           Ends == exec'[e].pc \in Outside /\ UNCHANGED <<enrolledBy, quota>>
                     /\ \A f \in Exec \ {e} : exec'[f] = exec[f]
<1>1. exec \in [Exec -> ExecType] /\ exec[e] \in ExecType
  BY DEF BudgetInv, TypeOK
<1>2. ASSUME Start(e) PROVE Ends
  <2>1. ASSUME NEW y, y.pc \in Outside, Begin(e, y), UNCHANGED tables PROVE Ends
    BY <1>1, <2>1 DEF Begin, tables
  <2>2. ASSUME NEW p \in Player, NEW k, NEW pc \in Outside,
               Begin(e, [Idle EXCEPT !.pc = pc, !.kind = k, !.player = p]), UNCHANGED tables
        PROVE  Ends
    <3> DEFINE y == [Idle EXCEPT !.pc = pc, !.kind = k, !.player = p]
    <3>1. y.pc \in Outside
      BY DEF Idle
    <3>2. Begin(e, y)
      BY <2>2
    <3> HIDE DEF y
    <3> QED BY <2>1, <2>2, <3>1, <3>2
  <2>3. ASSUME NEW p \in Player, EnrollRoot(e, p) \/ EnrollLadder(e, p) PROVE Ends
    BY <2>2, <2>3 DEF EnrollRoot, EnrollLadder
  <2>4. ASSUME NEW m \in Match, NEW s \in Player, NEW r \in Run \cup {None}, Expand(e, m, s, r)
        PROVE  Ends
    <3> DEFINE y == [Idle EXCEPT !.pc = "next", !.kind = "MATCH_PARTICIPANT", !.source = s,
                                 !.depth = ChildDepth(depth[s]), !.run = r,
                                 !.todo = Window(m, s)]
    <3>1. y.pc \in Outside
      BY DEF Idle
    <3>2. Begin(e, y) /\ UNCHANGED tables
      BY <2>4 DEF Expand
    <3> HIDE DEF y
    <3> QED BY <2>1, <3>1, <3>2
  <2> QED BY <1>2, <2>3, <2>4 DEF Start
<1>3. ASSUME NextCandidate(e) PROVE Ends
  <2> DEFINE step(p) == CASE tracked[p] # None -> "depthMin"
                          [] tracked[p] = None /\ TooDeep(exec[e].depth) -> "next"
                          [] OTHER -> "recheck"
  <2>1. PICK p \in exec[e].todo : exec' = [exec EXCEPT ![e] = [exec[e] EXCEPT
                            !.player = p, !.todo = exec[e].todo \ {p}, !.pc = step(p)]]
    BY <1>3 DEF NextCandidate
  <2>2. step(p) \in Outside
    OBVIOUS
  <2> HIDE DEF step
  <2> QED BY <1>1, <1>3, <2>1, <2>2 DEF NextCandidate, tables, ExecType
<1>4. ASSUME EndExpansion(e) \/ SkipIdentity(e) \/ ApplyDepthMin(e) PROVE Ends
  <2>1. PICK pc \in Outside : Goto(e, pc) /\ UNCHANGED <<enrolledBy, quota>>
    BY <1>4 DEF EndExpansion, SkipIdentity, ApplyDepthMin, Done, tables
  <2> QED BY <1>1, <2>1 DEF Goto, ExecType
<1>5. ASSUME Recheck(e) PROVE Ends
  BY <1>1, <1>5 DEF Recheck, tables, ExecType
<1>6. ASSUME RunMissing(e) PROVE Ends
  BY <1>1, <1>6 DEF RunMissing, tables, ExecType
<1>7. ASSUME Abort(e) PROVE Ends
  BY <1>1, <1>7, IdleTyped DEF Abort, tables
<1>8. ASSUME NEW pc \in {"idle", "next", "depthMin"}, Rollback(e, pc) PROVE Ends
  BY <1>1, <1>8 DEF Rollback, tables, ExecType
<1>9. Ends
  BY <1>2, <1>3, <1>4, <1>5, <1>6, <1>7, <1>8
<1>10. exec'[e].held = {}
  BY <1>9 DEF GrowthInv, GrowthByPc, TransactionPc
<1>11. ReservedTogether(e)'
  BY <1>9, <1>10 DEF ReservedTogether
<1> QED BY <1>9, <1>11, QuotaStep

(* One more row: it has a place of the source with a place of the run. *)
LEMMA HoldCounts ==
  ASSUME BudgetInv, GrowthInv, QuotaInv, NEW e \in Exec,
         ReserveTotal(e) \/ ReservePopulation(e) \/ ReserveRun(e) \/ ReserveSource(e) \/ Insert(e),
         NEW row, NEW pc, Hold(e, row, pc), UNCHANGED tables,
         \/ ReserveTotal(e) /\ row = BudgetRow /\ pc = AfterTotal(e)
         \/ /\ ReservePopulation(e) /\ row = PopulationRow
            /\ pc = IF exec[e].attributed THEN "run" ELSE "insert"
         \/ ReserveRun(e) /\ row = RunRow(exec[e].run) /\ pc = "source"
         \/ ReserveSource(e) /\ row = QuotaRow(exec[e].run, exec[e].source) /\ pc = "insert"
         \/ Insert(e) /\ row = PlayerRow(exec[e].player) /\ pc = "commit"
  PROVE  QuotaInv'
<1> DEFINE x == exec[e]
           y == [x EXCEPT !.held = x.held \cup {row}, !.pc = pc]
<1>1. exec \in [Exec -> ExecType] /\ x \in ExecType
  BY DEF BudgetInv, TypeOK
<1>2. exec'[e] = y /\ \A f \in Exec \ {e} : exec'[f] = exec[f]
  BY <1>1 DEF Hold
<1>3. y.held = x.held \cup {row} /\ y.pc = pc /\ y.run = x.run /\ y.source = x.source
  BY <1>1 DEF ExecType
<1>4. ReservedTogether(e) /\ GrowthByPc(e) /\ ReservedByPc(e)
  BY DEF QuotaInv, GrowthInv, BudgetInv
<1> HIDE DEF y
<1>5. ASSUME ReserveTotal(e) /\ row = BudgetRow /\ pc = AfterTotal(e)
      PROVE  ReservedTogether(e)'
  <2>1. x.held = {} /\ y.pc \in {"population", "insert"}
    BY <1>3, <1>4, <1>5 DEF ReserveTotal, GrowthByPc, TransactionPc, AfterTotal
  <2>2. \A r \in Run : RunRow(r) \notin y.held /\ \A p \in Player : QuotaRow(r, p) \notin y.held
    BY <1>3, <1>5, <2>1, GrowthRows
  <2> QED BY <1>2, <2>1, <2>2 DEF ReservedTogether
<1>6. ASSUME /\ ReservePopulation(e) /\ row = PopulationRow
             /\ pc = IF x.attributed THEN "run" ELSE "insert"
      PROVE  ReservedTogether(e)'
  <2>1. y.pc \in {"run", "insert"} /\ x.pc = "population"
    BY <1>3, <1>6 DEF ReservePopulation
  <2>2. \A r \in Run : RunRow(r) \notin y.held /\ \A p \in Player : QuotaRow(r, p) \notin y.held
    BY <1>3, <1>4, <1>6, <2>1, GrowthRows DEF ReservedTogether
  <2> QED BY <1>2, <2>1, <2>2 DEF ReservedTogether
<1>7. ASSUME ReserveRun(e) /\ row = RunRow(x.run) /\ pc = "source"
      PROVE  ReservedTogether(e)'
  <2>1. y.pc = "source" /\ x.pc = "run" /\ x.run \in Run
    BY <1>3, <1>7 DEF ReserveRun, BudgetInv, TypeOK
  <2>2. \A r \in Run : /\ RunRow(r) \in y.held <=> r = x.run
                       /\ \A p \in Player : QuotaRow(r, p) \notin y.held
    BY <1>3, <1>4, <1>7, <2>1, GrowthRows DEF ReservedTogether
  <2> QED BY <1>2, <1>3, <1>4, <2>1, <2>2 DEF ReservedTogether, ReservedByPc
<1>8. ASSUME ReserveSource(e) /\ row = QuotaRow(x.run, x.source) /\ pc = "insert"
      PROVE  ReservedTogether(e)'
  <2>1. y.pc = "insert" /\ x.pc = "source" /\ x.run \in Run
    BY <1>3, <1>4, <1>8 DEF ReserveSource, ReservedByPc
  <2>2. \A r \in Run : /\ RunRow(r) \in y.held <=> r = x.run
                       /\ \A p \in Player : QuotaRow(r, p) \in y.held <=> r = x.run /\ p = x.source
    BY <1>3, <1>4, <1>8, <2>1, GrowthRows DEF ReservedTogether
  <2> QED BY <1>2, <1>3, <1>4, <2>1, <2>2 DEF ReservedTogether, ReservedByPc
<1>9. ASSUME Insert(e) /\ row = PlayerRow(x.player) /\ pc = "commit"
      PROVE  ReservedTogether(e)'
  <2>1. y.pc = "commit" /\ x.pc = "insert"
    BY <1>3, <1>9 DEF Insert
  <2>2. \A r \in Run : /\ RunRow(r) \in y.held <=> RunRow(r) \in x.held
                       /\ \A p \in Player : QuotaRow(r, p) \in y.held <=> QuotaRow(r, p) \in x.held
    BY <1>3, <1>9, GrowthRows
  <2> QED BY <1>2, <1>3, <1>4, <2>1, <2>2 DEF ReservedTogether
<1>10. ReservedTogether(e)'
  BY <1>5, <1>6, <1>7, <1>8, <1>9
<1> QED BY <1>2, <1>10, QuotaStep DEF tables

(* A statement of the transaction reserves its row or undoes everything. *)
LEMMA TransactionCounts ==
  ASSUME BudgetInv, GrowthInv, QuotaInv, GrowthInv', NEW e \in Exec,
         ReserveTotal(e) \/ ReservePopulation(e) \/ ReserveRun(e) \/ ReserveSource(e) \/ Insert(e)
  PROVE  QuotaInv'
<1>1. ASSUME NEW pc \in {"idle", "next", "depthMin"}, Rollback(e, pc) PROVE QuotaInv'
  BY <1>1, OutsideCounts
<1>2. {Rejected(e, Done(e)), Rejected(e, "depthMin")} \subseteq {"idle", "next", "depthMin"}
  BY DEF Rejected, Done
<1>3. CASE ReserveTotal(e)
  <2>1. CASE UnderTotalCap(exec[e].kind)
    BY <1>3, <2>1, HoldCounts DEF ReserveTotal
  <2> QED BY <1>1, <1>2, <1>3, <2>1 DEF ReserveTotal
<1>4. CASE ReservePopulation(e)
  <2>1. CASE population < PopulationCap
    BY <1>4, <2>1, HoldCounts DEF ReservePopulation
  <2> QED BY <1>1, <1>2, <1>4, <2>1 DEF ReservePopulation
<1>5. CASE ReserveRun(e)
  <2>1. CASE enrolledBy[exec[e].run] < RunCap
    BY <1>5, <2>1, HoldCounts DEF ReserveRun, AfterRun
  <2> QED BY <1>1, <1>2, <1>5, <2>1 DEF ReserveRun
<1>6. CASE ReserveSource(e)
  <2>1. CASE quota[exec[e].run][exec[e].source] < SourceCap
    BY <1>6, <2>1, HoldCounts DEF ReserveSource
  <2> QED BY <1>1, <1>2, <1>6, <2>1 DEF ReserveSource
<1>7. CASE Insert(e)
  <2>1. CASE tracked[exec[e].player] = None
    BY <1>7, <2>1, HoldCounts DEF Insert
  <2> QED BY <1>1, <1>2, <1>7, <2>1 DEF Insert
<1> QED BY <1>3, <1>4, <1>5, <1>6, <1>7

(* A commit counts one more in a run and one more of its source, or none. *)
LEMMA CommitCountsBoth ==
  ASSUME BudgetInv, GrowthInv, QuotaInv, GrowthInv', NEW e \in Exec, Commit(e)
  PROVE  QuotaInv'
<1> DEFINE x == exec[e]
<1>1. exec \in [Exec -> ExecType] /\ x \in ExecType /\ x.pc = "commit"
  BY DEF BudgetInv, TypeOK, Commit
<1>2. exec'[e].pc \in {"idle", "next"} /\ \A f \in Exec \ {e} : exec'[f] = exec[f]
  <2>1. exec'[e] = [x EXCEPT !.held = {}, !.pc = Done(e)]
    BY <1>1 DEF Commit
  <2>2. Done(e) \in {"idle", "next"}
    BY DEF Done
  <2> QED BY <1>1, <2>1, <2>2 DEF Commit, ExecType
<1>3. exec'[e].held = {}
  BY <1>2 DEF GrowthInv, GrowthByPc, TransactionPc
<1>4. ASSUME NEW f \in Exec PROVE ReservedTogether(f)'
  <2>1. CASE f = e
    BY <1>2, <1>3, <2>1 DEF ReservedTogether
  <2>2. CASE f # e
    BY <1>2, <2>2 DEF QuotaInv, ReservedTogether
  <2> QED BY <2>1, <2>2
<1>5. ASSUME NEW r \in Run
      PROVE  enrolledBy'[r] = SumFunctionOnSet(quota'[r], Player)
  <2>1. /\ enrolledBy'[r] = enrolledBy[r] + Reserved(e, RunRow(r))
        /\ \A p \in Player : quota'[r][p] = quota[r][p] + Reserved(e, QuotaRow(r, p))
    BY DEF Commit, ApplyReservations
  <2>2. /\ enrolledBy[r] \in Nat /\ \A p \in Player : quota[r][p] \in Nat
        /\ enrolledBy[r] = SumFunctionOnSet(quota[r], Player)
    BY DEF BudgetInv, TypeOK, QuotaInv, RunCountsItsSources
  <2>3. \A p \in Player : QuotaRow(r, p) \in x.held <=> RunRow(r) \in x.held /\ p = x.source
    BY <1>1 DEF QuotaInv, ReservedTogether
  <2>4. CASE RunRow(r) \in x.held
    <3>1. x.source \in Player
      BY <2>4 DEF QuotaInv, ReservedTogether
    <3>2. /\ quota'[r][x.source] = quota[r][x.source] + 1
          /\ \A p \in Player \ {x.source} : quota'[r][p] = quota[r][p]
      BY <2>1, <2>2, <2>3, <2>4, <3>1 DEF Reserved
    <3>3. SumFunctionOnSet(quota'[r], Player) = SumFunctionOnSet(quota[r], Player) + 1
      <4> DEFINE f == quota[r]
                 g == quota'[r]
                 s == x.source
      <4>1. /\ s \in Player /\ IsFiniteSet(Player) /\ \A p \in Player : f[p] \in Nat
            /\ \A p \in Player : g[p] = IF p = s THEN f[p] + 1 ELSE f[p]
        BY <2>2, <3>1, <3>2, ConstantsAssumption
      <4> HIDE DEF f, g, s
      <4>2. SumFunctionOnSet(g, Player) = SumFunctionOnSet(f, Player) + 1
        BY ONLY <4>1, SumOneMore
      <4> QED BY <4>2 DEF f, g
    <3> QED BY <2>1, <2>2, <2>4, <3>3 DEF Reserved
  <2>5. CASE RunRow(r) \notin x.held
    <3>1. \A p \in Player : quota'[r][p] = quota[r][p]
      BY <2>1, <2>2, <2>3, <2>5 DEF Reserved
    <3>2. SumFunctionOnSet(quota[r], Player) = SumFunctionOnSet(quota'[r], Player)
      BY <2>2, <3>1, SumSame, ConstantsAssumption
    <3> QED BY <2>1, <2>2, <2>5, <3>2 DEF Reserved
  <2> QED BY <2>4, <2>5
<1> QED BY <1>4, <1>5 DEF QuotaInv, RunCountsItsSources

(* Every step keeps a run and its sources together. *)
LEMMA NextCounts == BudgetInv /\ GrowthInv /\ QuotaInv /\ [Next]_vars => QuotaInv'
<1> SUFFICES ASSUME BudgetInv, GrowthInv, QuotaInv, [Next]_vars PROVE QuotaInv'
  OBVIOUS
<1>1. GrowthInv'
  BY NextGrows
<1>2. CASE UNCHANGED <<exec, enrolledBy, quota>>
  BY <1>2 DEF QuotaInv, RunCountsItsSources, ReservedTogether
<1>3. CASE UNCHANGED vars
  BY <1>2, <1>3 DEF vars, tables
<1>4. ASSUME NEW r \in Run, DropRun(r) PROVE QuotaInv'
  BY <1>2, <1>4 DEF DropRun
<1>5. ASSUME NEW e \in Exec, Start(e) \/ Step(e) \/ Abort(e) PROVE QuotaInv'
  BY <1>1, <1>5, OutsideCounts, TransactionCounts, CommitCountsBoth DEF Step
<1> QED BY <1>3, <1>4, <1>5 DEF Next

-----------------------------------------------------------------------------
(* The theorems.                                                           *)

(* At every moment the transactions under way have reserved what is free, of
   the budgets, the runs and the sources, and the rest of the inductive
   invariant holds.                                                        *)
THEOREM Inductive == Spec => []IInv
<1>1. Init => IInv
  BY InitBudgetInv, InitGrowthInv, InitQuotaInv DEF IInv
<1>2. IInv /\ [Next]_vars => IInv'
  BY NextKeeps, NextGrows, NextCounts DEF IInv
<1> QED BY <1>1, <1>2, PTL DEF Spec

(* Type correctness. *)
THEOREM TypeCorrect == Spec => []TypeOK
<1>1. IInv => TypeOK
  BY DEF IInv, BudgetInv
<1> QED BY <1>1, Inductive, PTL

(* The budget counters never drift from the rows they count. *)
THEOREM BudgetsAccurate == Spec => []BudgetsMatchRows
<1>1. IInv => BudgetsMatchRows
  BY DEF IInv, BudgetInv
<1> QED BY <1>1, Inductive, PTL

(* No child is deeper than the limit, and no run or source player enrols more
   than its quota, whichever expansions interleave, abort or lose their run. *)
THEOREM GrowthBounded == Spec => []GrowthIsBounded
<1>1. IInv => GrowthIsBounded
  BY DEF IInv, GrowthInv
<1> QED BY <1>1, Inductive, PTL

(* What a run has enrolled is what its source players have enrolled in it: the
   run and the source are counted in one transaction, which adds to both, or
   to neither when it is rolled back, aborted or retried without its run.   *)
THEOREM RunCountsSources == Spec => []RunCountsItsSources
<1>1. IInv => RunCountsItsSources
  BY DEF IInv, QuotaInv
<1> QED BY <1>1, Inductive, PTL

(* No step but a commit writes the enrolment source of a player. *)
LEMMA OnlyCommitsEnroll ==
  ASSUME BudgetInv, [Next]_vars, \A e \in Exec : ~Commit(e)
  PROVE  UNCHANGED tracked
<1>1. CASE UNCHANGED vars
  BY <1>1 DEF vars, tables
<1>2. ASSUME NEW r \in Run, DropRun(r) PROVE UNCHANGED tracked
  BY <1>2 DEF DropRun
<1>3. ASSUME NEW e \in Exec, Start(e) \/ Abort(e) PROVE UNCHANGED tracked
  BY <1>3 DEF Start, Abort, EnrollRoot, EnrollLadder, Expand, tables
<1>4. ASSUME NEW e \in Exec, Step(e) PROVE UNCHANGED tracked
  BY <1>4 DEF Step, NextCandidate, EndExpansion, SkipIdentity, Recheck, ReserveTotal,
       ReservePopulation, ReserveRun, RunMissing, ReserveSource, Insert, ApplyDepthMin, Rollback,
       tables
<1> QED BY <1>1, <1>2, <1>3, <1>4 DEF Next

(* No step but a commit or a rediscovery writes the depth of a player. *)
LEMMA OnlyCommitsDeepen ==
  ASSUME [Next]_vars, \A e \in Exec : ~Commit(e) /\ ~ApplyDepthMin(e)
  PROVE  UNCHANGED depth
<1>1. CASE UNCHANGED vars
  BY <1>1 DEF vars, tables
<1>2. ASSUME NEW r \in Run, DropRun(r) PROVE UNCHANGED depth
  BY <1>2 DEF DropRun
<1>3. ASSUME NEW e \in Exec, Start(e) \/ Abort(e) PROVE UNCHANGED depth
  BY <1>3 DEF Start, Abort, EnrollRoot, EnrollLadder, Expand, tables
<1>4. ASSUME NEW e \in Exec, Step(e) PROVE UNCHANGED depth
  BY <1>4 DEF Step, NextCandidate, EndExpansion, SkipIdentity, Recheck, ReserveTotal,
       ReservePopulation, ReserveRun, RunMissing, ReserveSource, Insert, Rollback, tables
<1> QED BY <1>1, <1>2, <1>3, <1>4 DEF Next

(* Whatever finds a tracked player again, its source is never rewritten and
   it never moves away from the roots: a commit writes an untracked player,
   and a rediscovery only takes the smaller depth.                         *)
THEOREM DepthShrinks == Spec => DepthOnlyShrinks
<1> DEFINE Kept == \A p \in Player :
             tracked[p] # None => tracked'[p] = tracked[p] /\ depth'[p] <= depth[p]
<1>1. IInv /\ [Next]_vars => [Kept]_vars
  <2> SUFFICES ASSUME IInv, [Next]_vars, NEW p \in Player, tracked[p] # None
               PROVE  tracked'[p] = tracked[p] /\ depth'[p] <= depth[p]
    OBVIOUS
  <2>1. BudgetInv /\ depth[p] \in Nat
    BY DEF IInv, BudgetInv, TypeOK
  <2>2. CASE \E e \in Exec : Commit(e)
    <3>1. PICK e \in Exec : Commit(e)
      BY <2>2
    <3>2. p # exec[e].player
      BY <2>1, <3>1, CommitWrites
    <3>3. tracked'[p] = tracked[p] /\ depth'[p] = depth[p]
      BY <2>1, <3>1, <3>2 DEF Commit, BudgetInv, TypeOK
    <3> QED BY <2>1, <3>3
  <2>3. CASE \E e \in Exec : ApplyDepthMin(e)
    BY <2>1, <2>3, DepthMinWrites
  <2>4. CASE \A e \in Exec : ~Commit(e) /\ ~ApplyDepthMin(e)
    BY <2>1, <2>4, OnlyCommitsEnroll, OnlyCommitsDeepen
  <2> QED BY <2>2, <2>3, <2>4
<1> QED BY <1>1, Inductive, PTL DEF Spec, DepthOnlyShrinks

(* TrackedPopulation counts with its own instance of FiniteSets. *)
LEMMA SameCardinality ==
  ASSUME NEW S PROVE Abstract!Cardinality(S) = Cardinality(S)
BY DEF Abstract!Cardinality, Cardinality

(* The hard caps, by source. *)
LEMMA Ceilings == /\ Ceiling["ROOT"] = TotalCap
                  /\ Ceiling["LADDER"] = LadderCap
                  /\ Ceiling["MATCH_PARTICIPANT"] = PopulationCap
BY DEF Ceiling, Source

(* Enrolment implements the tracked population: whatever interleaves, rolls
   back or aborts, players are enrolled one by one within the hard caps.   *)
THEOREM RefinesPopulation == Spec => WithinCaps
<1>1. Init => Abstract!Init
  <2> SUFFICES ASSUME Init PROVE Abstract!Init
    OBVIOUS
  <2>1. BudgetsMatchRows /\ tracked \in [Player -> Source \cup {None}]
    BY InitBudgetInv DEF BudgetInv, TypeOK
  <2>2. total <= TotalCap /\ ladder = 0 /\ population = 0
    BY ConstantsAssumption DEF Init
  <2>3. Abstract!EnrolledFrom("ROOT") = Abstract!Enrolled
    BY ConstantsAssumption DEF Init, Abstract!Enrolled, Abstract!EnrolledFrom, Source
  <2>4. ASSUME NEW s \in Source PROVE Cardinality(Abstract!EnrolledFrom(s)) <= Ceiling[s]
    <3>1. LadderCap \in Nat /\ PopulationCap \in Nat /\ TotalCap \in Nat
      BY ConstantsAssumption
    <3>2. CASE s = "ROOT"
      BY <2>1, <2>2, <2>3, <3>2, Ceilings DEF BudgetsMatchRows
    <3>3. CASE s = "LADDER"
      BY <2>1, <2>2, <3>1, <3>3, Ceilings DEF BudgetsMatchRows
    <3>4. CASE s = "MATCH_PARTICIPANT"
      BY <2>1, <2>2, <3>1, <3>4, Ceilings DEF BudgetsMatchRows
    <3> QED BY <3>2, <3>3, <3>4 DEF Source
  <2> QED BY <2>1, <2>2, <2>4, SameCardinality DEF Abstract!Init, BudgetsMatchRows
<1>2. BudgetInv /\ [Next]_vars => [Abstract!Next]_tracked
  <2> SUFFICES ASSUME BudgetInv, [Next]_vars PROVE [Abstract!Next]_tracked
    OBVIOUS
  <2>1. ASSUME NEW e \in Exec, Commit(e) PROVE Abstract!Next
    <3> DEFINE p == exec[e].player
               s == exec[e].kind
    <3>1. p \in Player /\ s \in Source /\ tracked[p] = None /\ tracked' = [tracked EXCEPT ![p] = s]
      BY <2>1, CommitWrites
    <3>2. UnderTotalCap(s) /\ (s = "MATCH_PARTICIPANT" => population < PopulationCap)
      BY <2>1 DEF Commit, BudgetInv, ReservedByPc, ReservedIsFree, TransactionPc
    <3>3. Cardinality(Abstract!Enrolled) < TotalCap
      BY <3>2 DEF BudgetInv, BudgetsMatchRows, UnderTotalCap
    <3>4. Cardinality(Abstract!EnrolledFrom(s)) < Ceiling[s]
      <4>1. CASE s = "ROOT"
        <5>1. Abstract!EnrolledFrom(s) \subseteq Abstract!Enrolled
          BY <4>1, ConstantsAssumption DEF Abstract!EnrolledFrom, Abstract!Enrolled, Source
        <5>2. IsFiniteSet(Abstract!Enrolled)
          BY ConstantsAssumption, FS_Subset DEF Abstract!Enrolled
        <5>3. Cardinality(Abstract!EnrolledFrom(s)) <= Cardinality(Abstract!Enrolled)
              /\ Cardinality(Abstract!EnrolledFrom(s)) \in Nat
              /\ Cardinality(Abstract!Enrolled) \in Nat
          BY <5>1, <5>2, FS_Subset, FS_CardinalityType
        <5>4. Ceiling[s] = TotalCap /\ TotalCap \in Nat
          BY <4>1, Ceilings, ConstantsAssumption
        <5> QED BY <3>3, <5>3, <5>4
      <4>2. CASE s = "LADDER"
        BY <3>2, <4>2, Ceilings DEF BudgetInv, BudgetsMatchRows, UnderTotalCap
      <4>3. CASE s = "MATCH_PARTICIPANT"
        BY <3>2, <4>3, Ceilings DEF BudgetInv, BudgetsMatchRows
      <4> QED BY <3>1, <4>1, <4>2, <4>3 DEF Source
    <3>5. Abstract!Enroll(p, s)
      BY <3>1, <3>3, <3>4, SameCardinality DEF Abstract!Enroll
    <3> QED BY <3>1, <3>5 DEF Abstract!Next
  <2> QED BY <2>1, OnlyCommitsEnroll
<1>3. IInv => BudgetInv
  BY DEF IInv
<1> QED BY <1>1, <1>2, <1>3, Inductive, PTL DEF Spec, WithinCaps, Abstract!Spec

=============================================================================
