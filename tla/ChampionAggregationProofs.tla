---------------------- MODULE ChampionAggregationProofs ----------------------
(***************************************************************************)
(* Type correctness of ChampionAggregation, and that the conditional clear *)
(* never drops a pending key, for every set of matches, participants,      *)
(* writers, triggers and failures; and that what is stale or left undone   *)
(* is found by reconcile, for every instance of OneFailureSetting.         *)
(***************************************************************************)
EXTENDS ChampionAggregation, FiniteSetTheorems, TLAPS

(* A dimension key computed from a placed row is a key. *)
LEMMA ContributedKeysTyped ==
  ASSUME NEW p \in Participant, slot[p] \in Slot, rank \in [Participant -> Rank]
  PROVE  ContributedKeys(p) \subseteq Key
BY DEF ContributedKeys, Key, Bucket

(* The keys of the rows of a stored match are keys. *)
LEMMA PlayersKeysTyped ==
  ASSUME TypeOK, StoredMatchesArePlaced, NEW m \in Match, status[m] # "NONE"
  PROVE  KeysOf(Players(m)) \subseteq Key
<1>1. ASSUME NEW p \in Players(m) PROVE ContributedKeys(p) \subseteq Key
  <2>1. p \in Participant /\ slot[p] \in Slot
    BY DEF Players, StoredMatchesArePlaced
  <2> QED BY <2>1, ContributedKeysTyped DEF TypeOK
<1> QED BY <1>1 DEF KeysOf

(* The keys of a match are keys. *)
LEMMA CurrentKeysTyped ==
  ASSUME TypeOK, StoredMatchesArePlaced, NEW m \in Match
  PROVE  CurrentKeys(m) \subseteq Key
BY PlayersKeysTyped DEF CurrentKeys, Eligible

(* What is idle has its type. *)
LEMMA IdleTyped == EmptyFold \in [Key -> SUBSET Participant]
                   /\ IdleRun \in RunType /\ IdleWriter \in WriterType /\ NoJob \in JobType
BY DEF EmptyFold, IdleRun, RunType, Phase, IdleWriter, WriterType, WriterPc, NoJob, JobType

(* The initial states satisfy the inductive invariant. *)
LEMMA InitIInv == Init => IInv
<1> SUFFICES ASSUME Init PROVE IInv
  OBVIOUS
<1>1. TypeOK
  <2>1. MaxTriggers \in Nat /\ MaxFaults \in Nat
    BY ConstantsAssumption
  <2>2. "PENDING" \in Rank
    BY DEF Rank
  <2>3. aggregate \in [Key -> SUBSET Participant]
    BY IdleTyped DEF Init
  <2>4. job \in [Match -> JobType] /\ run \in [Match -> RunType]
          /\ writer \in [Writer -> WriterType]
    BY IdleTyped DEF Init
  <2>5. scope \in [Match -> {None} \cup SUBSET Key]
    BY DEF Init
  <2>6. owed \in BOOLEAN
    BY DEF Init
  <2>7. matchup \in [Match -> MatchupState]
    BY DEF Init, MatchupState
  <2> QED BY <2>1, <2>2, <2>3, <2>4, <2>5, <2>6, <2>7 DEF Init, TypeOK
<1>2. StoredMatchesArePlaced
  BY ConstantsAssumption DEF Init, StoredMatchesArePlaced, IdleWriter
<1>3. RunsCoverLoaded
  BY DEF Init, RunsCoverLoaded, IdleRun
<1>4. WritersHaveTargets
  BY DEF Init, WritersHaveTargets, IdleWriter
<1> QED BY <1>1, <1>2, <1>3, <1>4 DEF IInv

(* What the helpers shared by many actions leave behind is well typed.     *)
LEMMA BeginTyped ==
  ASSUME TypeOK, NEW w \in Writer, NEW kind \in TriggerKind, NEW m \in Match,
         NEW p \in Participant \cup {None}, NEW pc \in WriterPc, NEW prev \in SUBSET Key,
         NEW known \in SUBSET Participant, Begin(w, kind, m, p, pc, prev, known)
  PROVE  writer' \in [Writer -> WriterType]
BY DEF TypeOK, Begin, WriterType

(* A writer that goes on. *)
LEMMA GotoTyped ==
  ASSUME TypeOK, NEW w \in Writer, NEW pc \in WriterPc, Goto(w, pc)
  PROVE  writer' \in [Writer -> WriterType]
<1>1. writer[w] \in WriterType /\ writer \in [Writer -> WriterType]
  BY DEF TypeOK
<1>2. [writer[w] EXCEPT !.pc = pc] \in WriterType
  BY <1>1 DEF WriterType
<1> QED BY <1>1, <1>2 DEF Goto

(* A writer that is through. *)
LEMMA EndTyped ==
  ASSUME TypeOK, NEW w \in Writer, End(w)
  PROVE  writer' \in [Writer -> WriterType]
BY IdleTyped DEF TypeOK, End

(* A run that goes on. *)
LEMMA AdvanceTyped ==
  ASSUME TypeOK, NEW m \in Match, NEW phase \in Phase, Advance(m, phase)
  PROVE  run' \in [Match -> RunType]
<1>1. run[m] \in RunType /\ run \in [Match -> RunType]
  BY DEF TypeOK
<1>2. [run[m] EXCEPT !.phase = phase] \in RunType
  BY <1>1 DEF RunType
<1> QED BY <1>1, <1>2 DEF Advance

(* A run that is dropped. *)
LEMMA DiscardTyped ==
  ASSUME TypeOK, NEW m \in Match, Discard(m)
  PROVE  run' \in [Match -> RunType]
BY IdleTyped DEF TypeOK, Discard

(* A job that is enqueued, or already there. *)
LEMMA EnqueueTyped ==
  ASSUME TypeOK, NEW m \in Match, Enqueue(m)
  PROVE  job' \in [Match -> JobType]
BY IdleTyped DEF TypeOK, Enqueue, JobType

(* An attempt that fails. *)
LEMMA FailAttemptTyped ==
  ASSUME TypeOK, NEW m \in Match, NEW causes \in {0, 1}, NEW fatal \in BOOLEAN,
         FailAttempt(m, causes, fatal)
  PROVE  TypeOK'
<1>4. faults' \in 0..MaxFaults
  BY ConstantsAssumption DEF TypeOK, FailAttempt
<1>1. run' \in [Match -> RunType]
  BY DiscardTyped DEF FailAttempt
<1>2. job' \in [Match -> JobType]
  <2>1. job[m] \in JobType /\ job \in [Match -> JobType]
    BY DEF TypeOK
  <2>2. job[m].attempts + 1 \in Nat /\ job[m].stalls \in Nat
    BY <2>1 DEF JobType
  <2>3. ASSUME NEW state \in {"waiting", "retained"}
        PROVE  [state |-> state, attempts |-> job[m].attempts + 1, stalls |-> job[m].stalls]
                 \in JobType
    BY <2>2 DEF JobType
  <2> QED BY <2>1, <2>3 DEF FailAttempt
<1>3. marker' \in [Match -> {"NONE", "COMPLETED", "FAILED"}]
  BY DEF TypeOK, FailAttempt
<1> QED BY <1>1, <1>2, <1>3, <1>4 DEF TypeOK, FailAttempt, rowVars, derivedVars

(* The triggers are counted. *)
LEMMA CountTyped ==
  ASSUME TypeOK, NEW kind, CountTrigger(kind)
  PROVE  triggers' \in 0..MaxTriggers
<1>1. MaxTriggers \in Nat
  BY ConstantsAssumption
<1> QED BY <1>1 DEF TypeOK, CountTrigger

(* The faults are counted. *)
LEMMA FaultTyped ==
  ASSUME TypeOK, NEW kind, Fault(kind)
  PROVE  faults' \in 0..MaxFaults
<1>1. MaxFaults \in Nat
  BY ConstantsAssumption
<1> QED BY <1>1 DEF TypeOK, Fault

(* The triggers keep the types. *)
LEMMA TriggerTyped ==
  ASSUME IInv, NEW w \in Writer, TriggerStep(w)
  PROVE  TypeOK'
<1> USE DEF IInv
<1>1. ASSUME NEW m \in Match, IngestLoad(w, m) PROVE TypeOK'
  <2>1. PreviousKeys(m) \in SUBSET Key
    BY PlayersKeysTyped DEF PreviousKeys
  <2>4. KnownRanks(m) \in SUBSET Participant
    BY DEF KnownRanks, Players
  <2>2. writer' \in [Writer -> WriterType]
    BY <1>1, <2>1, <2>4, BeginTyped DEF IngestLoad, TriggerKind, WriterPc
  <2>3. triggers' \in 0..MaxTriggers
    BY <1>1, CountTyped DEF IngestLoad, TypeOK
  <2> QED BY <1>1, <2>2, <2>3 DEF IngestLoad, TypeOK, rowVars, derivedVars
<1>2. ASSUME NEW m \in Match, LinkLoad(w, m) PROVE TypeOK'
  <2>1. PICK p \in {None} \cup {q \in Players(m) : rank[q] \notin Tier} :
          Begin(w, "link", m, p, "link", {}, {})
    BY <1>2 DEF LinkLoad
  <2>2. p \in Participant \cup {None}
    BY <2>1 DEF Players
  <2>3. writer' \in [Writer -> WriterType]
    <3>1. {} \in SUBSET Key /\ {} \in SUBSET Participant
      OBVIOUS
    <3> QED BY <2>1, <2>2, <3>1, BeginTyped DEF TriggerKind, WriterPc
  <2>4. triggers' \in 0..MaxTriggers
    BY <1>2, CountTyped DEF LinkLoad
  <2> QED BY <1>2, <2>3, <2>4 DEF LinkLoad, TypeOK, rowVars, derivedVars
<1>3. ASSUME NEW m \in Match, Reconcile(w, m) PROVE TypeOK'
  <2>1. KeysOf(Players(m)) \in SUBSET Key
    BY <1>3, PlayersKeysTyped DEF Reconcile, NeedsReconcile, Eligible
  <2>2. writer' \in [Writer -> WriterType]
    <3>1. {} \in SUBSET Participant
      OBVIOUS
    <3> QED BY <1>3, <2>1, <3>1, BeginTyped DEF Reconcile, TriggerKind, WriterPc
  <2>3. triggers' \in 0..MaxTriggers
    BY <1>3, CountTyped DEF Reconcile
  <2> QED BY <1>3, <2>2, <2>3 DEF Reconcile, TypeOK, rowVars, derivedVars
<1>4. ASSUME NEW p \in Participant, EnrichLoad(w, p) PROVE TypeOK'
  <2>1. MatchOf[p] \in Match
    BY ConstantsAssumption
  <2>2. ContributedKeys(p) \in SUBSET Key
    BY <1>4, ContributedKeysTyped DEF EnrichLoad, StoredMatchesArePlaced, TypeOK
  <2>3. writer' \in [Writer -> WriterType]
    <3>1. {} \in SUBSET Participant
      OBVIOUS
    <3> QED BY <1>4, <2>1, <2>2, <3>1, BeginTyped DEF EnrichLoad, TriggerKind, WriterPc
  <2>4. triggers' \in 0..MaxTriggers
    BY <1>4, CountTyped DEF EnrichLoad
  <2> QED BY <1>4, <2>3, <2>4 DEF EnrichLoad, TypeOK, rowVars, derivedVars
<1> QED BY <1>1, <1>2, <1>3, <1>4 DEF TriggerStep

(* A writer past its first step is about a match. *)
LEMMA BusyWriterTyped ==
  ASSUME TypeOK, WritersHaveTargets, NEW w \in Writer, writer[w].pc # "idle"
  PROVE  /\ writer[w].match \in Match
         /\ writer[w].prev \in SUBSET Key
         /\ writer[w].row \in {None} \cup SUBSET Key
         /\ scope[writer[w].match] \in {None} \cup SUBSET Key
BY DEF TypeOK, WriterType, WritersHaveTargets

(* A merged scope row has keys. *)
LEMMA MergedKeysTyped ==
  ASSUME NEW row \in {None} \cup SUBSET Key, NEW keys \in SUBSET Key
  PROVE  MergedKeys(row, keys) \in SUBSET Key
BY DEF MergedKeys

(* The matchup rows after a rank change. *)
LEMMA MatchupTyped ==
  ASSUME TypeOK, NEW m, matchup' = AfterRankChange(m)
  PROVE  matchup' \in [Match -> MatchupState]
BY DEF TypeOK, AfterRankChange, MatchupState

(* The steps of a trigger under way keep the types. *)
LEMMA WriterTyped ==
  ASSUME IInv, NEW w \in Writer, WriterStep(w)
  PROVE  TypeOK'
<1> USE DEF IInv
<1>0. ASSUME NEW pc \in WriterPc, Goto(w, pc) \/ End(w)
      PROVE  writer' \in [Writer -> WriterType]
  BY <1>0, GotoTyped, EndTyped
<1>1. CASE IngestPersist(w)
  <2> DEFINE m == writer[w].match
  <2>1. PICK s \in Placements(m), found \in [Players(m) -> Tier \cup {None}] :
          /\ slot' = [p \in Participant |-> IF p \in Players(m) THEN s[p] ELSE slot[p]]
          /\ rank' = [p \in Participant |-> IF p \in Players(m)
                                              THEN PersistedRank(p \in writer[w].known, rank[p], found[p])
                                              ELSE rank[p]]
    BY <1>1 DEF IngestPersist
  <2>2. slot' \in [Participant -> Slot \cup {None}]
    BY <2>1 DEF TypeOK, Placements
  <2>3. rank' \in [Participant -> Rank]
    BY <2>1 DEF TypeOK, Rank, PersistedRank
  <2>4. writer' \in [Writer -> WriterType]
    BY <1>0, <1>1 DEF IngestPersist, WriterPc
  <2>5. status' \in [Match -> {"NONE", "IN_PROGRESS", "COMPLETED"}]
    BY <1>1 DEF IngestPersist, TypeOK, MatchupState
  <2>6. matchup' \in [Match -> MatchupState]
    BY <1>1 DEF IngestPersist, TypeOK, MatchupState
  <2> QED BY <1>1, <2>2, <2>3, <2>4, <2>5, <2>6 DEF IngestPersist, TypeOK, MatchupState
<1>2. CASE IngestComplete(w)
  <2>1. writer' \in [Writer -> WriterType]
    BY <1>0, <1>2 DEF IngestComplete, WriterPc
  <2>2. status' \in [Match -> {"NONE", "IN_PROGRESS", "COMPLETED"}]
    BY <1>2 DEF IngestComplete, TypeOK
  <2> QED BY <1>2, <2>1, <2>2 DEF IngestComplete, TypeOK, derivedVars
<1>3. CASE LinkApply(w)
  <2>1. writer' \in [Writer -> WriterType]
    BY <1>0, <1>3 DEF LinkApply, WriterPc
  <2>2. rank' \in [Participant -> Rank]
    BY <1>3 DEF LinkApply, TypeOK, Rank
  <2>3. matchup' \in [Match -> MatchupState]
    BY <1>3, MatchupTyped DEF LinkApply
  <2> QED BY <1>3, <2>1, <2>2, <2>3 DEF LinkApply, TypeOK
<1>4. CASE EnrichApply(w)
  <2>1. writer' \in [Writer -> WriterType]
    BY <1>0, <1>4 DEF EnrichApply, WriterPc
  <2>2. rank' \in [Participant -> Rank]
    BY <1>4, ConstantsAssumption DEF EnrichApply, TypeOK
  <2>3. matchup' \in [Match -> MatchupState]
    BY <1>4, MatchupTyped DEF EnrichApply
  <2> QED BY <1>4, <2>1, <2>2, <2>3 DEF EnrichApply, TypeOK
<1>5. CASE UpsertRead(w)
  <2>1. writer[w] \in WriterType /\ writer \in [Writer -> WriterType]
    BY DEF TypeOK
  <2>2. scope[writer[w].match] \in {None} \cup SUBSET Key
    BY <1>5, BusyWriterTyped DEF UpsertRead
  <2>3. ASSUME NEW row \in {None} \cup SUBSET Key
        PROVE  [writer[w] EXCEPT !.row = row, !.pc = "upsertWrite"] \in WriterType
    BY <2>1 DEF WriterType, WriterPc
  <2>4. writer' \in [Writer -> WriterType]
    BY <1>5, <2>1, <2>2, <2>3 DEF UpsertRead
  <2> QED BY <1>5, <2>4 DEF UpsertRead, TypeOK, rowVars, derivedVars
<1>6. CASE UpsertWrite(w)
  <2>1. MergedKeys(writer[w].row, writer[w].prev) \in SUBSET Key
    BY <1>6, BusyWriterTyped, MergedKeysTyped DEF UpsertWrite
  <2>2. scope' \in [Match -> {None} \cup SUBSET Key]
    BY <1>6, <2>1 DEF UpsertWrite, TypeOK
  <2>3. writer' \in [Writer -> WriterType]
    BY <1>0, <1>6 DEF UpsertWrite, WriterPc
  <2> QED BY <1>6, <2>2, <2>3 DEF UpsertWrite, TypeOK, rowVars, derivedVars
<1>7. CASE CheckJob(w)
  <2>1. writer' \in [Writer -> WriterType]
    BY <1>0, <1>7 DEF CheckJob, WriterPc
  <2> QED BY <1>7, <2>1 DEF CheckJob, TypeOK, rowVars, derivedVars
<1>8. CASE RemoveJob(w)
  <2>1. writer' \in [Writer -> WriterType]
    BY <1>0, <1>8 DEF RemoveJob, WriterPc
  <2>2. job' \in [Match -> JobType]
    BY <1>8, IdleTyped DEF RemoveJob, TypeOK
  <2> QED BY <1>8, <2>1, <2>2 DEF RemoveJob, TypeOK, rowVars, derivedVars
<1>9. CASE AddJob(w)
  <2>1. writer' \in [Writer -> WriterType]
    BY <1>9, EndTyped DEF AddJob
  <2>2. job' \in [Match -> JobType]
    BY <1>9, BusyWriterTyped, EnqueueTyped DEF AddJob
  <2> QED BY <1>9, <2>1, <2>2 DEF AddJob, TypeOK, rowVars, derivedVars
<1> QED BY <1>1, <1>2, <1>3, <1>4, <1>5, <1>6, <1>7, <1>8, <1>9 DEF WriterStep

(* The steps of a run keep the types. *)
LEMMA JobTyped ==
  ASSUME IInv, NEW m \in Match, JobStep(m)
  PROVE  TypeOK'
<1> USE DEF IInv
<1>0. run[m] \in RunType /\ run \in [Match -> RunType]
  BY DEF TypeOK
<1>1. CASE StartJob(m)
  <2>1. run' \in [Match -> RunType]
    BY <1>1, AdvanceTyped DEF StartJob, Phase
  <2>2. job' \in [Match -> JobType]
    BY <1>1 DEF StartJob, TypeOK, JobType
  <2> QED BY <1>1, <2>1, <2>2 DEF StartJob, TypeOK, rowVars, derivedVars
<1>2. CASE LoadScope(m)
  <2>1. scope[m] \in SUBSET Key
    BY <1>2 DEF LoadScope, TypeOK
  <2>2. ASSUME NEW keys \in SUBSET Key
        PROVE  [run[m] EXCEPT !.loaded = keys, !.phase = "read"] \in RunType
    BY <1>0 DEF RunType, Phase
  <2>3. run' \in [Match -> RunType]
    BY <1>0, <1>2, <2>1, <2>2 DEF LoadScope
  <2> QED BY <1>2, <2>3 DEF LoadScope, TypeOK, rowVars, derivedVars
<1>3. CASE ScopeMissing(m)
  BY <1>3, FailAttemptTyped DEF ScopeMissing
<1>4. CASE ReadMatch(m)
  <2>1. AffectedKeys(m) \in SUBSET Key
    BY <1>0, CurrentKeysTyped DEF AffectedKeys, RunType
  <2>2. Eligible(m) \in BOOLEAN
    BY DEF Eligible
  <2>3. ASSUME NEW eligible \in BOOLEAN, NEW keys \in SUBSET Key, NEW phase \in Phase
        PROVE  [run[m] EXCEPT !.eligible = eligible, !.affected = keys, !.phase = phase]
                 \in RunType
    BY <1>0 DEF RunType
  <2>4. run' \in [Match -> RunType]
    BY <1>0, <1>4, <2>1, <2>2, <2>3 DEF ReadMatch, Phase
  <2> QED BY <1>4, <2>4 DEF ReadMatch, TypeOK, rowVars, derivedVars
<1>5. CASE FoldContributors(m)
  <2>1. [k \in Key |-> IF k \in run[m].affected THEN Contributors(k) ELSE {}]
          \in [Key -> SUBSET Participant]
    BY DEF Contributors
  <2>2. ASSUME NEW folded \in [Key -> SUBSET Participant]
        PROVE  [run[m] EXCEPT !.folded = folded, !.phase = "write"] \in RunType
    BY <1>0 DEF RunType, Phase
  <2>3. run' \in [Match -> RunType]
    BY <1>0, <1>5, <2>1, <2>2 DEF FoldContributors
  <2> QED BY <1>5, <2>3 DEF FoldContributors, TypeOK, rowVars, derivedVars
<1>6. CASE WriteRecalculation(m)
  <2>1. run' \in [Match -> RunType]
    BY <1>6, AdvanceTyped DEF WriteRecalculation, Phase
  <2>2. aggregate' \in [Key -> SUBSET Participant]
    BY <1>0, <1>6 DEF WriteRecalculation, TypeOK, RunType
  <2>3. marker' \in [Match -> {"NONE", "COMPLETED", "FAILED"}]
    BY <1>6 DEF WriteRecalculation, TypeOK
  <2>4. owed' \in BOOLEAN
    BY <1>6 DEF WriteRecalculation
  <2> QED BY <1>6, <2>1, <2>2, <2>3, <2>4 DEF WriteRecalculation, TypeOK, rowVars
<1>7. CASE ClearScope(m)
  <2>1. scope' \in [Match -> {None} \cup SUBSET Key]
    BY <1>7 DEF ClearScope, TypeOK
  <2>2. ASSUME NEW remains \in BOOLEAN, NEW phase \in Phase
        PROVE  [run[m] EXCEPT !.remains = remains, !.phase = phase] \in RunType
    BY <1>0 DEF RunType
  <2>3. run' \in [Match -> RunType]
    BY <1>0, <1>7, <2>2 DEF ClearScope, Phase
  <2> QED BY <1>7, <2>1, <2>3 DEF ClearScope, TypeOK, rowVars, derivedVars
<1>8. CASE BumpGeneration(m)
  <2>1. run' \in [Match -> RunType]
    BY <1>8, AdvanceTyped DEF BumpGeneration, AfterBump, Phase
  <2>2. owed' \in BOOLEAN
    BY <1>8 DEF BumpGeneration
  <2> QED BY <1>8, <2>1, <2>2 DEF BumpGeneration, TypeOK, rowVars
<1>9. CASE ReadMatchups(m)
  <2>1. run' \in [Match -> RunType]
    BY <1>9, AdvanceTyped DEF ReadMatchups, Phase
  <2>2. matchup' \in [Match -> MatchupState]
    BY <1>9 DEF ReadMatchups, TypeOK, MatchupState
  <2> QED BY <1>9, <2>1, <2>2 DEF ReadMatchups, TypeOK, rowVars
<1>10. CASE DeleteMatchups(m) \/ CreateMatchups(m)
  <2>1. run' \in [Match -> RunType]
    BY <1>10, AdvanceTyped DEF DeleteMatchups, CreateMatchups, MatchupStep, Phase
  <2>2. matchup' \in [Match -> MatchupState]
    BY <1>10 DEF DeleteMatchups, CreateMatchups, MatchupStep, TypeOK, MatchupState
  <2> QED BY <1>10, <2>1, <2>2 DEF DeleteMatchups, CreateMatchups, MatchupStep, TypeOK, rowVars
<1>11. CASE FinishJob(m)
  <2>1. run' \in [Match -> RunType]
    BY <1>11, DiscardTyped DEF FinishJob
  <2>2. job' \in [Match -> JobType]
    BY <1>11 DEF FinishJob, TypeOK, JobType
  <2>3. follow' \in [Match -> {"none", "check", "remove", "add"}]
    BY <1>11 DEF FinishJob, TypeOK
  <2> QED BY <1>11, <2>1, <2>2, <2>3 DEF FinishJob, TypeOK, rowVars, derivedVars
<1> QED
  BY <1>1, <1>2, <1>3, <1>4, <1>5, <1>6, <1>7, <1>8, <1>9, <1>10, <1>11 DEF JobStep

(* The follow-up enqueue keeps the types. *)
LEMMA FollowUpTyped ==
  ASSUME IInv, NEW m \in Match, FollowUpStep(m)
  PROVE  TypeOK'
<1> USE DEF IInv
<1>1. CASE FollowUpCheck(m)
  <2>1. follow' \in [Match -> {"none", "check", "remove", "add"}]
    BY <1>1 DEF FollowUpCheck, TypeOK
  <2> QED BY <1>1, <2>1 DEF FollowUpCheck, TypeOK, rowVars, derivedVars
<1>2. CASE FollowUpRemove(m)
  <2>1. job' \in [Match -> JobType]
    BY <1>2, IdleTyped DEF FollowUpRemove, TypeOK
  <2>2. follow' \in [Match -> {"none", "check", "remove", "add"}]
    BY <1>2 DEF FollowUpRemove, TypeOK
  <2> QED BY <1>2, <2>1, <2>2 DEF FollowUpRemove, TypeOK, rowVars, derivedVars
<1>3. CASE FollowUpAdd(m)
  <2>1. job' \in [Match -> JobType]
    BY <1>3, EnqueueTyped DEF FollowUpAdd
  <2>2. follow' \in [Match -> {"none", "check", "remove", "add"}]
    BY <1>3 DEF FollowUpAdd, TypeOK
  <2> QED BY <1>3, <2>1, <2>2 DEF FollowUpAdd, TypeOK, rowVars, derivedVars
<1> QED BY <1>1, <1>2, <1>3 DEF FollowUpStep

(* The failures keep the types. *)
LEMMA FaultStepTyped ==
  ASSUME IInv, FaultStep
  PROVE  TypeOK'
<1> USE DEF IInv
<1>1. ASSUME NEW w \in Writer, WriterLost(w) PROVE TypeOK'
  <2>1. writer' \in [Writer -> WriterType]
    BY <1>1, EndTyped DEF WriterLost
  <2>2. faults' \in 0..MaxFaults
    BY <1>1, FaultTyped DEF WriterLost
  <2> QED BY <1>1, <2>1, <2>2 DEF WriterLost, TypeOK, rowVars, derivedVars
<1>2. ASSUME NEW m \in Match, JobError(m) PROVE TypeOK'
  BY <1>2, FailAttemptTyped DEF JobError
<1>3. ASSUME NEW m \in Match, JobStalled(m) PROVE TypeOK'
  <2>1. run' \in [Match -> RunType]
    BY <1>3, DiscardTyped DEF JobStalled
  <2>2. job[m] \in JobType /\ job \in [Match -> JobType]
    BY DEF TypeOK
  <2>3. job[m].attempts \in Nat /\ job[m].stalls + 1 \in Nat
    BY <2>2 DEF JobType
  <2>4. ASSUME NEW state \in {"waiting", "retained"}
        PROVE  [state |-> state, attempts |-> job[m].attempts, stalls |-> job[m].stalls + 1]
                 \in JobType
    BY <2>3 DEF JobType
  <2>5. job' \in [Match -> JobType]
    BY <1>3, <2>2, <2>4 DEF JobStalled
  <2>6. faults' \in 0..MaxFaults
    BY <1>3, FaultTyped DEF JobStalled
  <2> QED BY <1>3, <2>1, <2>5, <2>6 DEF JobStalled, TypeOK, rowVars, derivedVars
<1>4. ASSUME NEW m \in Match, BumpFails(m) PROVE TypeOK'
  <2>1. run' \in [Match -> RunType]
    BY <1>4, AdvanceTyped DEF BumpFails, AfterBump, Phase
  <2>2. faults' \in 0..MaxFaults
    BY <1>4, FaultTyped DEF BumpFails
  <2> QED BY <1>4, <2>1, <2>2 DEF BumpFails, TypeOK, rowVars, derivedVars
<1>5. ASSUME NEW m \in Match, FollowUpLost(m) PROVE TypeOK'
  <2>1. follow' \in [Match -> {"none", "check", "remove", "add"}]
    BY <1>5 DEF FollowUpLost, TypeOK
  <2>2. faults' \in 0..MaxFaults
    BY <1>5, FaultTyped DEF FollowUpLost
  <2> QED BY <1>5, <2>1, <2>2 DEF FollowUpLost, TypeOK, rowVars, derivedVars
<1> QED BY <1>1, <1>2, <1>3, <1>4, <1>5 DEF FaultStep

-----------------------------------------------------------------------------
(* The other parts of the inductive invariant.                             *)

(* Steps that write neither status nor dimensions, and leave no execution just
   before its COMPLETED transaction that was not there already.             *)
LEMMA PlacedByFrame ==
  ASSUME StoredMatchesArePlaced, UNCHANGED <<status, slot>>,
         \A w \in Writer : writer'[w].pc = "complete" => writer'[w] = writer[w]
  PROVE  StoredMatchesArePlaced'
BY DEF StoredMatchesArePlaced

(* A trigger that begins stores nothing without its place. *)
LEMMA PlacedByTrigger ==
  ASSUME IInv, NEW w \in Writer, TriggerStep(w)
  PROVE  StoredMatchesArePlaced'
<1> USE DEF IInv
<1>1. writer \in [Writer -> WriterType]
  BY DEF TypeOK
<1>2. ASSUME NEW kind, NEW m, NEW p, NEW pc, NEW prev, NEW known,
             Begin(w, kind, m, p, pc, prev, known),
             pc # "complete"
      PROVE  \A v \in Writer : writer'[v].pc = "complete" => writer'[v] = writer[v]
  BY <1>1, <1>2 DEF Begin
<1>3. \A v \in Writer : writer'[v].pc = "complete" => writer'[v] = writer[v]
  BY <1>2 DEF TriggerStep, IngestLoad, LinkLoad, Reconcile, EnrichLoad
<1>4. UNCHANGED <<status, slot>>
  BY DEF TriggerStep, IngestLoad, LinkLoad, Reconcile, EnrichLoad, rowVars
<1> QED BY <1>3, <1>4, PlacedByFrame

(* Nor does one under way. *)
LEMMA PlacedByWriter ==
  ASSUME IInv, NEW w \in Writer, WriterStep(w)
  PROVE  StoredMatchesArePlaced'
<1> USE DEF IInv
<1>1. writer \in [Writer -> WriterType]
  BY DEF TypeOK
<1>2. CASE IngestPersist(w)
  <2> DEFINE m == writer[w].match
  <2>1. m \in Match
    BY <1>2, BusyWriterTyped DEF IngestPersist
  <2>2. PICK s \in Placements(m) :
          slot' = [p \in Participant |-> IF p \in Players(m) THEN s[p] ELSE slot[p]]
    BY <1>2 DEF IngestPersist
  <2>3. status' = [status EXCEPT ![m] = "IN_PROGRESS"]
    BY <1>2 DEF IngestPersist
  <2>4. ASSUME NEW p \in Participant, status'[MatchOf[p]] # "NONE" PROVE slot'[p] \in Slot
    <3>1. CASE p \in Players(m)
      BY <2>2, <3>1 DEF Placements
    <3>2. CASE p \notin Players(m)
      <4>1. MatchOf[p] # m
        BY <3>2 DEF Players
      <4>2. status[MatchOf[p]] # "NONE"
        BY <2>3, <2>4, <4>1, ConstantsAssumption DEF TypeOK
      <4> QED BY <2>2, <3>2, <4>2 DEF StoredMatchesArePlaced
    <3> QED BY <3>1, <3>2
  <2>5. ASSUME NEW v \in Writer, writer'[v].pc = "complete"
        PROVE  status'[writer'[v].match] # "NONE"
    <3>1. CASE v = w
      <4>1. writer'[w].match = m
        BY <1>1, <1>2 DEF IngestPersist, Goto, WriterType
      <4> QED BY <2>1, <2>3, <3>1, <4>1 DEF TypeOK
    <3>2. CASE v # w
      <4>1. writer'[v] = writer[v]
        BY <1>1, <1>2, <3>2 DEF IngestPersist, Goto
      <4>2. status[writer[v].match] # "NONE" /\ writer[v].match \in Match
        BY <2>5, <4>1 DEF StoredMatchesArePlaced, WritersHaveTargets
      <4> QED BY <2>3, <4>1, <4>2 DEF TypeOK
    <3> QED BY <3>1, <3>2
  <2> QED BY <2>4, <2>5 DEF StoredMatchesArePlaced
<1>3. CASE IngestComplete(w)
  <2> DEFINE m == writer[w].match
  <2>1. m \in Match /\ status[m] # "NONE"
    BY <1>3, BusyWriterTyped DEF IngestComplete, StoredMatchesArePlaced
  <2>2. status' = [status EXCEPT ![m] = "COMPLETED"] /\ slot' = slot
    BY <1>3 DEF IngestComplete
  <2>3. ASSUME NEW p \in Participant, status'[MatchOf[p]] # "NONE" PROVE slot'[p] \in Slot
    BY <2>1, <2>2, <2>3, ConstantsAssumption DEF TypeOK, StoredMatchesArePlaced
  <2>4. ASSUME NEW v \in Writer, writer'[v].pc = "complete"
        PROVE  status'[writer'[v].match] # "NONE"
    <3>1. v # w /\ writer'[v] = writer[v]
      BY <1>1, <1>3, <2>4 DEF IngestComplete, Goto, WriterType
    <3>2. status[writer[v].match] # "NONE" /\ writer[v].match \in Match
      BY <2>4, <3>1 DEF StoredMatchesArePlaced, WritersHaveTargets
    <3> QED BY <2>2, <3>1, <3>2 DEF TypeOK
  <2> QED BY <2>3, <2>4 DEF StoredMatchesArePlaced
<1>4. ASSUME LinkApply(w) \/ EnrichApply(w) \/ UpsertRead(w) \/ UpsertWrite(w)
               \/ CheckJob(w) \/ RemoveJob(w) \/ AddJob(w)
      PROVE  StoredMatchesArePlaced'
  <2>1. UNCHANGED <<status, slot>>
    BY <1>4 DEF LinkApply, EnrichApply, UpsertRead, UpsertWrite, CheckJob, RemoveJob,
                AddJob, rowVars
  <2>2. ASSUME NEW pc, pc # "complete", Goto(w, pc) \/ End(w)
        PROVE  \A v \in Writer : writer'[v].pc = "complete" => writer'[v] = writer[v]
    BY <1>1, <2>2 DEF Goto, End, IdleWriter, WriterType
  <2>3. CASE UpsertRead(w)
    <3>1. \A v \in Writer : writer'[v].pc = "complete" => writer'[v] = writer[v]
      BY <1>1, <2>3 DEF UpsertRead, WriterType
    <3> QED BY <2>1, <3>1, PlacedByFrame
  <2>4. CASE ~UpsertRead(w)
    <3>1. \A v \in Writer : writer'[v].pc = "complete" => writer'[v] = writer[v]
      BY <1>4, <2>2, <2>4 DEF LinkApply, EnrichApply, UpsertWrite, CheckJob, RemoveJob, AddJob
    <3> QED BY <2>1, <3>1, PlacedByFrame
  <2> QED BY <2>3, <2>4
<1> QED BY <1>2, <1>3, <1>4 DEF WriterStep

(* A trigger keeps its match until it ends. *)
LEMMA TargetsByStep ==
  ASSUME IInv, NEW w \in Writer, TriggerStep(w) \/ WriterStep(w)
  PROVE  WritersHaveTargets'
<1> USE DEF IInv
<1>1. writer \in [Writer -> WriterType]
  BY DEF TypeOK
<1>2. ASSUME NEW kind, NEW m \in Match, NEW p, NEW pc, NEW prev, NEW known,
             Begin(w, kind, m, p, pc, prev, known)
      PROVE  WritersHaveTargets'
  BY <1>1, <1>2 DEF Begin, WritersHaveTargets
<1>3. ASSUME TriggerStep(w) PROVE WritersHaveTargets'
  BY <1>2, <1>3, ConstantsAssumption
     DEF TriggerStep, IngestLoad, LinkLoad, Reconcile, EnrichLoad
<1>4. ASSUME NEW pc, writer[w].pc # "idle", Goto(w, pc) \/ End(w)
      PROVE  WritersHaveTargets'
  BY <1>1, <1>4 DEF Goto, End, IdleWriter, WriterType, WritersHaveTargets
<1>5. ASSUME UpsertRead(w) PROVE WritersHaveTargets'
  BY <1>1, <1>5 DEF UpsertRead, WriterType, WritersHaveTargets
<1>6. ASSUME WriterStep(w), ~UpsertRead(w) PROVE WritersHaveTargets'
  BY <1>4, <1>6 DEF WriterStep, IngestPersist, IngestComplete, LinkApply, EnrichApply,
                    UpsertWrite, CheckJob, RemoveJob, AddJob
<1> QED BY <1>3, <1>5, <1>6

(* A run's loaded keys and recalculated keys are fixed by its two reads. *)
LEMMA CoverByJob ==
  ASSUME IInv, NEW m \in Match, JobStep(m)
  PROVE  RunsCoverLoaded'
<1> USE DEF IInv
<1>1. run \in [Match -> RunType]
  BY DEF TypeOK
<1>2. ASSUME NEW phase,
             \/ phase \notin {"fold", "write", "clear"}
             \/ run[m].phase \in {"fold", "write", "clear"},
             Advance(m, phase) \/ Discard(m)
      PROVE  RunsCoverLoaded'
  BY <1>1, <1>2 DEF Advance, Discard, IdleRun, RunType, RunsCoverLoaded
<1>3. ASSUME LoadScope(m) PROVE RunsCoverLoaded'
  BY <1>1, <1>3 DEF LoadScope, RunType, RunsCoverLoaded
<1>4. ASSUME ReadMatch(m) PROVE RunsCoverLoaded'
  BY <1>1, <1>4 DEF ReadMatch, AffectedKeys, RunType, RunsCoverLoaded
<1>5. ASSUME FoldContributors(m) PROVE RunsCoverLoaded'
  BY <1>1, <1>5 DEF FoldContributors, RunType, RunsCoverLoaded
<1>6. ASSUME ClearScope(m) PROVE RunsCoverLoaded'
  BY <1>1, <1>6 DEF ClearScope, RunType, RunsCoverLoaded
<1>7. ASSUME StartJob(m) \/ ScopeMissing(m) \/ WriteRecalculation(m) \/ BumpGeneration(m)
               \/ ReadMatchups(m) \/ DeleteMatchups(m) \/ CreateMatchups(m) \/ FinishJob(m)
      PROVE  RunsCoverLoaded'
  BY <1>2, <1>7 DEF StartJob, ScopeMissing, FailAttempt, WriteRecalculation, BumpGeneration,
                    AfterBump, ReadMatchups, DeleteMatchups, CreateMatchups, MatchupStep, FinishJob
<1> QED BY <1>3, <1>4, <1>5, <1>6, <1>7 DEF JobStep

(* A fault writes neither the rows nor what a run has loaded. *)
LEMMA FaultKeepsRest ==
  ASSUME IInv, FaultStep
  PROVE  StoredMatchesArePlaced' /\ WritersHaveTargets' /\ RunsCoverLoaded'
<1> USE DEF IInv
<1>0. writer \in [Writer -> WriterType] /\ run \in [Match -> RunType]
  BY DEF TypeOK
<1>1. UNCHANGED <<status, slot>>
  BY DEF FaultStep, WriterLost, JobError, JobStalled, BumpFails, FollowUpLost, FailAttempt,
         rowVars
<1>2. \A v \in Writer : writer'[v] = writer[v] \/ writer'[v] = IdleWriter
  BY <1>0 DEF FaultStep, WriterLost, JobError, JobStalled, BumpFails, FollowUpLost,
              FailAttempt, End
<1>3. StoredMatchesArePlaced'
  BY <1>1, <1>2, PlacedByFrame DEF IdleWriter
<1>4. WritersHaveTargets'
  BY <1>2 DEF WritersHaveTargets, IdleWriter
<1>5. \A n \in Match :
        \/ run'[n] = run[n]
        \/ run'[n].phase \in {"idle", "matchup", "finish"}
  BY <1>0 DEF FaultStep, WriterLost, JobError, JobStalled, BumpFails, FollowUpLost,
              FailAttempt, Discard, IdleRun, AfterBump, Advance, RunType
<1>6. RunsCoverLoaded'
  BY <1>5 DEF RunsCoverLoaded
<1> QED BY <1>3, <1>4, <1>6

(* Every step keeps the inductive invariant. *)
LEMMA NextIInv == IInv /\ [Next]_vars => IInv'
<1> SUFFICES ASSUME IInv, [Next]_vars PROVE IInv'
  OBVIOUS
<1>1. ASSUME NEW w \in Writer, TriggerStep(w) PROVE IInv'
  <2>1. RunsCoverLoaded'
    BY <1>1 DEF TriggerStep, IngestLoad, LinkLoad, Reconcile, EnrichLoad, IInv, RunsCoverLoaded
  <2> QED BY <1>1, <2>1, TriggerTyped, PlacedByTrigger, TargetsByStep DEF IInv
<1>2. ASSUME NEW w \in Writer, WriterStep(w) PROVE IInv'
  <2>1. RunsCoverLoaded'
    BY <1>2 DEF WriterStep, IngestPersist, IngestComplete, LinkApply, EnrichApply, UpsertRead,
                UpsertWrite, CheckJob, RemoveJob, AddJob, IInv, RunsCoverLoaded
  <2> QED BY <1>2, <2>1, WriterTyped, PlacedByWriter, TargetsByStep DEF IInv
<1>3. ASSUME NEW m \in Match, JobStep(m) PROVE IInv'
  <2>1. UNCHANGED <<status, slot, writer>>
    BY <1>3 DEF JobStep, StartJob, LoadScope, ScopeMissing, FailAttempt, ReadMatch,
                FoldContributors, WriteRecalculation, ClearScope, BumpGeneration,
                ReadMatchups, DeleteMatchups, CreateMatchups, MatchupStep, FinishJob, rowVars
  <2>2. StoredMatchesArePlaced' /\ WritersHaveTargets'
    BY <2>1 DEF IInv, StoredMatchesArePlaced, WritersHaveTargets
  <2> QED BY <1>3, <2>2, JobTyped, CoverByJob DEF IInv
<1>4. ASSUME NEW m \in Match, FollowUpStep(m) PROVE IInv'
  <2>1. UNCHANGED <<status, slot, writer, run>>
    BY <1>4 DEF FollowUpStep, FollowUpCheck, FollowUpRemove, FollowUpAdd, rowVars
  <2>2. StoredMatchesArePlaced' /\ WritersHaveTargets' /\ RunsCoverLoaded'
    BY <2>1 DEF IInv, StoredMatchesArePlaced, WritersHaveTargets, RunsCoverLoaded
  <2> QED BY <1>4, <2>2, FollowUpTyped DEF IInv
<1>5. CASE FaultStep
  BY <1>5, FaultStepTyped, FaultKeepsRest DEF IInv
<1>6. CASE UNCHANGED vars
  BY <1>6 DEF IInv, TypeOK, StoredMatchesArePlaced, WritersHaveTargets, RunsCoverLoaded,
              vars, rowVars, derivedVars
<1> QED BY <1>1, <1>2, <1>3, <1>4, <1>5, <1>6 DEF Next

(* The inductive invariant holds for every set of matches, participants and
   concurrent triggers, whatever fails.                                    *)
THEOREM Inductive == Spec => []IInv
BY InitIInv, NextIInv, PTL DEF Spec

(* Type correctness, for every instance. *)
THEOREM TypeCorrect == Spec => []TypeOK
<1>1. IInv => TypeOK
  BY DEF IInv
<1> QED BY <1>1, Inductive, PTL

(* The steps that change a scope row: a trigger's upsert, which never removes
   it, and the conditional clear of a run, whose loaded keys are all among the
   keys it recalculated.                                                   *)
LEMMA StepClearsCovered ==
  ASSUME IInv, [Next]_vars, NEW m \in Match, scope[m] # None, scope'[m] = None
  PROVE  scope[m] \subseteq run[m].affected
<1> USE DEF IInv
<1>1. scope \in [Match -> {None} \cup SUBSET Key]
  BY DEF TypeOK
<1>2. ASSUME NEW w \in Writer, UpsertWrite(w) PROVE FALSE
  <2>1. MergedKeys(writer[w].row, writer[w].prev) \in SUBSET Key
    BY <1>2, BusyWriterTyped, MergedKeysTyped DEF UpsertWrite
  <2>2. MergedKeys(writer[w].row, writer[w].prev) # None
    BY <2>1, ConstantsAssumption
  <2> QED BY <1>1, <1>2, <2>2 DEF UpsertWrite
<1>3. ASSUME NEW n \in Match, ClearScope(n) PROVE scope[m] \subseteq run[m].affected
  <2>1. n = m /\ ScopeUnchanged(m)
    BY <1>1, <1>3 DEF ClearScope
  <2>2. run[m].loaded \subseteq run[m].affected
    BY <1>3, <2>1 DEF ClearScope, RunsCoverLoaded
  <2> QED BY <2>1, <2>2 DEF ScopeUnchanged
<1>4. ASSUME NEW w \in Writer, TriggerStep(w) \/ (WriterStep(w) /\ ~UpsertWrite(w))
      PROVE  FALSE
  BY <1>4 DEF TriggerStep, IngestLoad, LinkLoad, Reconcile, EnrichLoad, WriterStep,
              IngestPersist, IngestComplete, LinkApply, EnrichApply, UpsertRead, CheckJob,
              RemoveJob, AddJob
<1>5. ASSUME NEW n \in Match, (JobStep(n) /\ ~ClearScope(n)) \/ FollowUpStep(n)
      PROVE  FALSE
  BY <1>5 DEF JobStep, StartJob, LoadScope, ScopeMissing, FailAttempt, ReadMatch,
              FoldContributors, WriteRecalculation, BumpGeneration, ReadMatchups,
              DeleteMatchups, CreateMatchups, MatchupStep, FinishJob, FollowUpStep, FollowUpCheck, FollowUpRemove,
              FollowUpAdd
<1>6. ASSUME FaultStep PROVE FALSE
  BY <1>6 DEF FaultStep, WriterLost, JobError, JobStalled, BumpFails, FollowUpLost,
              FailAttempt
<1>7. ASSUME UNCHANGED vars PROVE FALSE
  BY <1>7 DEF vars
<1> QED BY <1>2, <1>3, <1>4, <1>5, <1>6, <1>7 DEF Next

(* No pending key is dropped by a clear that did not recalculate it, for every
   instance: the guarantee of clearRecalcScope.                            *)
THEOREM ClearCovers == Spec => ClearCoversRow
<1>1. IInv /\ [Next]_vars =>
        [\A m \in Match : scope[m] # None /\ scope'[m] = None
                            => scope[m] \subseteq run[m].affected]_vars
  BY StepClearsCovered
<1> QED BY <1>1, Inductive, PTL DEF Spec, ClearCoversRow

-----------------------------------------------------------------------------
(* What is owed is found, in the setting of OneFailureSetting.             *)

(***************************************************************************)
(* What is owed is reconcilable, for every instance of the setting in      *)
(* which it is.                                                            *)
(***************************************************************************)

(* A match of the setting has one row, and every row a match of its own. *)
LEMMA OneRowPerMatch ==
  ASSUME OneFailureSetting
  PROVE  /\ \A p \in Participant : MatchOf[p] \in Match /\ Players(MatchOf[p]) = {p}
         /\ \A p, q \in Participant : MatchOf[p] = MatchOf[q] => p = q
         /\ \A m \in Match : \E p \in Participant : MatchOf[p] = m
         /\ \A m \in Match : Eligible(m) <=> status[m] = "COMPLETED"
<1>1. \A p \in Participant : MatchOf[p] \in Match /\ p \in Players(MatchOf[p])
  BY ConstantsAssumption DEF Players
<1>2. \A m \in Match : \E p \in Participant : Players(m) = {p}
  BY DEF OneFailureSetting
<1>3. \A p \in Participant : Players(MatchOf[p]) = {p}
  BY <1>1, <1>2
<1>4. \A m \in Match : \E p \in Participant : MatchOf[p] = m
  BY <1>2 DEF Players
<1>5. \A m \in Match : Eligible(m) <=> status[m] = "COMPLETED"
  BY <1>2 DEF Eligible
<1> QED BY <1>1, <1>3, <1>4, <1>5

(* The keys a match feeds are those of its row. *)
LEMMA KeysOfOneRow ==
  ASSUME OneFailureSetting, NEW p \in Participant
  PROVE  KeysOf(Players(MatchOf[p])) = ContributedKeys(p)
BY OneRowPerMatch DEF KeysOf

(* A row feeds ALL, and nothing else before it is resolved. *)
LEMMA ContributedFacts ==
  ASSUME NEW p \in Participant
  PROVE  /\ AllKey(p) \in ContributedKeys(p)
         /\ rank[p] = "PENDING" => ContributedKeys(p) = {AllKey(p)}
BY ConstantsAssumption DEF ContributedKeys, AllKey

(* A writer that goes on keeps what it is about. *)
LEMMA GotoFields ==
  ASSUME TypeOK, NEW w \in Writer, NEW pc, Goto(w, pc)
  PROVE  /\ \A v \in Writer : v # w => writer'[v] = writer[v]
         /\ writer'[w].pc = pc
         /\ writer'[w].kind = writer[w].kind /\ writer'[w].match = writer[w].match
         /\ writer'[w].who = writer[w].who /\ writer'[w].prev = writer[w].prev
         /\ writer'[w].row = writer[w].row
BY DEF TypeOK, WriterType, Goto

(* A writer that begins, or ends, is alone to change. *)
LEMMA BeginFields ==
  ASSUME TypeOK, NEW w \in Writer, NEW kind, NEW m, NEW p, NEW pc, NEW prev,
         NEW known, Begin(w, kind, m, p, pc, prev, known)
  PROVE  /\ \A v \in Writer : v # w => writer'[v] = writer[v]
         /\ writer'[w] = [pc |-> pc, kind |-> kind, match |-> m, who |-> p,
                          prev |-> prev, known |-> known, row |-> None]
         /\ writer[w].pc = "idle"
BY DEF TypeOK, Begin

(* A writer that ends leaves nothing. *)
LEMMA EndFields ==
  ASSUME TypeOK, NEW w \in Writer, End(w)
  PROVE  /\ \A v \in Writer : v # w => writer'[v] = writer[v]
         /\ writer'[w] = IdleWriter
BY DEF TypeOK, End

(* A writer that reads the scope row. *)
LEMMA UpsertReadFields ==
  ASSUME TypeOK, NEW w \in Writer, UpsertRead(w)
  PROVE  /\ \A v \in Writer : v # w => writer'[v] = writer[v]
         /\ writer'[w].pc = "upsertWrite"
         /\ writer'[w].kind = writer[w].kind /\ writer'[w].match = writer[w].match
         /\ writer'[w].who = writer[w].who /\ writer'[w].prev = writer[w].prev
         /\ writer'[w].row = scope[writer[w].match]
BY DEF TypeOK, WriterType, UpsertRead

(* The steps of the setting: no reingestion, link or reconciliation, no loss
   before the scope row is durable, no failed INCR.                         *)
SettingStep ==
  \/ \E w \in Writer :
       \/ \E m \in Match : IngestLoad(w, m) /\ status[m] = "NONE"
       \/ \E p \in Participant : EnrichLoad(w, p)
       \/ WriterStep(w) /\ ~LinkApply(w)
       \/ WriterLost(w) /\ writer[w].pc \in {"check", "remove", "add"}
  \/ \E m \in Match : JobStep(m) \/ FollowUpStep(m) \/ JobError(m) \/ JobStalled(m)
                        \/ FollowUpLost(m)

(* In the setting, every step is one of these. *)
LEMMA OnlySettingSteps ==
  ASSUME OneFailureSetting, IInv, OwedInv, Next
  PROVE  SettingStep
<1>1. \A w \in Writer : writer[w].pc # "link"
  BY DEF OwedInv, WritersAreOrderly, WriterIsPlaced, IngestIsOrderly, EnrichIsOrderly
<1>2. ASSUME NEW w \in Writer, NEW m \in Match, IngestLoad(w, m)
      PROVE  status[m] = "NONE"
  <2>1. status[m] # "COMPLETED"
    BY <1>2 DEF IngestLoad, CountTrigger, OneFailureSetting
  <2>2. status[m] # "IN_PROGRESS"
    BY <1>2 DEF OwedInv, IngestionsGoOn, Ingests, IngestLoad, Ingesting
  <2> QED BY <1>2, <2>1, <2>2 DEF IngestLoad
<1>3. ASSUME NEW w \in Writer, NEW m \in Match, LinkLoad(w, m) \/ Reconcile(w, m)
      PROVE  FALSE
  BY <1>3 DEF LinkLoad, Reconcile, CountTrigger, OneFailureSetting
<1>4. ASSUME NEW w \in Writer, LinkApply(w) PROVE FALSE
  BY <1>1, <1>4 DEF LinkApply
<1>5. ASSUME NEW w \in Writer, WriterLost(w)
      PROVE  writer[w].pc \in {"check", "remove", "add"}
  BY <1>5 DEF WriterLost, Fault, OneFailureSetting
<1>6. ASSUME NEW m \in Match, BumpFails(m) PROVE FALSE
  BY <1>6 DEF BumpFails, Fault, OneFailureSetting
<1>7. ASSUME NEW w \in Writer, TriggerStep(w) PROVE SettingStep
  BY <1>2, <1>3, <1>7 DEF TriggerStep, SettingStep
<1>8. ASSUME NEW w \in Writer, WriterStep(w) PROVE SettingStep
  BY <1>4, <1>8 DEF SettingStep
<1>9. ASSUME FaultStep PROVE SettingStep
  BY <1>5, <1>6, <1>9 DEF FaultStep, SettingStep
<1>10. ASSUME NEW m \in Match, JobStep(m) \/ FollowUpStep(m) PROVE SettingStep
  BY <1>10 DEF SettingStep
<1> QED BY <1>7, <1>8, <1>9, <1>10 DEF Next

(* The steps that leave the writers and the rows alone. *)
LEMMA BackgroundFrame ==
  ASSUME NEW m \in Match,
         JobStep(m) \/ FollowUpStep(m) \/ JobError(m) \/ JobStalled(m) \/ FollowUpLost(m)
  PROVE  UNCHANGED <<status, slot, rank, writer>>
BY DEF JobStep, StartJob, LoadScope, ScopeMissing, FailAttempt, ReadMatch, FoldContributors,
       WriteRecalculation, ClearScope, BumpGeneration, ReadMatchups, DeleteMatchups, CreateMatchups, MatchupStep, FinishJob,
       FollowUpStep, FollowUpCheck, FollowUpRemove, FollowUpAdd, JobError, JobStalled,
       FollowUpLost, rowVars

-----------------------------------------------------------------------------
(* WritersAreOrderly: triggers and executions are where they are with their rows. *)

(* What a writer at a given place is. *)
LEMMA WriterAt ==
  ASSUME IInv, WritersAreOrderly, NEW w \in Writer
  PROVE  /\ writer[w].pc \in {"persist", "complete"} => writer[w].kind = "ingest"
         /\ writer[w].pc = "apply" => writer[w].kind = "enrich"
         /\ writer[w].kind \in {"ingest", "enrich"} => writer[w].pc # "idle"
         /\ writer[w].pc # "idle" => /\ writer[w].kind \in {"ingest", "enrich"}
                                     /\ writer[w].match \in Match
         /\ writer[w].kind = "enrich" => /\ writer[w].who \in Participant
                                         /\ writer[w].match = MatchOf[writer[w].who]
                                         /\ status[writer[w].match] # "NONE"
         /\ writer[w].pc \in {"upsertRead", "upsertWrite", "check", "remove", "add"}
              => status[writer[w].match] # "NONE"
BY DEF IInv, WritersHaveTargets, WritersAreOrderly, WriterIsPlaced, IngestIsOrderly,
       EnrichIsOrderly

(* A writer that does not move is where it is, unless another has moved its
   rows or has taken up its work.                                          *)
LEMMA OthersStayOrderly ==
  ASSUME WritersAreOrderly, NEW w \in Writer, NEW v \in Writer, v # w,
         \A u \in Writer : u # w => writer'[u] = writer[u],
         writer[v].kind = "ingest" =>
           /\ status'[writer[v].match] = status[writer[v].match]
           /\ writer'[w].kind = "ingest" => writer'[w].match # writer[v].match,
         writer[v].kind = "enrich" =>
           /\ status'[writer[v].match] # "NONE"
           /\ rank'[writer[v].who] = rank[writer[v].who]
           /\ slot'[writer[v].who] = slot[writer[v].who]
           /\ writer'[w].kind = "enrich" => writer'[w].who # writer[v].who
  PROVE  (WriterIsPlaced(v) /\ IngestIsOrderly(v) /\ EnrichIsOrderly(v))'
<1>1. WriterIsPlaced(v)'
  BY DEF WritersAreOrderly, WriterIsPlaced
<1>2. IngestIsOrderly(v)'
  BY DEF WritersAreOrderly, IngestIsOrderly
<1>3. EnrichIsOrderly(v)'
  BY DEF WritersAreOrderly, EnrichIsOrderly, AllKey
<1> QED BY <1>1, <1>2, <1>3

(* A writer that goes on, or ends, takes up nobody's work. *)
LEMMA OrderlyByMove ==
  ASSUME WritersAreOrderly, NEW w \in Writer,
         \A u \in Writer : u # w => writer'[u] = writer[u],
         \/ writer'[w] = IdleWriter
         \/ /\ writer'[w].kind = writer[w].kind /\ writer'[w].match = writer[w].match
            /\ writer'[w].who = writer[w].who
            /\ WriterIsPlaced(w)'
            /\ writer[w].kind = "ingest" =>
                 writer'[w].prev = {} /\
                   \/ writer'[w].pc = "complete" /\ status'[writer[w].match] = "IN_PROGRESS"
                   \/ /\ writer'[w].pc \in {"upsertRead", "upsertWrite", "check", "remove", "add"}
                      /\ status'[writer[w].match] = "COMPLETED"
            /\ writer[w].kind = "enrich" =>
                 /\ writer'[w].prev = writer[w].prev /\ slot'[writer[w].who] = slot[writer[w].who]
                 /\ status'[writer[w].match] # "NONE" /\ rank'[writer[w].who] # "PENDING"
                 /\ writer'[w].pc \in {"upsertRead", "upsertWrite", "check", "remove", "add"},
         \A v \in Writer : v # w =>
           /\ writer[v].kind = "ingest" => status'[writer[v].match] = status[writer[v].match]
           /\ writer[v].kind = "enrich" =>
                /\ status'[writer[v].match] # "NONE"
                /\ rank'[writer[v].who] = rank[writer[v].who]
                /\ slot'[writer[v].who] = slot[writer[v].who]
  PROVE  WritersAreOrderly'
<1>1. ASSUME NEW v \in Writer, v # w
      PROVE  (WriterIsPlaced(v) /\ IngestIsOrderly(v) /\ EnrichIsOrderly(v))'
  <2>1. writer[v].kind = "ingest"
                  /\ writer'[w].kind = "ingest" => writer'[w].match # writer[v].match
    BY <1>1 DEF WritersAreOrderly, IngestIsOrderly, IdleWriter
  <2>2. writer[v].kind = "enrich" /\ writer'[w].kind = "enrich" => writer'[w].who # writer[v].who
    BY <1>1 DEF WritersAreOrderly, EnrichIsOrderly, IdleWriter
  <2> QED BY <1>1, <2>1, <2>2, OthersStayOrderly
<1>2. (WriterIsPlaced(w) /\ IngestIsOrderly(w) /\ EnrichIsOrderly(w))'
  <2>1. CASE writer'[w] = IdleWriter
    BY <2>1 DEF WriterIsPlaced, IngestIsOrderly, EnrichIsOrderly, IdleWriter
  <2>2. CASE writer'[w] # IdleWriter
    <3>1. \A v \in Writer : v # w => writer'[v].kind = writer[v].kind
                 /\ writer'[v].match = writer[v].match /\ writer'[v].who = writer[v].who
      OBVIOUS
    <3>2. IngestIsOrderly(w)'
      BY <2>2, <3>1 DEF WritersAreOrderly, IngestIsOrderly
    <3>3. EnrichIsOrderly(w)'
      BY <2>2, <3>1 DEF WritersAreOrderly, EnrichIsOrderly, AllKey
    <3> QED BY <2>2, <3>2, <3>3
  <2> QED BY <2>1, <2>2
<1> QED BY <1>1, <1>2 DEF WritersAreOrderly

(* A trigger begins on a match that is not stored, or on a row that is unresolved. *)
LEMMA OrderlyByTrigger ==
  ASSUME OneFailureSetting, IInv, OwedInv, NEW w \in Writer,
         \/ \E m \in Match : IngestLoad(w, m) /\ status[m] = "NONE"
         \/ \E p \in Participant : EnrichLoad(w, p)
  PROVE  WritersAreOrderly'
<1>0. TypeOK /\ WritersAreOrderly
  BY DEF IInv, OwedInv
<1>1. ASSUME NEW m \in Match, IngestLoad(w, m), status[m] = "NONE"
      PROVE  WritersAreOrderly'
  <2>1. UNCHANGED <<status, rank, slot>>
    BY <1>1 DEF IngestLoad, rowVars
  <2>2. /\ \A v \in Writer : v # w => writer'[v] = writer[v]
        /\ writer'[w] = [pc |-> "persist", kind |-> "ingest", match |-> m, who |-> None,
                         prev |-> {}, known |-> KnownRanks(m), row |-> None]
    BY <1>0, <1>1, BeginFields DEF IngestLoad, PreviousKeys
  <2>3. \A v \in Writer : writer[v].kind = "ingest" => writer[v].match # m
    BY <1>1 DEF IngestLoad, Ingesting
  <2>4. \A v \in Writer : writer[v].kind = "enrich" => status[writer[v].match] # "NONE"
    BY <1>0, WriterAt
  <2>5. ASSUME NEW v \in Writer, v # w
        PROVE  (WriterIsPlaced(v) /\ IngestIsOrderly(v) /\ EnrichIsOrderly(v))'
    BY <1>0, <2>1, <2>2, <2>3, <2>4, <2>5, OthersStayOrderly
  <2>6. (WriterIsPlaced(w) /\ IngestIsOrderly(w) /\ EnrichIsOrderly(w))'
    BY <1>1, <2>1, <2>2, <2>3 DEF WriterIsPlaced, IngestIsOrderly, EnrichIsOrderly
  <2> QED BY <2>5, <2>6 DEF WritersAreOrderly
<1>2. ASSUME NEW p \in Participant, EnrichLoad(w, p)
      PROVE  WritersAreOrderly'
  <2>1. UNCHANGED <<status, rank, slot>>
    BY <1>2 DEF EnrichLoad, rowVars
  <2>4. status[MatchOf[p]] # "NONE" /\ rank[p] = "PENDING"
    BY <1>2 DEF EnrichLoad
  <2>2. /\ \A v \in Writer : v # w => writer'[v] = writer[v]
        /\ writer'[w] = [pc |-> "apply", kind |-> "enrich", match |-> MatchOf[p], who |-> p,
                         prev |-> {AllKey(p)}, known |-> {}, row |-> None]
    <3>1. ContributedKeys(p) = {AllKey(p)}
      BY <1>0, <2>4, ContributedFacts
    <3>2. Begin(w, "enrich", MatchOf[p], p, "apply", {AllKey(p)}, {})
      BY <1>2, <3>1 DEF EnrichLoad
    <3> QED BY <1>0, <3>2, BeginFields
  <2>3. \A v \in Writer : writer[v].kind = "enrich" => writer[v].who # p
    BY <1>2 DEF EnrichLoad
  <2>5. \A v \in Writer : writer[v].kind = "enrich" => status[writer[v].match] # "NONE"
    BY <1>0, WriterAt
  <2>6. ASSUME NEW v \in Writer, v # w
        PROVE  (WriterIsPlaced(v) /\ IngestIsOrderly(v) /\ EnrichIsOrderly(v))'
    BY <1>0, <2>1, <2>2, <2>3, <2>5, <2>6, OthersStayOrderly
  <2>7. (WriterIsPlaced(w) /\ IngestIsOrderly(w) /\ EnrichIsOrderly(w))'
    BY <2>1, <2>2, <2>3, <2>4 DEF WriterIsPlaced, IngestIsOrderly, EnrichIsOrderly, AllKey
  <2> QED BY <2>6, <2>7 DEF WritersAreOrderly
<1> QED BY <1>1, <1>2

(* An execution under way is where it is with the rows it is about. *)
LEMMA OrderlyByWriter ==
  ASSUME OneFailureSetting, IInv, OwedInv, NEW w \in Writer,
         (WriterStep(w) /\ ~LinkApply(w)) \/ WriterLost(w)
  PROVE  WritersAreOrderly'
<1> DEFINE m == writer[w].match
<1>0. TypeOK /\ WritersAreOrderly
  BY DEF IInv, OwedInv
<1>a. \A v \in Writer : writer[v].kind \in {"ingest", "enrich"} => writer[v].match \in Match
  BY <1>0, WriterAt
<1>b. \A v \in Writer : writer[v].kind = "enrich" => status[writer[v].match] # "NONE"
  BY <1>0, WriterAt
<1>1. CASE IngestPersist(w)
  <2>1. writer[w].kind = "ingest" /\ status[m] = "NONE" /\ m \in Match /\ writer[w].prev = {}
        /\ writer[w].pc = "persist" /\ writer[w].row = None
    BY <1>0, <1>1, WriterAt DEF IngestPersist, WritersAreOrderly, IngestIsOrderly, WriterIsPlaced
  <2>2. status' = [status EXCEPT ![m] = "IN_PROGRESS"] /\ Goto(w, "complete")
    BY <1>1 DEF IngestPersist
  <2>3. \A p \in Participant : MatchOf[p] # m => rank'[p] = rank[p] /\ slot'[p] = slot[p]
    BY <1>1 DEF IngestPersist, Players
  <2>4. /\ status'[m] = "IN_PROGRESS"
        /\ \A n \in Match : n # m => status'[n] = status[n]
    BY <1>0, <2>1, <2>2 DEF TypeOK
  <2>5. \A v \in Writer : v # w /\ writer[v].kind \in {"ingest", "enrich"} => writer[v].match # m
    BY <1>0, <1>b, <2>1 DEF WritersAreOrderly, IngestIsOrderly
  <2>6. \A v \in Writer : writer[v].kind = "enrich" => writer[v].who \in Participant
                                                   /\ writer[v].match = MatchOf[writer[v].who]
    BY <1>0, WriterAt
  <2>7. WriterIsPlaced(w)' /\ writer'[w].prev = {} /\ writer'[w].pc = "complete"
    BY <1>0, <2>1, <2>2, GotoFields DEF WriterIsPlaced
  <2> QED BY <1>0, <1>a, <1>b, <2>1, <2>2, <2>3, <2>4, <2>5, <2>6, <2>7, GotoFields, OrderlyByMove
<1>2. CASE IngestComplete(w)
  <2>1. writer[w].kind = "ingest" /\ m \in Match /\ writer[w].prev = {}
        /\ writer[w].pc = "complete" /\ writer[w].row = None
    BY <1>0, <1>2, WriterAt DEF IngestComplete, WritersAreOrderly, IngestIsOrderly, WriterIsPlaced
  <2>2. /\ status' = [status EXCEPT ![m] = "COMPLETED"] /\ Goto(w, "upsertRead")
        /\ UNCHANGED <<rank, slot>>
    BY <1>2 DEF IngestComplete
  <2>3. \A v \in Writer : v # w /\ writer[v].kind = "ingest" => writer[v].match # m
    BY <1>0, <2>1 DEF WritersAreOrderly, IngestIsOrderly
  <2>4. /\ status'[m] = "COMPLETED"
        /\ \A n \in Match : n # m => status'[n] = status[n]
    BY <1>0, <2>1, <2>2 DEF TypeOK
  <2>5. WriterIsPlaced(w)' /\ writer'[w].prev = {} /\ writer'[w].pc = "upsertRead"
    BY <1>0, <2>1, <2>2, GotoFields DEF WriterIsPlaced
  <2> QED BY <1>0, <1>a, <1>b, <2>1, <2>2, <2>3, <2>4, <2>5, GotoFields, OrderlyByMove
<1>3. CASE EnrichApply(w)
  <2>1. /\ writer[w].kind = "enrich" /\ writer[w].who \in Participant /\ writer[w].row = None
    BY <1>0, <1>3, WriterAt DEF EnrichApply, WritersAreOrderly, WriterIsPlaced
  <2>2. PICK r \in Outcome : rank' = [rank EXCEPT ![writer[w].who] = r]
    BY <1>3 DEF EnrichApply
  <2>3. Goto(w, "upsertRead") /\ UNCHANGED <<status, slot>>
    BY <1>3 DEF EnrichApply
  <2>4. r # "PENDING"
    BY DEF OneFailureSetting
  <2>5. /\ rank'[writer[w].who] # "PENDING"
        /\ \A p \in Participant : p # writer[w].who => rank'[p] = rank[p]
    BY <1>0, <2>1, <2>2, <2>4 DEF TypeOK
  <2>6. \A v \in Writer : v # w /\ writer[v].kind = "enrich" => writer[v].who # writer[w].who
                                                             /\ writer[v].who \in Participant
    BY <1>0, <2>1, WriterAt DEF WritersAreOrderly, EnrichIsOrderly
  <2>7. WriterIsPlaced(w)' /\ writer'[w].pc = "upsertRead"
    BY <1>0, <2>1, <2>3, GotoFields DEF WriterIsPlaced
  <2> QED BY <1>0, <1>b, <2>1, <2>3, <2>5, <2>6, <2>7, GotoFields, OrderlyByMove
<1>c. writer[w].pc \in {"upsertRead", "upsertWrite", "check", "remove", "add"} =>
        /\ writer[w].kind = "ingest" => writer[w].prev = {} /\ status[m] = "COMPLETED"
        /\ writer[w].kind = "enrich" => rank[writer[w].who] # "PENDING"
        /\ writer[w].kind \in {"ingest", "enrich"}
  BY <1>0, WriterAt DEF WritersAreOrderly, IngestIsOrderly, EnrichIsOrderly
<1>4. CASE UpsertRead(w)
  <2>1. UNCHANGED <<status, rank, slot>> /\ writer[w].pc = "upsertRead"
    BY <1>4 DEF UpsertRead, rowVars
  <2>2. WriterIsPlaced(w)'
    BY <1>0, <1>4, <1>c, <2>1, UpsertReadFields DEF WriterIsPlaced
  <2> QED BY <1>0, <1>4, <1>b, <1>c, <2>1, <2>2, UpsertReadFields, OrderlyByMove
<1>5. ASSUME NEW pc, Goto(w, pc), UNCHANGED <<status, rank, slot>>,
             writer[w].pc \in {"upsertWrite", "check", "remove", "add"},
             pc \in {"check", "remove", "add"}
      PROVE  WritersAreOrderly'
  <2>1. WriterIsPlaced(w)'
    BY <1>0, <1>5, <1>c, GotoFields DEF WriterIsPlaced
  <2> QED BY <1>0, <1>5, <1>b, <1>c, <2>1, GotoFields, OrderlyByMove
<1>6. ASSUME End(w), UNCHANGED <<status, rank, slot>> PROVE WritersAreOrderly'
  BY <1>0, <1>6, <1>b, EndFields, OrderlyByMove
<1>7. ASSUME UpsertWrite(w) \/ CheckJob(w) \/ RemoveJob(w) \/ AddJob(w) \/ WriterLost(w)
      PROVE  WritersAreOrderly'
  <2>1. UNCHANGED <<status, rank, slot>>
    BY <1>7 DEF UpsertWrite, CheckJob, RemoveJob, AddJob, WriterLost, rowVars
  <2>2. \/ End(w)
        \/ /\ writer[w].pc \in {"upsertWrite", "check", "remove", "add"}
           /\ \E pc \in {"check", "remove", "add"} : Goto(w, pc)
    BY <1>7 DEF UpsertWrite, CheckJob, RemoveJob, AddJob, WriterLost
  <2> QED BY <1>5, <1>6, <2>1, <2>2
<1> QED BY <1>1, <1>2, <1>3, <1>4, <1>7 DEF WriterStep

(* Triggers and executions stay where they are with their rows. *)
LEMMA OrderlyByStep ==
  ASSUME OneFailureSetting, IInv, OwedInv, SettingStep
  PROVE  WritersAreOrderly'
<1>1. ASSUME UNCHANGED <<status, slot, rank, writer>> PROVE WritersAreOrderly'
  BY <1>1 DEF OwedInv, WritersAreOrderly, WriterIsPlaced, IngestIsOrderly, EnrichIsOrderly, AllKey
<1> QED BY <1>1, OrderlyByTrigger, OrderlyByWriter, BackgroundFrame DEF SettingStep

-----------------------------------------------------------------------------
(* What a step changes: rows, writers, and the affairs of one match.      *)

(* How the rows and the writers move. *)
LEMMA RowSteps ==
  ASSUME OneFailureSetting, IInv, OwedInv, SettingStep
  PROVE  \/ UNCHANGED <<status, slot, rank>>
         \/ \E w \in Writer :
              \/ IngestPersist(w) /\ writer[w].kind = "ingest" /\ status[writer[w].match] = "NONE"
                   /\ status' = [status EXCEPT ![writer[w].match] = "IN_PROGRESS"]
                   /\ \A p \in Participant : MatchOf[p] # writer[w].match
                                               => rank'[p] = rank[p] /\ slot'[p] = slot[p]
              \/ IngestComplete(w) /\ writer[w].kind = "ingest"
                   /\ status[writer[w].match] = "IN_PROGRESS"
                   /\ status' = [status EXCEPT ![writer[w].match] = "COMPLETED"]
                   /\ UNCHANGED <<slot, rank>>
              \/ EnrichApply(w) /\ writer[w].kind = "enrich" /\ writer[w].who \in Participant
                   /\ writer[w].match = MatchOf[writer[w].who]
                   /\ rank[writer[w].who] = "PENDING"
                   /\ (\E r \in Outcome : rank' = [rank EXCEPT ![writer[w].who] = r])
                   /\ UNCHANGED <<slot, status>>
<1>0. TypeOK /\ WritersAreOrderly
  BY DEF IInv, OwedInv
<1>1. ASSUME NEW w \in Writer,
             \/ \E m \in Match : IngestLoad(w, m)
             \/ \E p \in Participant : EnrichLoad(w, p)
             \/ UpsertRead(w) \/ UpsertWrite(w) \/ CheckJob(w) \/ RemoveJob(w) \/ AddJob(w)
             \/ WriterLost(w)
      PROVE  UNCHANGED <<status, slot, rank>>
  BY <1>1 DEF IngestLoad, EnrichLoad, UpsertRead, UpsertWrite, CheckJob, RemoveJob, AddJob,
              WriterLost, rowVars
<1>2. ASSUME NEW w \in Writer, IngestPersist(w)
      PROVE  /\ writer[w].kind = "ingest" /\ status[writer[w].match] = "NONE"
             /\ status' = [status EXCEPT ![writer[w].match] = "IN_PROGRESS"]
             /\ \A p \in Participant : MatchOf[p] # writer[w].match
                                         => rank'[p] = rank[p] /\ slot'[p] = slot[p]
  BY <1>0, <1>2, WriterAt DEF IngestPersist, Players, WritersAreOrderly, IngestIsOrderly
<1>3. ASSUME NEW w \in Writer, IngestComplete(w)
      PROVE  /\ writer[w].kind = "ingest" /\ status[writer[w].match] = "IN_PROGRESS"
             /\ status' = [status EXCEPT ![writer[w].match] = "COMPLETED"]
             /\ UNCHANGED <<slot, rank>>
  BY <1>0, <1>3, WriterAt DEF IngestComplete, WritersAreOrderly, IngestIsOrderly
<1>4. ASSUME NEW w \in Writer, EnrichApply(w)
      PROVE  /\ writer[w].kind = "enrich" /\ writer[w].who \in Participant
             /\ writer[w].match = MatchOf[writer[w].who]
             /\ rank[writer[w].who] = "PENDING"
             /\ \E r \in Outcome : rank' = [rank EXCEPT ![writer[w].who] = r]
             /\ UNCHANGED <<slot, status>>
  BY <1>0, <1>4, WriterAt DEF EnrichApply, WritersAreOrderly, EnrichIsOrderly
<1>5. ASSUME NEW w \in Writer, WriterStep(w), ~LinkApply(w),
             ~(IngestPersist(w) \/ IngestComplete(w) \/ EnrichApply(w))
      PROVE  UNCHANGED <<status, slot, rank>>
  BY <1>1, <1>5 DEF WriterStep
<1> QED BY <1>1, <1>2, <1>3, <1>4, <1>5, BackgroundFrame DEF SettingStep

(* How a writer moves on, seen from its own record. *)
Keeps(w) == /\ writer'[w].kind = writer[w].kind /\ writer'[w].match = writer[w].match
            /\ writer'[w].who = writer[w].who

(* A trigger begins an execution. *)
Begins(w) ==
  /\ writer[w].pc = "idle" /\ writer'[w].row = None /\ UNCHANGED status
  /\ \/ writer'[w].pc = "persist" /\ writer'[w].kind = "ingest" /\ status[writer'[w].match] = "NONE"
     \/ writer'[w].pc = "apply" /\ writer'[w].kind = "enrich"

(* An execution changes match rows. *)
ChangesRows(w) ==
  /\ Keeps(w) /\ writer'[w].row = writer[w].row
  /\ \/ IngestPersist(w) /\ writer[w].pc = "persist" /\ writer'[w].pc = "complete"
     \/ IngestComplete(w) /\ writer[w].pc = "complete" /\ writer'[w].pc = "upsertRead"
     \/ EnrichApply(w) /\ writer[w].pc = "apply" /\ writer'[w].pc = "upsertRead"

(* An execution reads or writes the scope row. *)
Upserts(w) ==
  /\ Keeps(w)
  /\ \/ /\ UpsertRead(w) /\ writer[w].pc = "upsertRead" /\ writer'[w].pc = "upsertWrite"
        /\ writer'[w].row = scope[writer[w].match]
     \/ /\ UpsertWrite(w) /\ writer[w].pc = "upsertWrite" /\ writer'[w].pc = "check"
        /\ writer'[w].row = writer[w].row

(* An execution asks for a job, or is lost doing so. *)
AsksForJob(w) ==
  /\ \/ CheckJob(w) /\ writer[w].pc = "check"
     \/ RemoveJob(w) /\ writer[w].pc = "remove"
     \/ AddJob(w) /\ writer[w].pc = "add"
     \/ WriterLost(w) /\ writer[w].pc \in {"check", "remove", "add"}
  /\ \/ writer'[w] = IdleWriter
     \/ /\ writer[w].pc # "add" /\ writer'[w].pc \in {"remove", "add"}
        /\ Keeps(w) /\ writer'[w].row = writer[w].row

(* One writer moves, in one of these ways. *)
WriterMove(w) ==
  /\ \A v \in Writer : v # w => writer'[v] = writer[v]
  /\ Begins(w) \/ ChangesRows(w) \/ Upserts(w) \/ AsksForJob(w)

(* At most one writer moves in a step. *)
LEMMA WritersMove ==
  ASSUME OneFailureSetting, IInv, OwedInv, SettingStep
  PROVE  UNCHANGED writer \/ \E w \in Writer : WriterMove(w)
<1>0. TypeOK
  BY DEF IInv
<1>1. ASSUME NEW w \in Writer, NEW m \in Match, IngestLoad(w, m), status[m] = "NONE"
      PROVE  WriterMove(w)
  <2>1. UNCHANGED status /\ Begin(w, "ingest", m, None, "persist", PreviousKeys(m), KnownRanks(m))
    BY <1>1 DEF IngestLoad, rowVars
  <2>2. /\ \A v \in Writer : v # w => writer'[v] = writer[v]
        /\ writer'[w].pc = "persist" /\ writer'[w].kind = "ingest" /\ writer'[w].match = m
        /\ writer'[w].row = None /\ writer[w].pc = "idle"
    BY <1>0, <2>1 DEF Begin, TypeOK
  <2> QED BY <1>1, <2>1, <2>2 DEF WriterMove, Begins
<1>2. ASSUME NEW w \in Writer, NEW p \in Participant, EnrichLoad(w, p)
      PROVE  WriterMove(w)
  <2>1. UNCHANGED status /\ Begin(w, "enrich", MatchOf[p], p, "apply", ContributedKeys(p), {})
    BY <1>2 DEF EnrichLoad, rowVars
  <2>2. /\ \A v \in Writer : v # w => writer'[v] = writer[v]
        /\ writer'[w].pc = "apply" /\ writer'[w].kind = "enrich"
        /\ writer'[w].row = None /\ writer[w].pc = "idle"
    BY <1>0, <2>1 DEF Begin, TypeOK
  <2> QED BY <2>1, <2>2 DEF WriterMove, Begins
<1>4. ASSUME NEW w \in Writer, UpsertRead(w) PROVE WriterMove(w)
  <2>1. writer[w].pc = "upsertRead"
    BY <1>4 DEF UpsertRead
  <2> QED BY <1>0, <1>4, <2>1, UpsertReadFields DEF WriterMove, Upserts, Keeps
<1>6. ASSUME NEW w \in Writer, IngestPersist(w) \/ IngestComplete(w) \/ EnrichApply(w)
      PROVE  WriterMove(w)
  <2>1. \/ IngestPersist(w) /\ writer[w].pc = "persist" /\ Goto(w, "complete")
        \/ IngestComplete(w) /\ writer[w].pc = "complete" /\ Goto(w, "upsertRead")
        \/ EnrichApply(w) /\ writer[w].pc = "apply" /\ Goto(w, "upsertRead")
    BY <1>6 DEF IngestPersist, IngestComplete, EnrichApply
  <2> QED BY <1>0, <2>1, GotoFields DEF WriterMove, ChangesRows, Keeps
<1>7. ASSUME NEW w \in Writer, UpsertWrite(w) PROVE WriterMove(w)
  <2>1. writer[w].pc = "upsertWrite" /\ Goto(w, "check")
    BY <1>7 DEF UpsertWrite
  <2> QED BY <1>0, <1>7, <2>1, GotoFields DEF WriterMove, Upserts, Keeps
<1>8. ASSUME NEW w \in Writer,
             \/ CheckJob(w) \/ RemoveJob(w) \/ AddJob(w)
             \/ WriterLost(w) /\ writer[w].pc \in {"check", "remove", "add"}
      PROVE  WriterMove(w)
  <2>1. /\ \/ CheckJob(w) /\ writer[w].pc = "check"
           \/ RemoveJob(w) /\ writer[w].pc = "remove"
           \/ AddJob(w) /\ writer[w].pc = "add"
           \/ WriterLost(w) /\ writer[w].pc \in {"check", "remove", "add"}
        /\ \/ End(w)
           \/ writer[w].pc # "add" /\ \E pc \in {"remove", "add"} : Goto(w, pc)
    BY <1>8 DEF CheckJob, RemoveJob, AddJob, WriterLost
  <2>2. CASE End(w)
    BY <1>0, <2>1, <2>2, EndFields DEF WriterMove, AsksForJob
  <2>3. CASE writer[w].pc # "add" /\ \E pc \in {"remove", "add"} : Goto(w, pc)
    <3>1. /\ \A v \in Writer : v # w => writer'[v] = writer[v]
          /\ writer'[w].pc \in {"remove", "add"} /\ Keeps(w) /\ writer'[w].row = writer[w].row
      BY <1>0, <2>3, GotoFields DEF Keeps
    <3> QED BY <2>1, <2>3, <3>1 DEF WriterMove, AsksForJob
  <2> QED BY <2>1, <2>2, <2>3
<1>10. ASSUME NEW w \in Writer, WriterStep(w), ~LinkApply(w)
       PROVE  WriterMove(w)
  BY <1>4, <1>6, <1>7, <1>8, <1>10 DEF WriterStep
<1> QED BY <1>1, <1>2, <1>8, <1>10, BackgroundFrame DEF SettingStep

(* An ingestion is under way from its persist to its upsert. *)
LEMMA IngestsByStep ==
  ASSUME OneFailureSetting, IInv, OwedInv, SettingStep, NEW v \in Writer, NEW m \in Match
  PROVE  /\ Ingests(v, m)' => Ingests(v, m) \/ (status[m] = "NONE" /\ UNCHANGED status)
         /\ Ingests(v, m) => Ingests(v, m)' \/ UpsertWrite(v)
<1>1. UNCHANGED writer \/ \E w \in Writer : WriterMove(w)
  BY WritersMove
<1>2. WritersAreOrderly /\ TypeOK
  BY DEF OwedInv, IInv
<1>3. writer[v].pc = "apply" => writer[v].kind = "enrich"
  BY <1>2, WriterAt
<1>5. CASE writer'[v] = writer[v]
  BY <1>5 DEF Ingests
<1>6. CASE WriterMove(v)
  BY <1>3, <1>6 DEF WriterMove, Begins, ChangesRows, Upserts, AsksForJob, Keeps, Ingests, IdleWriter
<1> QED BY <1>1, <1>5, <1>6 DEF WriterMove

(* An enrichment is about to announce its key from its write to its upsert. *)
LEMMA EnrichesByStep ==
  ASSUME OneFailureSetting, IInv, OwedInv, SettingStep, NEW v \in Writer, NEW p \in Participant
  PROVE  /\ Enriches(v, p)' => Enriches(v, p) \/ (EnrichApply(v) /\ rank[p] = "PENDING")
         /\ Enriches(v, p) => Enriches(v, p)' \/ UpsertWrite(v)
<1>1. UNCHANGED writer \/ \E w \in Writer : WriterMove(w)
  BY WritersMove
<1>2. WritersAreOrderly /\ TypeOK
  BY DEF OwedInv, IInv
<1>3. /\ writer[v].pc = "apply" => writer[v].kind = "enrich" /\ rank[writer[v].who] = "PENDING"
      /\ writer[v].pc \in {"persist", "complete"} => writer[v].kind = "ingest"
  BY <1>2, WriterAt DEF WritersAreOrderly, EnrichIsOrderly
<1>5. CASE writer'[v] = writer[v]
  BY <1>5 DEF Enriches
<1>6. CASE WriterMove(v)
  BY <1>3, <1>6 DEF WriterMove, Begins, ChangesRows, Upserts, AsksForJob, Keeps, Enriches,
          IdleWriter
<1> QED BY <1>1, <1>5, <1>6 DEF WriterMove

(* Who has changed rows announces it until its upsert. *)
LEMMA AnnouncesByStep ==
  ASSUME OneFailureSetting, IInv, OwedInv, SettingStep, NEW v \in Writer, NEW m \in Match,
         Announces(v, m)
  PROVE  Announces(v, m)' \/ UpsertWrite(v)
<1>1. UNCHANGED writer \/ \E w \in Writer : WriterMove(w)
  BY WritersMove
<1>5. CASE writer'[v] = writer[v]
  BY <1>5 DEF Announces
<1>6. CASE WriterMove(v)
  BY <1>6 DEF WriterMove, Begins, ChangesRows, Upserts, AsksForJob, Keeps, Announces, IdleWriter
<1> QED BY <1>1, <1>5, <1>6 DEF WriterMove

(* A row in a writer's hands is the one it has read. *)
LEMMA RowsByStep ==
  ASSUME OneFailureSetting, IInv, OwedInv, SettingStep, NEW v \in Writer, NEW m \in Match,
         writer'[v].match = m, writer'[v].row # None
  PROVE  \/ writer[v].match = m /\ writer'[v].row = writer[v].row
         \/ UpsertRead(v) /\ writer'[v].row = scope[m]
<1>1. UNCHANGED writer \/ \E w \in Writer : WriterMove(w)
  BY WritersMove
<1>6. CASE WriterMove(v)
  BY <1>6 DEF WriterMove, Begins, ChangesRows, Upserts, AsksForJob, Keeps, IdleWriter
<1> QED BY <1>1, <1>6 DEF WriterMove

(* Who is about to add a job does so, or is lost. *)
LEMMA AddsByStep ==
  ASSUME OneFailureSetting, IInv, OwedInv, SettingStep, NEW v \in Writer,
         writer[v].pc = "add"
  PROVE  writer'[v] = writer[v] \/ AddJob(v) \/ WriterLost(v)
<1>1. UNCHANGED writer \/ \E w \in Writer : WriterMove(w)
  BY WritersMove
<1>6. CASE WriterMove(v)
  BY <1>6 DEF WriterMove, Begins, ChangesRows, Upserts, AsksForJob
<1> QED BY <1>1, <1>6 DEF WriterMove

(* What stands for a match, and what is done about it. *)
Affairs(n) == <<scope[n], marker[n], job[n], run[n], follow[n], matchup[n]>>

(* A step about one match leaves those of the others. *)
LEMMA ElsewhereByBackground ==
  ASSUME TypeOK, NEW m \in Match, NEW n \in Match, n # m,
         JobStep(m) \/ FollowUpStep(m) \/ JobError(m) \/ JobStalled(m) \/ FollowUpLost(m)
  PROVE  UNCHANGED Affairs(n)
<1>1. CASE StartJob(m) \/ ScopeMissing(m) \/ FinishJob(m) \/ JobError(m) \/ JobStalled(m)
  BY <1>1 DEF StartJob, ScopeMissing, FinishJob, JobError, JobStalled, FailAttempt, Advance,
              Discard, TypeOK, Affairs, derivedVars
<1>2. CASE LoadScope(m) \/ ReadMatch(m) \/ FoldContributors(m)
  BY <1>2 DEF LoadScope, ReadMatch, FoldContributors, TypeOK, Affairs, derivedVars
<1>3. CASE WriteRecalculation(m) \/ ClearScope(m) \/ BumpGeneration(m)
  BY <1>3 DEF WriteRecalculation, ClearScope, BumpGeneration, AfterBump, Advance, TypeOK, Affairs,
              derivedVars
<1>4. CASE ReadMatchups(m) \/ DeleteMatchups(m) \/ CreateMatchups(m)
  BY <1>4 DEF ReadMatchups, DeleteMatchups, CreateMatchups, MatchupStep, Advance, TypeOK, Affairs
<1>5. CASE FollowUpStep(m) \/ FollowUpLost(m)
  BY <1>5 DEF FollowUpStep, FollowUpCheck, FollowUpRemove, FollowUpAdd, FollowUpLost, Enqueue,
              TypeOK, Affairs, derivedVars
<1> QED BY <1>1, <1>2, <1>3, <1>4, <1>5 DEF JobStep

(* An execution changes nothing of another match. *)
LEMMA ElsewhereByWriter ==
  ASSUME TypeOK, NEW w \in Writer, NEW n \in Match, n # writer[w].match,
         (WriterStep(w) /\ ~LinkApply(w)) \/ WriterLost(w)
  PROVE  UNCHANGED Affairs(n)
<1>1. CASE IngestPersist(w) \/ IngestComplete(w) \/ EnrichApply(w)
  BY <1>1 DEF IngestPersist, IngestComplete, EnrichApply, AfterRankChange, TypeOK, Affairs,
              derivedVars
<1>2. CASE UpsertRead(w) \/ UpsertWrite(w) \/ CheckJob(w) \/ WriterLost(w)
  BY <1>2 DEF UpsertRead, UpsertWrite, CheckJob, WriterLost, TypeOK, Affairs, derivedVars
<1>3. CASE RemoveJob(w) \/ AddJob(w)
  BY <1>3 DEF RemoveJob, AddJob, Enqueue, TypeOK, Affairs, derivedVars
<1> QED BY <1>1, <1>2, <1>3 DEF WriterStep

(* A trigger that begins changes nothing but its own record. *)
LEMMA ElsewhereByTrigger ==
  ASSUME NEW w \in Writer, NEW n \in Match,
         \/ \E m \in Match : IngestLoad(w, m)
         \/ \E p \in Participant : EnrichLoad(w, p)
  PROVE  UNCHANGED Affairs(n) /\ UNCHANGED <<status, slot, rank, aggregate, owed, faults, run>>
BY DEF IngestLoad, EnrichLoad, Affairs, rowVars, derivedVars

-----------------------------------------------------------------------------
(* IngestionsGoOn and KeysAreAnnounced.                                    *)

(* A run works for the job that is active. *)
LEMMA RunAt ==
  ASSUME IInv, OwedInv, NEW m \in Match, run[m].phase # "idle"
  PROVE  /\ job[m].state = "active" /\ status[m] # "NONE"
         /\ \A n \in Match : n # m => job[n].state # "active" /\ run[n].phase = "idle"
BY DEF OwedInv, RunsAreOrderly, IngestionsGoOn, IdleRun

(* Nothing is done about a match that is not stored. *)
LEMMA NothingBeforeStored ==
  ASSUME OneFailureSetting, IInv, OwedInv, SettingStep, NEW n \in Match, status'[n] = "NONE"
  PROVE  status[n] = "NONE" /\ UNCHANGED Affairs(n)
<1>0. TypeOK /\ WritersAreOrderly
  BY DEF IInv, OwedInv
<1>1. status[n] = "NONE"
  BY <1>0, RowSteps DEF TypeOK
<1>2. /\ scope[n] = None /\ job[n] = NoJob /\ run[n] = IdleRun /\ follow[n] = "none"
      /\ marker[n] = "NONE"
  BY <1>1 DEF OwedInv, IngestionsGoOn
<1>3. ASSUME NEW m \in Match,
             JobStep(m) \/ FollowUpStep(m) \/ JobError(m) \/ JobStalled(m) \/ FollowUpLost(m)
      PROVE  n # m
  <2>1. run[n].phase = "idle" /\ job[n].state = "none"
    BY <1>2 DEF IdleRun, NoJob
  <2>2. CASE JobStep(m)
    BY <1>2, <2>1, <2>2 DEF JobStep, StartJob, LoadScope, ScopeMissing, ReadMatch,
       FoldContributors, WriteRecalculation, ClearScope, BumpGeneration, ReadMatchups,
       DeleteMatchups, CreateMatchups, MatchupStep, FinishJob
  <2>3. CASE FollowUpStep(m) \/ FollowUpLost(m)
    BY <1>2, <2>3 DEF FollowUpStep, FollowUpCheck, FollowUpRemove, FollowUpAdd, FollowUpLost
  <2>4. CASE JobError(m) \/ JobStalled(m)
    BY <2>1, <2>4 DEF JobError, JobStalled
  <2> QED BY <1>3, <2>2, <2>3, <2>4
<1>4. ASSUME NEW w \in Writer, writer[w].match = n,
             \/ WriterStep(w) /\ ~LinkApply(w)
             \/ WriterLost(w) /\ writer[w].pc \in {"check", "remove", "add"}
      PROVE  IngestPersist(w)
  <2>1. writer[w].pc \notin {"complete", "apply", "upsertRead", "upsertWrite", "check",
                              "remove", "add"}
    BY <1>0, <1>1, <1>4, WriterAt DEF WritersAreOrderly, IngestIsOrderly, EnrichIsOrderly
  <2>2. writer[w].pc \notin {"idle", "link"}
    BY <1>0, <1>4, WriterAt, ConstantsAssumption
       DEF WritersAreOrderly, IngestIsOrderly, EnrichIsOrderly, WriterStep, IngestPersist,
           IngestComplete, EnrichApply, UpsertRead, UpsertWrite, CheckJob, RemoveJob, AddJob,
           WriterLost
  <2> QED BY <1>4, <2>1, <2>2 DEF WriterStep, IngestComplete, EnrichApply, UpsertRead,
                                 UpsertWrite, CheckJob, RemoveJob, AddJob, WriterLost
<1>5. ASSUME NEW w \in Writer, IngestPersist(w) PROVE writer[w].match # n
  <2>1. writer[w].match \in Match
    BY <1>0, <1>5, WriterAt DEF IngestPersist
  <2> QED BY <1>0, <1>5, <2>1 DEF IngestPersist, TypeOK, MatchupState
<1>6. UNCHANGED Affairs(n)
  BY <1>0, <1>3, <1>4, <1>5, ElsewhereByBackground, ElsewhereByWriter, ElsewhereByTrigger
     DEF SettingStep
<1> QED BY <1>1, <1>6

(* An ingestion that has begun goes on. *)
LEMMA IngestionsByStep ==
  ASSUME OneFailureSetting, IInv, OwedInv, SettingStep
  PROVE  IngestionsGoOn'
<1>0. TypeOK /\ WritersAreOrderly /\ IngestionsGoOn
  BY DEF IInv, OwedInv
<1> SUFFICES ASSUME NEW m \in Match
             PROVE  /\ status'[m] = "IN_PROGRESS" => \E w \in Writer : Ingests(w, m)'
                    /\ status'[m] = "NONE" =>
                         /\ scope'[m] = None /\ job'[m] = NoJob /\ run'[m] = IdleRun
                         /\ follow'[m] = "none" /\ marker'[m] = "NONE" /\ matchup'[m] = "current"
  BY DEF IngestionsGoOn, NoJob, IdleRun, EmptyFold, Key, Bucket
<1>1. ASSUME status'[m] = "NONE"
      PROVE  /\ scope'[m] = None /\ job'[m] = NoJob /\ run'[m] = IdleRun
             /\ follow'[m] = "none" /\ marker'[m] = "NONE" /\ matchup'[m] = "current"
  BY <1>0, <1>1, NothingBeforeStored DEF IngestionsGoOn, Affairs
<1>2. ASSUME status'[m] = "IN_PROGRESS" PROVE \E w \in Writer : Ingests(w, m)'
  <2>1. CASE status[m] = "IN_PROGRESS"
    <3>1. PICK w \in Writer : Ingests(w, m)
      BY <1>0, <2>1 DEF IngestionsGoOn
    <3>2. ~UpsertWrite(w)
      BY <1>0, <2>1, <3>1 DEF WritersAreOrderly, IngestIsOrderly, Ingests, UpsertWrite
    <3> QED BY <3>1, <3>2, IngestsByStep
  <2>2. CASE status[m] # "IN_PROGRESS"
    <3>1. PICK w \in Writer : IngestPersist(w) /\ writer[w].kind = "ingest" /\ writer[w].match = m
      BY <1>0, <1>2, <2>2, RowSteps DEF TypeOK
    <3>2. Goto(w, "complete")
      BY <3>1 DEF IngestPersist
    <3>3. Ingests(w, m)'
      BY <1>0, <3>1, <3>2, GotoFields DEF Ingests
    <3> QED BY <3>3
  <2> QED BY <2>1, <2>2
<1> QED BY <1>1, <1>2

(* The scope row of a match is written by an upsert, and deleted by a clear. *)
LEMMA ScopeByStep ==
  ASSUME OneFailureSetting, IInv, OwedInv, SettingStep, NEW m \in Match
  PROVE  \/ scope'[m] = scope[m]
         \/ \E w \in Writer : /\ UpsertWrite(w) /\ writer[w].match = m
                              /\ scope'[m] = MergedKeys(writer[w].row, writer[w].prev)
                              /\ scope'[m] # None
         \/ /\ ClearScope(m) /\ scope'[m] = None /\ scope[m] = run[m].loaded
            /\ run[m].phase = "clear"
<1>0. TypeOK
  BY DEF IInv
<1>1. ASSUME NEW n \in Match,
             JobStep(n) \/ FollowUpStep(n) \/ JobError(n) \/ JobStalled(n) \/ FollowUpLost(n),
             ~ClearScope(n)
      PROVE  UNCHANGED scope
  BY <1>1 DEF JobStep, StartJob, LoadScope, ScopeMissing, FailAttempt, ReadMatch,
       FoldContributors, WriteRecalculation, BumpGeneration, ReadMatchups, DeleteMatchups, CreateMatchups, MatchupStep,
       FinishJob, FollowUpStep, FollowUpCheck, FollowUpRemove, FollowUpAdd, JobError, JobStalled,
       FollowUpLost
<1>2. ASSUME NEW w \in Writer,
             \/ \E n \in Match : IngestLoad(w, n)
             \/ \E p \in Participant : EnrichLoad(w, p)
             \/ WriterStep(w) /\ ~LinkApply(w) /\ ~UpsertWrite(w)
             \/ WriterLost(w)
      PROVE  UNCHANGED scope
  BY <1>2 DEF IngestLoad, EnrichLoad, WriterStep, IngestPersist, IngestComplete, EnrichApply,
              UpsertRead, CheckJob, RemoveJob, AddJob, WriterLost
<1>3. ASSUME NEW n \in Match, ClearScope(n)
      PROVE  \/ scope'[m] = scope[m]
             \/ /\ n = m /\ scope'[m] = None /\ scope[m] = run[m].loaded
                /\ run[m].phase = "clear"
  BY <1>0, <1>3 DEF ClearScope, ScopeUnchanged, TypeOK
<1>4. ASSUME NEW w \in Writer, UpsertWrite(w)
      PROVE  \/ scope'[m] = scope[m]
             \/ /\ writer[w].match = m
                /\ scope'[m] = MergedKeys(writer[w].row, writer[w].prev)
                /\ scope'[m] # None
  <2>1. MergedKeys(writer[w].row, writer[w].prev) \in SUBSET Key
    BY <1>4, BusyWriterTyped, MergedKeysTyped DEF UpsertWrite, IInv
  <2>2. MergedKeys(writer[w].row, writer[w].prev) # None
    BY <2>1, ConstantsAssumption
  <2> QED BY <1>0, <1>4, <2>2 DEF UpsertWrite, TypeOK
<1> QED BY <1>1, <1>2, <1>3, <1>4 DEF SettingStep

(* Writers do not touch the runs. *)
LEMMA RunsByWriter ==
  ASSUME NEW w \in Writer,
         \/ \E n \in Match : IngestLoad(w, n)
         \/ \E p \in Participant : EnrichLoad(w, p)
         \/ WriterStep(w) /\ ~LinkApply(w)
         \/ WriterLost(w)
  PROVE  UNCHANGED <<run, follow, marker, aggregate, owed>>
BY DEF IngestLoad, EnrichLoad, WriterStep, IngestPersist, IngestComplete, EnrichApply,
       UpsertRead, UpsertWrite, CheckJob, RemoveJob, AddJob, WriterLost, derivedVars

(* What a run has loaded is the scope row, until it is dropped. *)
LEMMA LoadedByStep ==
  ASSUME OneFailureSetting, IInv, OwedInv, SettingStep, NEW m \in Match
  PROVE  \/ run'[m].loaded = run[m].loaded
         \/ LoadScope(m) /\ run'[m].loaded = scope[m] /\ scope[m] # None /\ run'[m].phase = "read"
              /\ UNCHANGED scope
         \/ run'[m] = IdleRun
<1>0. TypeOK
  BY DEF IInv
<1>1. CASE UNCHANGED Affairs(m)
  BY <1>1 DEF Affairs
<1>2. ASSUME JobStep(m) \/ FollowUpStep(m) \/ JobError(m) \/ JobStalled(m) \/ FollowUpLost(m)
      PROVE  \/ run'[m].loaded = run[m].loaded
             \/ LoadScope(m) /\ run'[m].loaded = scope[m] /\ scope[m] # None
                  /\ run'[m].phase = "read"
                  /\ UNCHANGED scope
             \/ run'[m] = IdleRun
  <2>1. run[m] \in RunType /\ run \in [Match -> RunType]
    BY <1>0 DEF TypeOK
  <2>2. CASE LoadScope(m)
    BY <2>1, <2>2 DEF LoadScope, RunType
  <2>3. CASE ScopeMissing(m) \/ FinishJob(m) \/ JobError(m) \/ JobStalled(m)
    BY <2>1, <2>3 DEF ScopeMissing, FinishJob, JobError, JobStalled, FailAttempt, Discard
  <2>4. ASSUME NEW phase, Advance(m, phase) PROVE run'[m].loaded = run[m].loaded
    BY <2>1, <2>4 DEF Advance, RunType
  <2>5. CASE StartJob(m) \/ WriteRecalculation(m) \/ BumpGeneration(m) \/ ReadMatchups(m)
                 \/ DeleteMatchups(m) \/ CreateMatchups(m)
    BY <2>4, <2>5 DEF StartJob, WriteRecalculation, BumpGeneration, AfterBump, ReadMatchups,
                      DeleteMatchups, CreateMatchups, MatchupStep
  <2>6. CASE ReadMatch(m)
    BY <2>1, <2>6 DEF ReadMatch, RunType
  <2>8. CASE FoldContributors(m)
    BY <2>1, <2>8 DEF FoldContributors, RunType
  <2>9. CASE ClearScope(m)
    BY <2>1, <2>9 DEF ClearScope, RunType
  <2>7. CASE FollowUpStep(m) \/ FollowUpLost(m)
    BY <2>7 DEF FollowUpStep, FollowUpCheck, FollowUpRemove, FollowUpAdd, FollowUpLost
  <2> QED BY <1>2, <2>2, <2>3, <2>5, <2>6, <2>7, <2>8, <2>9 DEF JobStep
<1> QED BY <1>0, <1>1, <1>2, RunsByWriter, ElsewhereByBackground DEF SettingStep

(* A run that has loaded its keys had them, or loads them now. *)
LEMMA PhasesByStep ==
  ASSUME OneFailureSetting, IInv, OwedInv, SettingStep, NEW m \in Match,
         run'[m].phase \in {"read", "fold", "write", "clear"}
  PROVE  LoadScope(m) \/ run[m].phase \in {"read", "fold", "write", "clear"}
<1>0. TypeOK
  BY DEF IInv
<1>1. CASE UNCHANGED Affairs(m)
  BY <1>1 DEF Affairs
<1>2. ASSUME JobStep(m) \/ FollowUpStep(m) \/ JobError(m) \/ JobStalled(m) \/ FollowUpLost(m)
      PROVE  LoadScope(m) \/ run[m].phase \in {"read", "fold", "write", "clear"}
  <2>1. run[m] \in RunType /\ run \in [Match -> RunType]
    BY <1>0 DEF TypeOK
  <2>3. CASE ScopeMissing(m) \/ FinishJob(m) \/ JobError(m) \/ JobStalled(m)
    BY <2>1, <2>3 DEF ScopeMissing, FinishJob, JobError, JobStalled, FailAttempt, Discard, IdleRun
  <2>4. ASSUME NEW phase, Advance(m, phase) PROVE run'[m].phase = phase
    BY <2>1, <2>4 DEF Advance, RunType
  <2>5. CASE StartJob(m) \/ WriteRecalculation(m) \/ BumpGeneration(m) \/ ReadMatchups(m)
                 \/ DeleteMatchups(m) \/ CreateMatchups(m)
    BY <2>4, <2>5 DEF StartJob, WriteRecalculation, BumpGeneration, AfterBump, ReadMatchups,
                      DeleteMatchups, CreateMatchups, MatchupStep
  <2>6. CASE ReadMatch(m) \/ FoldContributors(m) \/ ClearScope(m)
    BY <2>6 DEF ReadMatch, FoldContributors, ClearScope
  <2>7. CASE FollowUpStep(m) \/ FollowUpLost(m)
    BY <2>7 DEF FollowUpStep, FollowUpCheck, FollowUpRemove, FollowUpAdd, FollowUpLost
  <2> QED BY <1>2, <2>3, <2>5, <2>6, <2>7 DEF JobStep
<1> QED BY <1>0, <1>1, <1>2, RunsByWriter, ElsewhereByBackground DEF SettingStep

(* An upsert leaves what it merged: an enrichment its key, an ingestion nothing of its own. *)
LEMMA UpsertedKeys ==
  ASSUME OneFailureSetting, IInv, OwedInv, NEW w \in Writer, UpsertWrite(w),
         NEW p \in Participant, writer[w].match = MatchOf[p]
  PROVE  /\ writer[w].kind = "enrich" =>
              writer[w].who = p /\ AllKey(p) \in MergedKeys(writer[w].row, writer[w].prev)
         /\ writer[w].kind = "ingest" =>
              MergedKeys(writer[w].row, writer[w].prev)
                = IF writer[w].row = None THEN {} ELSE writer[w].row
         /\ writer[w].kind \in {"ingest", "enrich"}
<1>1. WritersAreOrderly
  BY DEF OwedInv
<1>2. writer[w].kind \in {"ingest", "enrich"}
  BY <1>1, WriterAt DEF UpsertWrite
<1>3. ASSUME writer[w].kind = "enrich"
      PROVE  writer[w].who = p /\ AllKey(p) \in MergedKeys(writer[w].row, writer[w].prev)
  <2>1. writer[w].who = p
    BY <1>1, <1>3, WriterAt, OneRowPerMatch
  <2>2. writer[w].prev = {AllKey(p)}
    BY <1>1, <1>3, <2>1 DEF WritersAreOrderly, EnrichIsOrderly
  <2> QED BY <2>1, <2>2 DEF MergedKeys
<1>4. ASSUME writer[w].kind = "ingest"
      PROVE  MergedKeys(writer[w].row, writer[w].prev)
                = IF writer[w].row = None THEN {} ELSE writer[w].row
  BY <1>1, <1>4 DEF WritersAreOrderly, IngestIsOrderly, MergedKeys
<1> QED BY <1>2, <1>3, <1>4

(* Before its enrichment announces it, the key of a row is pending nowhere. *)
LEMMA UnannouncedByStep ==
  ASSUME OneFailureSetting, IInv, OwedInv, SettingStep, NEW p \in Participant,
         status[MatchOf[p]] # "NONE",
         rank'[p] = "PENDING" \/ \E w \in Writer : Enriches(w, p)'
  PROVE  /\ AllKey(p)' \notin PendingKeys(MatchOf[p])' /\ AllKey(p)' \notin run'[MatchOf[p]].loaded
         /\ \A v \in Writer : writer'[v].match = MatchOf[p] /\ writer'[v].row # None
                                => AllKey(p)' \notin writer'[v].row
<1> DEFINE m == MatchOf[p]
<1>0. TypeOK /\ WritersAreOrderly /\ m \in Match /\ KeysAreAnnounced
  BY OneRowPerMatch DEF IInv, OwedInv
<1>1. slot'[p] = slot[p]
  BY <1>0, RowSteps
<1>2. AllKey(p)' = AllKey(p)
  BY <1>1 DEF AllKey
<1>3. rank'[p] = "PENDING" => rank[p] = "PENDING"
  BY <1>0, RowSteps DEF TypeOK, OneFailureSetting
<1>4. rank[p] = "PENDING" \/ \E w \in Writer : Enriches(w, p)
  BY <1>3, EnrichesByStep
<1>5. /\ AllKey(p) \notin PendingKeys(m) /\ AllKey(p) \notin run[m].loaded
      /\ \A v \in Writer : writer[v].match = m /\ writer[v].row # None
                             => AllKey(p) \notin writer[v].row
  BY <1>0, <1>4 DEF KeysAreAnnounced
<1>6. AllKey(p) \notin PendingKeys(m)'
  <2>1. CASE scope'[m] = scope[m]
    BY <1>5, <2>1 DEF PendingKeys
  <2>2. CASE scope'[m] = None
    BY <2>2 DEF PendingKeys
  <2>3. ASSUME NEW w \in Writer, UpsertWrite(w), writer[w].match = m,
               scope'[m] = MergedKeys(writer[w].row, writer[w].prev)
        PROVE  AllKey(p) \notin PendingKeys(m)'
    <3>1. writer[w].kind # "enrich"
      <4>1. SUFFICES ASSUME writer[w].kind = "enrich" PROVE FALSE
        OBVIOUS
      <4>2. writer[w].who = p
        BY <2>3, <4>1, UpsertedKeys
      <4>3. rank[p] # "PENDING"
        BY <1>0, <2>3, <4>1, <4>2 DEF WritersAreOrderly, EnrichIsOrderly, UpsertWrite
      <4>4. ~EnrichApply(w)
        BY <2>3 DEF EnrichApply, UpsertWrite
      <4>5. PICK v \in Writer : Enriches(v, p)' /\ Enriches(v, p)
        BY <1>3, <4>3, EnrichesByStep
      <4>6. v = w
        BY <1>0, <4>1, <4>2, <4>5 DEF WritersAreOrderly, EnrichIsOrderly, Enriches
      <4>7. writer'[w].pc = "check"
        BY <1>0, <2>3, GotoFields DEF UpsertWrite
      <4> QED BY <4>5, <4>6, <4>7 DEF Enriches
    <3>2. scope'[m] = IF writer[w].row = None THEN {} ELSE writer[w].row
      BY <2>3, <3>1, UpsertedKeys
    <3> QED BY <1>5, <2>3, <3>2 DEF PendingKeys
  <2> QED BY <1>0, <2>1, <2>2, <2>3, ScopeByStep
<1>7. AllKey(p) \notin run'[m].loaded
  <2>1. scope[m] # None => AllKey(p) \notin scope[m]
    BY <1>5 DEF PendingKeys
  <2> QED BY <1>0, <1>5, <2>1, LoadedByStep DEF IdleRun
<1>8. ASSUME NEW v \in Writer, writer'[v].match = m, writer'[v].row # None
      PROVE  AllKey(p) \notin writer'[v].row
  <2>1. scope[m] # None => AllKey(p) \notin scope[m]
    BY <1>5 DEF PendingKeys
  <2> QED BY <1>0, <1>5, <1>8, <2>1, RowsByStep
<1> QED BY <1>2, <1>6, <1>7, <1>8

(* Until the ingestion announces its match, every key that is pending is its row's. *)
LEMMA AnnouncedByStep ==
  ASSUME OneFailureSetting, IInv, OwedInv, SettingStep, NEW p \in Participant,
         status[MatchOf[p]] # "NONE",
         \E w \in Writer : Ingests(w, MatchOf[p])'
  PROVE  /\ scope'[MatchOf[p]] # None => AllKey(p)' \in scope'[MatchOf[p]]
         /\ run'[MatchOf[p]].phase \in {"read", "fold", "write", "clear"}
              => AllKey(p)' \in run'[MatchOf[p]].loaded
         /\ \A v \in Writer : writer'[v].match = MatchOf[p] /\ writer'[v].row # None
                                => AllKey(p)' \in writer'[v].row
<1> DEFINE m == MatchOf[p]
<1>0. TypeOK /\ WritersAreOrderly /\ m \in Match /\ KeysAreAnnounced
  BY OneRowPerMatch DEF IInv, OwedInv
<1>1. slot'[p] = slot[p]
  BY <1>0, RowSteps
<1>2. AllKey(p)' = AllKey(p)
  BY <1>1 DEF AllKey
<1>4. PICK w \in Writer : Ingests(w, m)' /\ Ingests(w, m)
  BY <1>0, IngestsByStep
<1>5. /\ scope[m] # None => AllKey(p) \in scope[m]
      /\ run[m].phase \in {"read", "fold", "write", "clear"} => AllKey(p) \in run[m].loaded
      /\ \A v \in Writer : writer[v].match = m /\ writer[v].row # None
                             => AllKey(p) \in writer[v].row
  BY <1>0, <1>4 DEF KeysAreAnnounced
<1>6. scope'[m] # None => AllKey(p) \in scope'[m]
  <2>1. ASSUME NEW v \in Writer, UpsertWrite(v), writer[v].match = m
        PROVE  AllKey(p) \in MergedKeys(writer[v].row, writer[v].prev)
    <3>1. writer[v].kind # "ingest"
      <4>1. SUFFICES ASSUME writer[v].kind = "ingest" PROVE FALSE
        OBVIOUS
      <4>2. v = w
        BY <1>0, <1>4, <2>1, <4>1 DEF WritersAreOrderly, IngestIsOrderly, Ingests
      <4>3. writer'[w].pc = "check"
        BY <1>0, <2>1, <4>2, GotoFields DEF UpsertWrite
      <4> QED BY <1>4, <4>3 DEF Ingests
    <3> QED BY <2>1, <3>1, UpsertedKeys
  <2> QED BY <1>0, <1>5, <2>1, ScopeByStep
<1>7. run'[m].phase \in {"read", "fold", "write", "clear"} => AllKey(p) \in run'[m].loaded
  <2>1. LoadScope(m) => scope[m] # None /\ run'[m].loaded = scope[m]
    BY <1>0 DEF LoadScope, TypeOK, RunType
  <2> QED BY <1>0, <1>5, <2>1, LoadedByStep, PhasesByStep DEF IdleRun
<1>8. ASSUME NEW v \in Writer, writer'[v].match = m, writer'[v].row # None
      PROVE  AllKey(p) \in writer'[v].row
  BY <1>0, <1>5, <1>8, RowsByStep
<1> QED BY <1>2, <1>6, <1>7, <1>8

(* Pending keys stay announced. *)
LEMMA KeysByStep ==
  ASSUME OneFailureSetting, IInv, OwedInv, SettingStep
  PROVE  KeysAreAnnounced'
<1>0. TypeOK /\ WritersAreOrderly /\ IngestionsGoOn
  BY DEF IInv, OwedInv
<1>1. ASSUME NEW p \in Participant, status[MatchOf[p]] = "NONE", status'[MatchOf[p]] # "NONE"
      PROVE  /\ AllKey(p)' \notin PendingKeys(MatchOf[p])'
             /\ AllKey(p)' \notin run'[MatchOf[p]].loaded
             /\ scope'[MatchOf[p]] = None
             /\ run'[MatchOf[p]].phase = "idle"
             /\ \A v \in Writer : writer'[v].match = MatchOf[p] => writer'[v].row = None
  <2> DEFINE m == MatchOf[p]
  <2>1. m \in Match
    BY OneRowPerMatch
  <2>2. PICK w \in Writer : IngestPersist(w) /\ writer[w].match = m /\ writer[w].kind = "ingest"
    BY <1>0, <1>1, <2>1, RowSteps DEF TypeOK
  <2>3. scope'[m] = None /\ run'[m] = IdleRun
    BY <1>0, <1>1, <2>1, <2>2 DEF IngestionsGoOn, IngestPersist
  <2>4. ASSUME NEW v \in Writer, writer'[v].match = m PROVE writer'[v].row = None
    <3>1. Goto(w, "complete") /\ writer[w].pc = "persist"
      BY <2>2 DEF IngestPersist
    <3>2. writer'[v].match = writer[v].match /\ writer'[v].row = writer[v].row
      BY <1>0, <3>1, GotoFields
    <3>3. writer[v].pc # "idle" => v = w
      BY <1>0, <1>1, <2>2, <2>4, <3>2, WriterAt DEF WritersAreOrderly, IngestIsOrderly
    <3>4. writer[v].pc \in {"idle", "persist"}
      BY <3>1, <3>3
    <3> QED BY <1>0, <3>2, <3>4 DEF WritersAreOrderly, WriterIsPlaced
  <2> QED BY <2>3, <2>4 DEF IdleRun, PendingKeys
<1> QED BY <1>1, UnannouncedByStep, AnnouncedByStep DEF KeysAreAnnounced

-----------------------------------------------------------------------------
(* RunsAreOrderly.                                                         *)

(* No job starts while another is active. *)
LEMMA StartsAlone ==
  ASSUME OneFailureSetting, OwedInv, NEW m \in Match, StartJob(m)
  PROVE  \A n \in Match : job[n].state # "active"
<1> DEFINE Active == {n \in Match : job[n].state = "active"}
<1> SUFFICES ASSUME NEW n \in Active PROVE FALSE
  OBVIOUS
<1>1. Active = {n}
  BY DEF OwedInv, RunsAreOrderly
<1>2. Cardinality(Active) = 1
  BY <1>1, FS_Singleton
<1>3. Cardinality(Active) < 1
  BY DEF StartJob, OneFailureSetting
<1> QED BY <1>2, <1>3

(* How the job of a match moves. *)
LEMMA JobsByStep ==
  ASSUME OneFailureSetting, IInv, OwedInv, SettingStep, NEW m \in Match
  PROVE  /\ job'[m].state = "active" => job[m].state = "active" \/ StartJob(m)
         /\ job[m].state = "active" =>
              \/ job'[m] = job[m]
              \/ /\ ScopeMissing(m) \/ FinishJob(m) \/ JobError(m) \/ JobStalled(m)
                 /\ run'[m] = IdleRun
<1>0. TypeOK
  BY DEF IInv
<1>1. CASE UNCHANGED Affairs(m)
  BY <1>1 DEF Affairs
<1>2. ASSUME JobStep(m) \/ FollowUpStep(m) \/ JobError(m) \/ JobStalled(m) \/ FollowUpLost(m)
      PROVE  /\ job'[m].state = "active" => job[m].state = "active" \/ StartJob(m)
             /\ job[m].state = "active" =>
                  \/ job'[m] = job[m]
                  \/ /\ ScopeMissing(m) \/ FinishJob(m) \/ JobError(m) \/ JobStalled(m)
                     /\ run'[m] = IdleRun
  <2>1. CASE StartJob(m)
    BY <2>1 DEF StartJob
  <2>2. CASE ScopeMissing(m) \/ FinishJob(m) \/ JobError(m) \/ JobStalled(m)
    <3>1. run'[m] = IdleRun
      BY <1>0, <2>2 DEF ScopeMissing, FinishJob, JobError, JobStalled, FailAttempt, Discard, TypeOK
    <3>2. job'[m].state # "active"
      BY <1>0, <2>2 DEF ScopeMissing, FinishJob, JobError, JobStalled, FailAttempt, TypeOK, JobType
    <3> QED BY <2>2, <3>1, <3>2
  <2>3. CASE LoadScope(m) \/ WriteRecalculation(m) \/ BumpGeneration(m) \/ ReadMatchups(m)
               \/ DeleteMatchups(m) \/ CreateMatchups(m) \/ ReadMatch(m) \/ FoldContributors(m) \/ ClearScope(m)
               \/ FollowUpCheck(m) \/ FollowUpLost(m)
    BY <2>3 DEF LoadScope, WriteRecalculation, BumpGeneration, ReadMatchups, DeleteMatchups, CreateMatchups, MatchupStep,
                ReadMatch, FoldContributors, ClearScope, FollowUpCheck, FollowUpLost
  <2>4. CASE FollowUpRemove(m)
    BY <1>0, <2>4 DEF FollowUpRemove, TypeOK, NoJob
  <2>5. CASE FollowUpAdd(m)
    BY <1>0, <2>5 DEF FollowUpAdd, Enqueue, TypeOK, NoJob
  <2> QED BY <1>2, <2>1, <2>2, <2>3, <2>4, <2>5 DEF JobStep, FollowUpStep
<1>3. ASSUME NEW w \in Writer, (WriterStep(w) /\ ~LinkApply(w)) \/ WriterLost(w)
      PROVE  /\ job'[m].state = "active" => job[m].state = "active"
             /\ job[m].state = "active" => job'[m] = job[m]
  <2>1. CASE RemoveJob(w)
    BY <1>0, <2>1 DEF RemoveJob, TypeOK, NoJob
  <2>2. CASE AddJob(w)
    BY <1>0, <2>2 DEF AddJob, Enqueue, TypeOK, NoJob
  <2>3. CASE ~RemoveJob(w) /\ ~AddJob(w)
    BY <1>3, <2>3 DEF WriterStep, IngestPersist, IngestComplete, EnrichApply, UpsertRead,
                      UpsertWrite, CheckJob, WriterLost
  <2> QED BY <2>1, <2>2, <2>3
<1> QED BY <1>0, <1>1, <1>2, <1>3, ElsewhereByTrigger, ElsewhereByBackground DEF SettingStep

(* A run is under way while its job is active. *)
LEMMA ActiveByStep ==
  ASSUME OneFailureSetting, IInv, OwedInv, SettingStep, NEW m \in Match
  PROVE  /\ run'[m].phase # "idle" => job'[m].state = "active"
         /\ job'[m].state = "active" => \A n \in Match : job'[n].state = "active" => n = m
<1>0. TypeOK /\ RunsAreOrderly
  BY DEF IInv, OwedInv
<1>1. ASSUME run'[m].phase # "idle" PROVE job'[m].state = "active"
  <2>1. run'[m] # IdleRun
    BY <1>1 DEF IdleRun
  <2>2. CASE run[m].phase # "idle"
    <3>1. job[m].state = "active"
      BY <1>0, <2>2 DEF RunsAreOrderly
    <3> QED BY <2>1, <3>1, JobsByStep
  <2>3. CASE run[m].phase = "idle"
    <3>1. StartJob(m)
      <4>1. ~UNCHANGED run
        BY <1>1, <2>3
      <4>2. ~UNCHANGED Affairs(m)
        BY <1>1, <2>3 DEF Affairs
      <4>3. JobStep(m) \/ FollowUpStep(m) \/ JobError(m) \/ JobStalled(m) \/ FollowUpLost(m)
        BY <1>0, <4>1, <4>2, RunsByWriter, ElsewhereByBackground DEF SettingStep
      <4> QED BY <2>3, <4>1, <4>3 DEF JobStep, LoadScope, ScopeMissing, ReadMatch, FoldContributors,
            WriteRecalculation, ClearScope, BumpGeneration, ReadMatchups, DeleteMatchups, CreateMatchups, MatchupStep, FinishJob,
            FollowUpStep, FollowUpCheck, FollowUpRemove, FollowUpAdd, JobError, JobStalled,
            FollowUpLost
    <3> QED BY <1>0, <3>1 DEF StartJob, TypeOK, JobType
  <2> QED BY <2>2, <2>3
<1>2. ASSUME job'[m].state = "active", NEW n \in Match, job'[n].state = "active" PROVE n = m
  <2>1. CASE StartJob(m)
    <3>1. \A k \in Match : k # m => job'[k] = job[k]
      BY <1>0, <2>1 DEF StartJob, TypeOK
    <3> QED BY <1>2, <2>1, <3>1, StartsAlone
  <2>2. CASE ~StartJob(m)
    <3>1. job[m].state = "active"
      BY <1>2, <2>2, JobsByStep
    <3>2. job[n].state = "active"
      BY <1>2, <3>1, JobsByStep, StartsAlone
    <3> QED BY <1>0, <3>1, <3>2 DEF RunsAreOrderly
  <2> QED BY <2>1, <2>2
<1> QED BY <1>1, <1>2

(* Only a run that writes, or fails, changes the marker of its match. *)
LEMMA MarkerByStep ==
  ASSUME OneFailureSetting, IInv, OwedInv, SettingStep, NEW m \in Match
  PROVE  \/ marker'[m] = marker[m]
         \/ marker'[m] = "FAILED" /\ run'[m] = IdleRun
         \/ WriteRecalculation(m) /\ run[m].eligible /\ run[m].phase = "write"
<1>0. TypeOK
  BY DEF IInv
<1>1. CASE UNCHANGED Affairs(m)
  BY <1>1 DEF Affairs
<1>2. ASSUME JobStep(m) \/ FollowUpStep(m) \/ JobError(m) \/ JobStalled(m) \/ FollowUpLost(m)
      PROVE  \/ marker'[m] = marker[m]
             \/ marker'[m] = "FAILED" /\ run'[m] = IdleRun
             \/ WriteRecalculation(m) /\ run[m].eligible /\ run[m].phase = "write"
  <2>1. CASE ScopeMissing(m) \/ JobError(m)
    BY <1>0, <2>1 DEF ScopeMissing, JobError, FailAttempt, Discard, TypeOK
  <2>2. CASE WriteRecalculation(m)
    BY <2>2 DEF WriteRecalculation
  <2>3. CASE StartJob(m) \/ LoadScope(m) \/ BumpGeneration(m) \/ ReadMatchups(m) \/ DeleteMatchups(m) \/ CreateMatchups(m)
               \/ ReadMatch(m) \/ FoldContributors(m) \/ ClearScope(m) \/ FinishJob(m)
               \/ FollowUpStep(m) \/ FollowUpLost(m) \/ JobStalled(m)
    BY <2>3 DEF StartJob, LoadScope, BumpGeneration, ReadMatchups, DeleteMatchups, CreateMatchups, MatchupStep, ReadMatch,
                FoldContributors, ClearScope, FinishJob, FollowUpStep, FollowUpCheck,
                FollowUpRemove, FollowUpAdd, FollowUpLost, JobStalled
  <2> QED BY <1>2, <2>1, <2>2, <2>3 DEF JobStep
<1> QED BY <1>0, <1>1, <1>2, RunsByWriter, ElsewhereByBackground DEF SettingStep

(* A completed match stays completed. *)
LEMMA CompletedStays ==
  ASSUME OneFailureSetting, IInv, OwedInv, SettingStep, NEW m \in Match, status[m] = "COMPLETED"
  PROVE  status'[m] = "COMPLETED"
BY RowSteps DEF IInv, TypeOK

(* From its read on, a run knows whether its match is eligible. *)
LEMMA EligibleByStep ==
  ASSUME OneFailureSetting, IInv, OwedInv, SettingStep, NEW m \in Match,
         run'[m].phase \notin {"idle", "load", "read"}
  PROVE  IF run'[m].eligible THEN status'[m] = "COMPLETED" /\ run'[m].affected # {}
                             ELSE marker'[m] # "COMPLETED"
<1>0. TypeOK /\ RunsAreOrderly
  BY DEF IInv, OwedInv
<1>a. run[m] \in RunType /\ run \in [Match -> RunType]
  BY <1>0 DEF TypeOK
<1>1. CASE ReadMatch(m)
  <2>1. run'[m].eligible = Eligible(m) /\ run'[m].affected = AffectedKeys(m)
    BY <1>a, <1>1 DEF ReadMatch, RunType
  <2>2. UNCHANGED <<status, marker>>
    BY <1>1 DEF ReadMatch, rowVars
  <2>3. CASE Eligible(m)
    <3>1. PICK p \in Participant : MatchOf[p] = m
      BY OneRowPerMatch
    <3>2. AllKey(p) \in CurrentKeys(m)
      BY <2>3, <3>1, KeysOfOneRow, ContributedFacts DEF CurrentKeys
    <3> QED BY <2>1, <2>2, <2>3, <3>2, OneRowPerMatch DEF AffectedKeys
  <2>4. CASE ~Eligible(m)
    BY <1>0, <2>1, <2>2, <2>4, OneRowPerMatch DEF RunsAreOrderly
  <2> QED BY <2>3, <2>4
<1>2. CASE ~ReadMatch(m)
  <2>1. /\ run[m].phase \notin {"idle", "load", "read"}
        /\ run'[m].eligible = run[m].eligible /\ run'[m].affected = run[m].affected
    <3>1. CASE run'[m] = run[m]
      BY <3>1
    <3>2. CASE run'[m] # run[m]
      <4>1. ~UNCHANGED run /\ ~UNCHANGED Affairs(m)
        BY <3>2 DEF Affairs
      <4>2. JobStep(m) \/ FollowUpStep(m) \/ JobError(m) \/ JobStalled(m) \/ FollowUpLost(m)
        BY <1>0, <4>1, RunsByWriter, ElsewhereByBackground DEF SettingStep
      <4>3. run'[m] # IdleRun
        BY DEF IdleRun
      <4>4. ~(ScopeMissing(m) \/ FinishJob(m) \/ JobError(m) \/ JobStalled(m))
        BY <1>0, <4>3 DEF ScopeMissing, FinishJob, JobError, JobStalled, FailAttempt, Discard,
               TypeOK
      <4>5. ASSUME NEW phase, Advance(m, phase)
            PROVE  /\ run'[m].phase = phase
                   /\ run'[m].eligible = run[m].eligible /\ run'[m].affected = run[m].affected
        BY <1>a, <4>5 DEF Advance, RunType
      <4>6. CASE StartJob(m)
        BY <4>5, <4>6 DEF StartJob
      <4>7. CASE WriteRecalculation(m) \/ BumpGeneration(m) \/ ReadMatchups(m) \/ DeleteMatchups(m) \/ CreateMatchups(m)
        BY <4>5, <4>7 DEF WriteRecalculation, BumpGeneration, AfterBump, ReadMatchups, DeleteMatchups, CreateMatchups, MatchupStep
      <4>8. CASE FoldContributors(m)
        BY <1>a, <4>8 DEF FoldContributors, RunType
      <4>9. CASE ClearScope(m)
        BY <1>a, <4>9 DEF ClearScope, RunType
      <4>10. CASE LoadScope(m)
        BY <1>a, <4>10 DEF LoadScope, RunType
      <4>11. ~(FollowUpStep(m) \/ FollowUpLost(m))
        BY <4>1 DEF FollowUpStep, FollowUpCheck, FollowUpRemove, FollowUpAdd, FollowUpLost
      <4> QED BY <1>2, <4>2, <4>4, <4>6, <4>7, <4>8, <4>9, <4>10, <4>11 DEF JobStep
    <3> QED BY <3>1, <3>2
  <2>2. IF run[m].eligible THEN status[m] = "COMPLETED" /\ run[m].affected # {}
                           ELSE marker[m] # "COMPLETED"
    BY <1>0, <2>1 DEF RunsAreOrderly
  <2>3. CASE run[m].eligible
    BY <2>1, <2>2, <2>3, CompletedStays
  <2>4. CASE ~run[m].eligible
    BY <2>1, <2>2, <2>4, MarkerByStep DEF IdleRun
  <2> QED BY <2>3, <2>4
<1> QED BY <1>1, <1>2

(* No job has stalled more often than something has failed. *)
LEMMA StallsByStep ==
  ASSUME OneFailureSetting, IInv, OwedInv, SettingStep, NEW m \in Match
  PROVE  job'[m].stalls <= faults'
<1>0. TypeOK /\ RunsAreOrderly
  BY DEF IInv, OwedInv
<1>1. /\ job[m].stalls \in Nat /\ faults \in Nat /\ job[m].stalls <= faults
      /\ job[m] \in JobType /\ job \in [Match -> JobType]
  BY <1>0 DEF TypeOK, JobType, RunsAreOrderly
<1>2. faults' \in Nat /\ faults' >= faults
  <2>1. ASSUME NEW n \in Match, NEW causes \in {0, 1}, NEW fatal \in BOOLEAN,
               FailAttempt(n, causes, fatal)
        PROVE  faults' = faults + causes \/ faults' = faults + causes + 1
    BY <2>1 DEF FailAttempt
  <2>2. ASSUME NEW n \in Match, ScopeMissing(n) \/ JobError(n)
        PROVE  faults' \in Nat /\ faults' >= faults
    <3>1. CASE ScopeMissing(n)
      <4>1. FailAttempt(n, 0, FALSE)
        BY <3>1 DEF ScopeMissing
      <4>2. faults' = faults + 0 \/ faults' = faults + 0 + 1
        BY <2>1, <4>1
      <4> QED BY <1>1, <4>2
    <3>2. CASE JobError(n)
      <4>1. PICK fatal \in BOOLEAN : FailAttempt(n, 1, fatal)
        BY <3>2 DEF JobError
      <4>2. faults' = faults + 1 \/ faults' = faults + 1 + 1
        BY <2>1, <4>1
      <4> QED BY <1>1, <4>2
    <3> QED BY <2>2, <3>1, <3>2
  <2>3. ASSUME \A n \in Match : ~ScopeMissing(n) /\ ~JobError(n)
        PROVE  UNCHANGED faults \/ faults' = faults + 1
    BY <2>3 DEF SettingStep, IngestLoad, EnrichLoad, WriterStep, IngestPersist, IngestComplete,
       EnrichApply, UpsertRead, UpsertWrite, CheckJob, RemoveJob, AddJob, WriterLost, JobStep,
       StartJob, LoadScope, ReadMatch, FoldContributors, WriteRecalculation,
       ClearScope, BumpGeneration, ReadMatchups, DeleteMatchups, CreateMatchups, MatchupStep,
       FinishJob, FollowUpStep, FollowUpCheck, FollowUpRemove, FollowUpAdd, JobStalled,
       FollowUpLost, Fault
  <2> QED BY <1>1, <2>2, <2>3
<1>3. \/ job'[m].stalls = job[m].stalls \/ job'[m].stalls = 0
      \/ job'[m].stalls = job[m].stalls + 1 /\ faults' = faults + 1
  <2>1. CASE UNCHANGED Affairs(m)
    BY <2>1 DEF Affairs
  <2>2. ASSUME JobStep(m) \/ FollowUpStep(m) \/ JobError(m) \/ JobStalled(m) \/ FollowUpLost(m)
        PROVE  \/ job'[m].stalls = job[m].stalls \/ job'[m].stalls = 0
               \/ job'[m].stalls = job[m].stalls + 1 /\ faults' = faults + 1
    <3>1. CASE StartJob(m) \/ FinishJob(m)
      BY <1>1, <3>1 DEF StartJob, FinishJob, JobType
    <3>2. CASE ScopeMissing(m) \/ JobError(m)
      BY <1>1, <3>2 DEF ScopeMissing, JobError, FailAttempt
    <3>3. CASE JobStalled(m)
      BY <1>1, <3>3 DEF JobStalled, Fault
    <3>4. CASE FollowUpRemove(m) \/ FollowUpAdd(m)
      BY <1>1, <3>4 DEF FollowUpRemove, FollowUpAdd, Enqueue, NoJob
    <3>5. CASE LoadScope(m) \/ WriteRecalculation(m) \/ BumpGeneration(m) \/ ReadMatchups(m)
                 \/ DeleteMatchups(m) \/ CreateMatchups(m) \/ ReadMatch(m) \/ FoldContributors(m) \/ ClearScope(m)
                 \/ FollowUpCheck(m) \/ FollowUpLost(m)
      BY <3>5 DEF LoadScope, WriteRecalculation, BumpGeneration, ReadMatchups, DeleteMatchups, CreateMatchups, MatchupStep,
                  ReadMatch, FoldContributors, ClearScope, FollowUpCheck, FollowUpLost
    <3> QED BY <2>2, <3>1, <3>2, <3>3, <3>4, <3>5 DEF JobStep, FollowUpStep
  <2>3. ASSUME NEW w \in Writer, (WriterStep(w) /\ ~LinkApply(w)) \/ WriterLost(w)
        PROVE  job'[m].stalls = job[m].stalls \/ job'[m].stalls = 0
    <3>1. CASE RemoveJob(w) \/ AddJob(w)
      BY <1>1, <3>1 DEF RemoveJob, AddJob, Enqueue, NoJob
    <3>2. CASE ~RemoveJob(w) /\ ~AddJob(w)
      BY <2>3, <3>2 DEF WriterStep, IngestPersist, IngestComplete, EnrichApply, UpsertRead,
                        UpsertWrite, CheckJob, WriterLost
    <3> QED BY <3>1, <3>2
  <2> QED BY <1>0, <2>1, <2>2, <2>3, ElsewhereByTrigger, ElsewhereByBackground DEF SettingStep
<1> QED BY <1>1, <1>2, <1>3

(* Runs stay orderly. *)
LEMMA RunsByStep ==
  ASSUME OneFailureSetting, IInv, OwedInv, SettingStep
  PROVE  RunsAreOrderly'
<1>0. TypeOK /\ RunsAreOrderly
  BY DEF IInv, OwedInv
<1>1. ASSUME NEW m \in Match, run'[m].phase \in {"read", "fold", "write", "clear"}
      PROVE  scope'[m] # None
  <2>1. CASE LoadScope(m)
    BY <2>1 DEF LoadScope
  <2>2. CASE ~LoadScope(m)
    <3>1. scope[m] # None
      BY <1>0, <1>1, <2>2, PhasesByStep DEF RunsAreOrderly
    <3>2. ~ClearScope(m)
      <4>1. run[m] \in RunType /\ run \in [Match -> RunType]
        BY <1>0 DEF TypeOK
      <4>2. ClearScope(m) => run'[m].phase \in {"finish", "bump"}
        BY <4>1 DEF ClearScope, RunType
      <4> QED BY <1>1, <4>2
    <3> QED BY <3>1, <3>2, ScopeByStep
  <2> QED BY <2>1, <2>2
<1>2. ASSUME NEW m \in Match, marker'[m] = "COMPLETED" PROVE status'[m] = "COMPLETED"
  <2>1. status[m] = "COMPLETED"
    BY <1>0, <1>2, MarkerByStep DEF RunsAreOrderly
  <2> QED BY <2>1, CompletedStays
<1> QED BY <1>1, <1>2, ActiveByStep, EligibleByStep, StallsByStep DEF RunsAreOrderly

-----------------------------------------------------------------------------
(* NothingExtra: contributors only grow, so a fold is never ahead of them. *)

(* How what a row feeds moves: it gains keys when an enrichment resolves it. *)
LEMMA KeysOfRowByStep ==
  ASSUME OneFailureSetting, IInv, OwedInv, SettingStep, NEW p \in Participant
  PROVE  \/ ContributedKeys(p)' = ContributedKeys(p)
         \/ status'[MatchOf[p]] = "IN_PROGRESS" /\ status[MatchOf[p]] = "NONE"
         \/ /\ ContributedKeys(p) \subseteq ContributedKeys(p)'
            /\ rank[p] = "PENDING" /\ UNCHANGED <<slot, status, run, aggregate, scope>>
            /\ \E w \in Writer : /\ EnrichApply(w) /\ writer[w].match = MatchOf[p]
                                 /\ Enriches(w, p)' /\ Announces(w, MatchOf[p])'
<1>0. TypeOK /\ MatchOf[p] \in Match /\ WritersAreOrderly
  BY OneRowPerMatch DEF IInv, OwedInv
<1>1. CASE slot'[p] = slot[p] /\ rank'[p] = rank[p]
  BY <1>1 DEF ContributedKeys
<1>2. ASSUME NEW w \in Writer, IngestPersist(w), status[writer[w].match] = "NONE",
             status' = [status EXCEPT ![writer[w].match] = "IN_PROGRESS"],
             writer[w].match = MatchOf[p]
      PROVE  status'[MatchOf[p]] = "IN_PROGRESS" /\ status[MatchOf[p]] = "NONE"
  BY <1>0, <1>2 DEF TypeOK
<1>3. ASSUME NEW w \in Writer, EnrichApply(w), writer[w].who = p, rank[p] = "PENDING",
             writer[w].match = MatchOf[p], writer[w].kind = "enrich", UNCHANGED <<slot, status>>
      PROVE  /\ ContributedKeys(p) \subseteq ContributedKeys(p)'
             /\ UNCHANGED <<slot, status, run, aggregate, scope>>
             /\ Enriches(w, p)' /\ Announces(w, MatchOf[p])'
  <2>1. ContributedKeys(p) = {<<slot[p], "ALL">>}
    BY <1>3, ContributedFacts DEF AllKey
  <2>2. <<slot'[p], "ALL">> \in ContributedKeys(p)'
    BY DEF ContributedKeys
  <2>3. UNCHANGED <<run, aggregate, scope>> /\ Goto(w, "upsertRead")
    BY <1>3 DEF EnrichApply
  <2>4. Enriches(w, p)' /\ Announces(w, MatchOf[p])'
    BY <1>0, <1>3, <2>3, GotoFields DEF Enriches, Announces
  <2> QED BY <1>3, <2>1, <2>2, <2>3, <2>4
<1>4. UNCHANGED <<status, slot, rank>> => slot'[p] = slot[p] /\ rank'[p] = rank[p]
  OBVIOUS
<1>5. ASSUME NEW w \in Writer, writer[w].who \in Participant, p # writer[w].who,
             \E r \in Outcome : rank' = [rank EXCEPT ![writer[w].who] = r]
      PROVE  rank'[p] = rank[p]
  BY <1>0, <1>5 DEF TypeOK
<1> QED BY <1>1, <1>2, <1>3, <1>4, <1>5, RowSteps

(* Nobody who belongs in an aggregate stops belonging there. *)
LEMMA ContributorsGrow ==
  ASSUME OneFailureSetting, IInv, OwedInv, SettingStep, NEW k \in Key
  PROVE  Contributors(k) \subseteq Contributors(k)'
<1> SUFFICES ASSUME NEW p \in Contributors(k) PROVE p \in Contributors(k)'
  OBVIOUS
<1>1. /\ p \in Participant /\ MatchOf[p] \in Match /\ status[MatchOf[p]] = "COMPLETED"
      /\ k \in ContributedKeys(p)
  BY OneRowPerMatch DEF Contributors
<1>2. status'[MatchOf[p]] = "COMPLETED"
  BY <1>1, CompletedStays
<1>3. Eligible(MatchOf[p])'
  BY <1>1, <1>2, OneRowPerMatch DEF Eligible, Players
<1>4. k \in ContributedKeys(p)'
  BY <1>1, KeysOfRowByStep
<1> QED BY <1>1, <1>3, <1>4 DEF Contributors

(* How the aggregates and the folds move. *)
LEMMA FoldsByStep ==
  ASSUME OneFailureSetting, IInv, OwedInv, SettingStep
  PROVE  /\ \/ aggregate' = aggregate
            \/ \E m \in Match : /\ WriteRecalculation(m) /\ run[m].phase = "write"
                                /\ aggregate' = [k \in Key |-> IF k \in run[m].affected
                                                                 THEN run[m].folded[k]
                                                                 ELSE aggregate[k]]
                                /\ run'[m].phase = "clear"
                                /\ UNCHANGED <<status, slot, rank, scope, writer>>
         /\ \A m \in Match : run'[m].phase = "write" =>
              \/ run'[m] = run[m]
              \/ /\ FoldContributors(m) /\ run[m].phase = "fold"
                 /\ run'[m].affected = run[m].affected /\ run'[m].eligible = run[m].eligible
                 /\ run'[m].folded = [k \in Key |-> IF k \in run[m].affected
                                                      THEN Contributors(k) ELSE {}]
                 /\ UNCHANGED <<status, slot, rank, aggregate, scope, marker, writer>>
<1>0. TypeOK
  BY DEF IInv
<1>1. ASSUME NEW w \in Writer,
             \/ \E n \in Match : IngestLoad(w, n)
             \/ \E p \in Participant : EnrichLoad(w, p)
             \/ WriterStep(w) /\ ~LinkApply(w)
             \/ WriterLost(w)
      PROVE  aggregate' = aggregate /\ run' = run
  BY <1>1, RunsByWriter
<1>2. ASSUME NEW m \in Match,
             JobStep(m) \/ FollowUpStep(m) \/ JobError(m) \/ JobStalled(m) \/ FollowUpLost(m)
      PROVE  \/ aggregate' = aggregate
             \/ /\ WriteRecalculation(m) /\ run[m].phase = "write"
                /\ aggregate' = [k \in Key |-> IF k \in run[m].affected
                                                 THEN run[m].folded[k] ELSE aggregate[k]]
                /\ run'[m].phase = "clear" /\ UNCHANGED <<status, slot, rank, scope, writer>>
  <2>1. CASE WriteRecalculation(m)
    BY <1>0, <2>1 DEF WriteRecalculation, Advance, TypeOK, RunType, rowVars
  <2>2. CASE ~WriteRecalculation(m)
    BY <1>2, <2>2 DEF JobStep, StartJob, LoadScope, ScopeMissing, FailAttempt, ReadMatch,
       FoldContributors, ClearScope, BumpGeneration, ReadMatchups, DeleteMatchups, CreateMatchups, MatchupStep, FinishJob,
       FollowUpStep, FollowUpCheck, FollowUpRemove, FollowUpAdd, JobError, JobStalled,
       FollowUpLost, derivedVars
  <2> QED BY <2>1, <2>2
<1>3. ASSUME NEW m \in Match, run'[m].phase = "write", run'[m] # run[m],
             JobStep(m) \/ FollowUpStep(m) \/ JobError(m) \/ JobStalled(m) \/ FollowUpLost(m)
      PROVE  /\ FoldContributors(m) /\ run[m].phase = "fold"
             /\ run'[m].affected = run[m].affected /\ run'[m].eligible = run[m].eligible
             /\ run'[m].folded = [k \in Key |-> IF k \in run[m].affected
                                                  THEN Contributors(k) ELSE {}]
             /\ UNCHANGED <<status, slot, rank, aggregate, scope, marker, writer>>
  <2>1. run[m] \in RunType /\ run \in [Match -> RunType]
    BY <1>0 DEF TypeOK
  <2>2. CASE FoldContributors(m)
    BY <2>1, <2>2 DEF FoldContributors, RunType, rowVars, derivedVars
  <2>3. ASSUME NEW phase, phase # "write", Advance(m, phase) \/ Discard(m)
        PROVE  run'[m].phase # "write"
    BY <2>1, <2>3 DEF Advance, Discard, IdleRun, RunType
  <2>4. ASSUME StartJob(m) \/ ScopeMissing(m) \/ WriteRecalculation(m) \/ BumpGeneration(m)
                 \/ ReadMatchups(m) \/ DeleteMatchups(m) \/ CreateMatchups(m) \/ FinishJob(m) \/ JobError(m)
                 \/ JobStalled(m)
        PROVE  FALSE
    BY <1>3, <2>3, <2>4 DEF StartJob, ScopeMissing, FailAttempt, WriteRecalculation,
        BumpGeneration, AfterBump, ReadMatchups, DeleteMatchups, CreateMatchups, MatchupStep, FinishJob, JobError, JobStalled
  <2>5. ~LoadScope(m)
    BY <1>3, <2>1 DEF LoadScope, RunType
  <2>6. ~ReadMatch(m)
    BY <1>3, <2>1 DEF ReadMatch, RunType
  <2>7. ~ClearScope(m)
    BY <1>3, <2>1 DEF ClearScope, RunType
  <2>8. ~(FollowUpStep(m) \/ FollowUpLost(m))
    BY <1>3 DEF FollowUpStep, FollowUpCheck, FollowUpRemove, FollowUpAdd, FollowUpLost
  <2> QED BY <1>3, <2>2, <2>4, <2>5, <2>6, <2>7, <2>8 DEF JobStep
<1>4. ASSUME NEW m \in Match, run'[m].phase = "write", run'[m] # run[m]
      PROVE  JobStep(m) \/ FollowUpStep(m) \/ JobError(m) \/ JobStalled(m) \/ FollowUpLost(m)
  BY <1>0, <1>1, <1>4, ElsewhereByBackground DEF SettingStep, Affairs
<1> QED BY <1>1, <1>2, <1>3, <1>4 DEF SettingStep

(* Nobody is folded in who does not belong there. *)
LEMMA NothingExtraByStep ==
  ASSUME OneFailureSetting, IInv, OwedInv, SettingStep
  PROVE  NothingExtra'
<1>0. TypeOK /\ NothingExtra
  BY DEF IInv, OwedInv
<1>1. ASSUME NEW k \in Key PROVE aggregate'[k] \subseteq Contributors(k)
  BY <1>0, FoldsByStep DEF NothingExtra
<1>2. ASSUME NEW k \in Key, NEW m \in Match, run'[m].phase = "write", k \in run'[m].affected
      PROVE  run'[m].folded[k] \subseteq Contributors(k)
  <2>1. CASE run'[m] = run[m]
    BY <1>0, <1>2, <2>1 DEF NothingExtra
  <2>2. CASE run'[m] # run[m]
    <3>1. /\ run'[m].affected = run[m].affected
          /\ run'[m].folded = [l \in Key |-> IF l \in run[m].affected
                                               THEN Contributors(l) ELSE {}]
      BY <1>2, <2>2, FoldsByStep
    <3> QED BY <3>1
  <2> QED BY <2>1, <2>2
<1> QED BY <1>1, <1>2, ContributorsGrow DEF NothingExtra, Key, Bucket

-----------------------------------------------------------------------------
(* RunsCoverMatch: what a run covers, or who has overtaken it.             *)

(* A run that clears goes on to bump the generation, if it has recalculated anything. *)
LEMMA ClearFields ==
  ASSUME TypeOK, NEW m \in Match, ClearScope(m)
  PROVE  /\ run[m].phase = "clear"
         /\ run'[m].phase = IF run[m].affected = {} THEN "finish" ELSE "bump"
         /\ run'[m].eligible = run[m].eligible /\ run'[m].affected = run[m].affected
<1>1. run[m] \in RunType /\ run \in [Match -> RunType]
  BY DEF TypeOK
<1> QED BY <1>1 DEF ClearScope, RunType

(* A run that writes goes on to its clear. *)
LEMMA WriteFields ==
  ASSUME TypeOK, NEW m \in Match, WriteRecalculation(m)
  PROVE  /\ run[m].phase = "write" /\ run'[m].phase = "clear"
         /\ run'[m].eligible = run[m].eligible /\ run'[m].affected = run[m].affected
         /\ run'[m].loaded = run[m].loaded
<1>1. run[m] \in RunType /\ run \in [Match -> RunType]
  BY DEF TypeOK
<1> QED BY <1>1 DEF WriteRecalculation, Advance, RunType

(* How a run that covers its match got where it is. *)
LEMMA CoveringRunsByStep ==
  ASSUME OneFailureSetting, IInv, OwedInv, SettingStep, NEW m \in Match,
         run'[m].phase \in {"fold", "write", "clear"}, run'[m].eligible
  PROVE  \/ run'[m] = run[m] /\ ~WriteRecalculation(m) /\ ~ClearScope(m)
         \/ /\ ReadMatch(m) /\ run'[m].phase = "fold" /\ Eligible(m)
            /\ run'[m].affected = AffectedKeys(m)
         \/ /\ FoldContributors(m) /\ run[m].phase = "fold" /\ run'[m].phase = "write"
            /\ run[m].eligible
            /\ run'[m].affected = run[m].affected /\ run'[m].loaded = run[m].loaded
            /\ run'[m].folded = [k \in Key |-> IF k \in run[m].affected
                                                 THEN Contributors(k) ELSE {}]
         \/ /\ WriteRecalculation(m) /\ run[m].phase = "write" /\ run'[m].phase = "clear"
            /\ run[m].eligible /\ run'[m].loaded = run[m].loaded
            /\ \A k \in Key : k \in run[m].affected => aggregate'[k] = run[m].folded[k]
<1>0. TypeOK
  BY DEF IInv
<1>a. run[m] \in RunType /\ run \in [Match -> RunType]
  BY <1>0 DEF TypeOK
<1>b. run'[m].affected # {}
  BY EligibleByStep
<1>1. CASE UNCHANGED Affairs(m)
  <2>1. run'[m] = run[m]
    BY <1>1 DEF Affairs
  <2>2. ASSUME ClearScope(m) \/ WriteRecalculation(m) PROVE FALSE
    BY <1>0, <2>1, <2>2, ClearFields, WriteFields
  <2> QED BY <2>1, <2>2
<1>2. ASSUME JobStep(m) \/ FollowUpStep(m) \/ JobError(m) \/ JobStalled(m) \/ FollowUpLost(m)
      PROVE  \/ run'[m] = run[m] /\ ~WriteRecalculation(m) /\ ~ClearScope(m)
             \/ /\ ReadMatch(m) /\ run'[m].phase = "fold" /\ Eligible(m)
                /\ run'[m].affected = AffectedKeys(m)
             \/ /\ FoldContributors(m) /\ run[m].phase = "fold" /\ run'[m].phase = "write"
                /\ run[m].eligible
                /\ run'[m].affected = run[m].affected /\ run'[m].loaded = run[m].loaded
                /\ run'[m].folded = [k \in Key |-> IF k \in run[m].affected
                                                     THEN Contributors(k) ELSE {}]
             \/ /\ WriteRecalculation(m) /\ run[m].phase = "write" /\ run'[m].phase = "clear"
                /\ run[m].eligible /\ run'[m].loaded = run[m].loaded
                /\ \A k \in Key : k \in run[m].affected => aggregate'[k] = run[m].folded[k]
  <2>1. CASE ReadMatch(m)
    <3>1. /\ run'[m].eligible = Eligible(m) /\ run'[m].affected = AffectedKeys(m)
          /\ run'[m].phase = IF AffectedKeys(m) = {} THEN "clear" ELSE "fold"
      BY <1>a, <2>1 DEF ReadMatch, RunType
    <3> QED BY <1>b, <2>1, <3>1
  <2>2. CASE FoldContributors(m)
    BY <1>a, <2>2 DEF FoldContributors, RunType
  <2>3. CASE WriteRecalculation(m)
    BY <1>a, <2>3 DEF WriteRecalculation, Advance, RunType
  <2>4. ASSUME NEW phase, phase \notin {"fold", "write", "clear"}, Advance(m, phase) \/ Discard(m)
        PROVE  run'[m].phase \notin {"fold", "write", "clear"}
    BY <1>a, <2>4 DEF Advance, Discard, IdleRun, RunType
  <2>5. ASSUME StartJob(m) \/ ScopeMissing(m) \/ BumpGeneration(m)
                 \/ ReadMatchups(m) \/ DeleteMatchups(m) \/ CreateMatchups(m) \/ FinishJob(m) \/ JobError(m)
                 \/ JobStalled(m)
        PROVE  FALSE
    BY <2>4, <2>5 DEF StartJob, ScopeMissing, FailAttempt,
        BumpGeneration, AfterBump, ReadMatchups, DeleteMatchups, CreateMatchups, MatchupStep, FinishJob, JobError, JobStalled
  <2>6. ~LoadScope(m)
    BY <1>a DEF LoadScope, RunType
  <2>7. ~ClearScope(m)
    BY <1>0, ClearFields
  <2>8. CASE FollowUpStep(m) \/ FollowUpLost(m)
    <3>1. run' = run
      BY <2>8 DEF FollowUpStep, FollowUpCheck, FollowUpRemove, FollowUpAdd, FollowUpLost
    <3>2. ~WriteRecalculation(m)
      BY <1>a, <3>1 DEF WriteRecalculation, Advance, RunType
    <3> QED BY <2>7, <3>1, <3>2
  <2> QED BY <1>2, <2>1, <2>2, <2>3, <2>5, <2>6, <2>7, <2>8 DEF JobStep
<1>3. CASE UNCHANGED run
  <2>2. ASSUME ClearScope(m) \/ WriteRecalculation(m) PROVE FALSE
    BY <1>0, <1>3, <2>2, ClearFields, WriteFields
  <2> QED BY <1>3, <2>2
<1> QED BY <1>0, <1>1, <1>2, <1>3, RunsByWriter, ElsewhereByBackground DEF SettingStep

(* What the clear will find: another row than the one that was loaded. *)
Overtaken(p) ==
  /\ AllKey(p) \notin run[MatchOf[p]].loaded
  /\ (\E w \in Writer : Enriches(w, p)) \/ scope[MatchOf[p]] # run[MatchOf[p]].loaded

(* A run that an enrichment has overtaken stays so until its clear. *)
LEMMA OvertakenStays ==
  ASSUME OneFailureSetting, IInv, OwedInv, SettingStep, NEW p \in Participant,
         Overtaken(p), run[MatchOf[p]].phase \in {"fold", "write", "clear"},
         run'[MatchOf[p]].loaded = run[MatchOf[p]].loaded, ~ClearScope(MatchOf[p])
  PROVE  Overtaken(p)'
<1> DEFINE m == MatchOf[p]
<1>0. TypeOK /\ WritersAreOrderly /\ m \in Match /\ KeysAreAnnounced
  BY OneRowPerMatch DEF IInv, OwedInv
<1>1. status[m] # "NONE"
  BY <1>0, RunAt
<1>2. slot'[p] = slot[p]
  BY <1>0, <1>1, RowSteps
<1>3. AllKey(p)' \notin run'[m].loaded /\ AllKey(p)' = AllKey(p)
  BY <1>2 DEF AllKey, Overtaken
<1>4. ASSUME NEW v \in Writer, UpsertWrite(v), writer[v].match = m,
             scope'[m] = MergedKeys(writer[v].row, writer[v].prev)
      PROVE  scope'[m] # run'[m].loaded
  <2>1. writer[v].kind # "ingest"
    <3>1. SUFFICES ASSUME writer[v].kind = "ingest" PROVE FALSE
      OBVIOUS
    <3>2. Ingests(v, m)
      BY <1>4, <3>1 DEF Ingests, UpsertWrite
    <3> QED BY <1>0, <1>1, <3>2 DEF KeysAreAnnounced, Overtaken
  <2>2. AllKey(p) \in scope'[m]
    BY <1>4, <2>1, UpsertedKeys
  <2> QED BY <1>3, <2>2
<1>5. CASE \E w \in Writer : Enriches(w, p)
  <2>1. PICK w \in Writer : Enriches(w, p)
    BY <1>5
  <2>2. CASE ~UpsertWrite(w)
    BY <1>3, <2>1, <2>2, EnrichesByStep DEF Overtaken
  <2>3. CASE UpsertWrite(w)
    <3>1. writer[w].match = m
      BY <1>0, <2>1, WriterAt DEF Enriches
    <3>2. scope'[m] = MergedKeys(writer[w].row, writer[w].prev)
      BY <1>0, <2>3, <3>1 DEF UpsertWrite, TypeOK
    <3> QED BY <1>3, <1>4, <2>3, <3>1, <3>2 DEF Overtaken
  <2> QED BY <2>2, <2>3
<1>6. CASE scope[m] # run[m].loaded
  <2>1. CASE scope'[m] = scope[m]
    BY <1>3, <1>6, <2>1 DEF Overtaken
  <2>2. CASE scope'[m] # scope[m]
    BY <1>0, <1>3, <1>4, <2>2, ScopeByStep DEF Overtaken
  <2> QED BY <2>1, <2>2
<1> QED BY <1>5, <1>6 DEF Overtaken

(* Until its clear, a run covers its match, or is overtaken. *)
LEMMA CoverByStep ==
  ASSUME OneFailureSetting, IInv, OwedInv, SettingStep
  PROVE  RunsCoverMatch'
<1>0. TypeOK /\ KeysAreAnnounced /\ RunsCoverMatch /\ RunsAreOrderly
  BY DEF IInv, OwedInv
<1> SUFFICES ASSUME NEW p \in Participant,
                    run'[MatchOf[p]].phase \in {"fold", "write", "clear"},
                    run'[MatchOf[p]].eligible
             PROVE  \/ \A k \in ContributedKeys(p)' : Covered(MatchOf[p], p, k)'
                    \/ Overtaken(p)'
  BY DEF RunsCoverMatch, Overtaken
<1> DEFINE m == MatchOf[p]
<1>1. m \in Match /\ run[m] \in RunType
  BY <1>0, OneRowPerMatch DEF TypeOK
<1>2. run[m].phase \in {"fold", "write", "clear"} /\ run[m].eligible =>
        (\A k \in ContributedKeys(p) : Covered(m, p, k)) \/ Overtaken(p)
  BY <1>0 DEF RunsCoverMatch, Overtaken
<1>3. CASE run'[m] = run[m] /\ ~WriteRecalculation(m) /\ ~ClearScope(m)
  <2>1. status[m] # "NONE" /\ \A n \in Match : n # m => run[n].phase = "idle"
    BY <1>1, <1>3, RunAt
  <2>2. aggregate' = aggregate
    BY <1>1, <1>3, <2>1, FoldsByStep
  <2>3. CASE ContributedKeys(p)' = ContributedKeys(p)
    <3>1. CASE \A k \in ContributedKeys(p) : Covered(m, p, k)
      BY <1>3, <2>2, <2>3, <3>1 DEF Covered
    <3>2. CASE Overtaken(p)
      BY <1>3, <3>2, OvertakenStays
    <3> QED BY <1>2, <1>3, <3>1, <3>2
  <2>4. CASE ContributedKeys(p)' # ContributedKeys(p)
    <3>1. PICK w \in Writer : rank[p] = "PENDING" /\ Enriches(w, p)' /\ UNCHANGED slot
      BY <2>1, <2>4, KeysOfRowByStep
    <3>2. AllKey(p) \notin run[m].loaded
      BY <1>0, <2>1, <3>1 DEF KeysAreAnnounced
    <3> QED BY <1>3, <3>1, <3>2 DEF Overtaken, AllKey
  <2> QED BY <2>3, <2>4
<1>4. CASE ReadMatch(m) /\ run'[m].phase = "fold" /\ Eligible(m)
           /\ run'[m].affected = AffectedKeys(m)
  <2>1. ContributedKeys(p)' = ContributedKeys(p)
    BY <1>4 DEF ReadMatch, rowVars, ContributedKeys
  <2>2. ContributedKeys(p) \subseteq AffectedKeys(m)
    BY <1>4, KeysOfOneRow DEF AffectedKeys, CurrentKeys
  <2> QED BY <1>4, <2>1, <2>2 DEF Covered
<1>5. CASE /\ FoldContributors(m) /\ run[m].phase = "fold" /\ run'[m].phase = "write"
           /\ run[m].eligible
           /\ run'[m].affected = run[m].affected /\ run'[m].loaded = run[m].loaded
           /\ run'[m].folded = [k \in Key |-> IF k \in run[m].affected THEN Contributors(k) ELSE {}]
  <2>1. ContributedKeys(p)' = ContributedKeys(p)
    BY <1>5 DEF FoldContributors, rowVars, ContributedKeys
  <2>2. Eligible(m)
    BY <1>0, <1>1, <1>5, OneRowPerMatch DEF RunsAreOrderly
  <2>3. CASE \A k \in ContributedKeys(p) : Covered(m, p, k)
    <3>1. ASSUME NEW k \in ContributedKeys(p)
          PROVE  k \in run[m].affected /\ k \in Key /\ p \in Contributors(k)
      BY <1>1, <1>5, <2>2, <2>3, <3>1 DEF Covered, RunType, Contributors
    <3> QED BY <1>5, <2>1, <3>1 DEF Covered
  <2>4. CASE Overtaken(p)
    <3>1. ~ClearScope(m)
      BY <1>5 DEF ClearScope
    <3> QED BY <1>5, <2>4, <3>1, OvertakenStays
  <2> QED BY <1>2, <1>5, <2>3, <2>4
<1>6. CASE /\ WriteRecalculation(m) /\ run[m].phase = "write" /\ run'[m].phase = "clear"
           /\ run[m].eligible /\ run'[m].loaded = run[m].loaded
           /\ \A k \in Key : k \in run[m].affected => aggregate'[k] = run[m].folded[k]
  <2>1. ContributedKeys(p)' = ContributedKeys(p)
    BY <1>6 DEF WriteRecalculation, rowVars, ContributedKeys
  <2>3. CASE \A k \in ContributedKeys(p) : Covered(m, p, k)
    <3>1. ASSUME NEW k \in ContributedKeys(p)
          PROVE  k \in run[m].affected /\ k \in Key /\ p \in run[m].folded[k]
      BY <1>1, <1>6, <2>3, <3>1 DEF Covered, RunType
    <3> QED BY <1>6, <2>1, <3>1 DEF Covered
  <2>4. CASE Overtaken(p)
    <3>1. ~ClearScope(m)
      BY <1>6 DEF ClearScope
    <3> QED BY <1>6, <2>4, <3>1, OvertakenStays
  <2> QED BY <1>2, <1>6, <2>3, <2>4
<1> QED BY <1>1, <1>3, <1>4, <1>5, <1>6, CoveringRunsByStep

-----------------------------------------------------------------------------
(* AggregatesCatchUp.                                                      *)

(* What stands for a match stands until a clear, which goes on to what is left. *)
LEMMA OwingStays ==
  ASSUME OneFailureSetting, IInv, OwedInv, SettingStep, NEW m \in Match, Owing(m)
  PROVE  \/ Owing(m)'
         \/ /\ ClearScope(m) /\ run[m].phase = "clear" /\ run[m].eligible
            /\ scope[m] = run[m].loaded
            /\ run'[m].phase = "bump" /\ run'[m].eligible
            /\ ~\E w \in Writer : Announces(w, m)
<1>0. TypeOK /\ RunsAreOrderly
  BY DEF IInv, OwedInv
<1>1. ASSUME NEW w \in Writer, Announces(w, m) PROVE Owing(m)'
  <2>1. CASE ~UpsertWrite(w)
    BY <1>1, <2>1, AnnouncesByStep DEF Owing
  <2>2. CASE UpsertWrite(w)
    <3>1. MergedKeys(writer[w].row, writer[w].prev) \in SUBSET Key
      BY <2>2, BusyWriterTyped, MergedKeysTyped DEF UpsertWrite, IInv
    <3>2. scope'[m] # None
      BY <1>0, <1>1, <2>2, <3>1, ConstantsAssumption DEF UpsertWrite, Announces, TypeOK
    <3> QED BY <3>2 DEF Owing
  <2> QED BY <2>1, <2>2
<1>2. CASE marker[m] # "COMPLETED" /\ scope[m] = None
  <2>1. run[m].phase # "write"
    BY <1>0, <1>2 DEF RunsAreOrderly
  <2> QED BY <1>2, <2>1, MarkerByStep DEF Owing
<1>3. CASE scope[m] # None
  <2>1. CASE scope'[m] # None
    BY <2>1 DEF Owing
  <2>2. CASE scope'[m] = None
    <3>1. ClearScope(m) /\ scope[m] = run[m].loaded /\ run[m].phase = "clear"
      BY <1>3, <2>2, ScopeByStep
    <3>2. IF run[m].eligible THEN run[m].affected # {} ELSE marker[m] # "COMPLETED"
      BY <1>0, <3>1 DEF RunsAreOrderly
    <3>3. UNCHANGED marker
      BY <3>1 DEF ClearScope
    <3> QED BY <1>0, <1>1, <3>1, <3>2, <3>3, ClearFields DEF Owing
  <2> QED BY <2>1, <2>2
<1> QED BY <1>1, <1>2, <1>3 DEF Owing

(* An aggregate that misses somebody is owed to the match of who is missing. *)
LEMMA CatchUpByStep ==
  ASSUME OneFailureSetting, IInv, OwedInv, SettingStep
  PROVE  AggregatesCatchUp'
<1>0. TypeOK /\ RunsAreOrderly /\ AggregatesCatchUp /\ RunsCoverMatch
  BY DEF IInv, OwedInv
<1> SUFFICES ASSUME NEW p \in Participant, NEW k \in ContributedKeys(p)', Eligible(MatchOf[p])'
             PROVE  /\ p \in aggregate'[k] \/ Owing(MatchOf[p])'
                    /\ \A n \in Match \ {MatchOf[p]} :
                         run'[n].phase = "write" /\ k \in run'[n].affected
                           => p \in run'[n].folded[k] \/ Owing(MatchOf[p])'
  BY DEF AggregatesCatchUp
<1> DEFINE m == MatchOf[p]
<1>1. m \in Match /\ status'[m] = "COMPLETED"
  BY OneRowPerMatch DEF Eligible
<1>2. CASE Owing(m)'
  BY <1>2
<1>3. CASE ~Owing(m)'
  <2>1. status[m] = "COMPLETED"
    <3>1. SUFFICES ASSUME status[m] # "COMPLETED" PROVE FALSE
      OBVIOUS
    <3>2. PICK w \in Writer : IngestComplete(w) /\ writer[w].match = m
      BY <1>0, <1>1, <3>1, RowSteps DEF TypeOK
    <3>3. Goto(w, "upsertRead")
      BY <3>2 DEF IngestComplete
    <3>4. Announces(w, m)'
      BY <1>0, <3>2, <3>3, GotoFields DEF Announces
    <3> QED BY <1>3, <3>4 DEF Owing
  <2>2. Eligible(m)
    BY <1>1, <2>1, OneRowPerMatch
  <2>3. ContributedKeys(p)' = ContributedKeys(p)
    BY <1>1, <1>3, KeysOfRowByStep DEF Owing
  <2>4. k \in ContributedKeys(p) /\ k \in Key
    <3>1. slot[p] \in Slot
      BY <2>1 DEF IInv, StoredMatchesArePlaced
    <3> QED BY <1>0, <2>3, <3>1, ContributedKeysTyped DEF TypeOK
  <2>5. CASE ~Owing(m)
    <3>1. /\ p \in aggregate[k]
          /\ \A n \in Match \ {m} : run[n].phase = "write" /\ k \in run[n].affected
                                     => p \in run[n].folded[k]
      BY <1>0, <2>2, <2>4, <2>5 DEF AggregatesCatchUp
    <3>2. p \in aggregate'[k]
      <4>1. ASSUME NEW n \in Match, run[n].phase = "write" PROVE n # m
        BY <1>0, <2>5, <4>1 DEF RunsAreOrderly, Owing
      <4> QED BY <2>4, <3>1, <4>1, FoldsByStep
    <3>3. ASSUME NEW n \in Match \ {m}, run'[n].phase = "write", k \in run'[n].affected
          PROVE  p \in run'[n].folded[k]
      <4>1. p \in Contributors(k)
        BY <2>2, <2>4 DEF Contributors
      <4> QED BY <2>4, <3>1, <3>3, <4>1, FoldsByStep
    <3> QED BY <3>2, <3>3
  <2>6. CASE Owing(m)
    <3>1. /\ ClearScope(m) /\ run[m].phase = "clear" /\ run[m].eligible
          /\ scope[m] = run[m].loaded /\ ~\E w \in Writer : Announces(w, m)
      BY <1>1, <1>3, <2>6, OwingStays
    <3>2. ~\E w \in Writer : Enriches(w, p)
      <4>1. ASSUME NEW w \in Writer, Enriches(w, p) PROVE Announces(w, m)
        BY <4>1, WriterAt DEF OwedInv, Enriches, Announces
      <4> QED BY <3>1, <4>1
    <3>3. p \in aggregate[k]
      BY <1>0, <1>1, <2>4, <3>1, <3>2 DEF RunsCoverMatch, Covered
    <3>4. \A n \in Match : n # m => run[n].phase = "idle"
      BY <1>1, <3>1, RunAt
    <3>5. UNCHANGED aggregate
      BY <3>1 DEF ClearScope, derivedVars
    <3>6. \A n \in Match : n # m => run'[n] = run[n]
      BY <1>0, <3>1 DEF ClearScope, TypeOK
    <3> QED BY <3>3, <3>4, <3>5, <3>6
  <2> QED BY <2>5, <2>6
<1> QED BY <1>2, <1>3

-----------------------------------------------------------------------------
(* MatchupsArePursued and GenerationIsPursued.                             *)

(* After the one failure nothing else fails. *)
LEMMA OnlyOneFault ==
  ASSUME OneFailureSetting, IInv, OwedInv, SettingStep
  PROVE  /\ \A kind \in FaultKind : Fault(kind) => faults = 0 /\ faults' = 1
         /\ faults = 1 =>
              /\ faults' = 1
              /\ \A w \in Writer : ~WriterLost(w)
              /\ \A m \in Match : ~JobError(m) /\ ~JobStalled(m) /\ ~FollowUpLost(m)
<1>1. faults \in Nat /\ MaxFaults \in Nat /\ MaxFaults <= 1
  BY ConstantsAssumption DEF IInv, TypeOK, OneFailureSetting
<1>2. \A kind \in FaultKind : Fault(kind) => faults = 0 /\ faults' = 1
  BY <1>1 DEF Fault
<1>5. ASSUME NEW m \in Match, NEW causes \in {0, 1}, NEW fatal \in BOOLEAN,
             FailAttempt(m, causes, fatal)
      PROVE  faults' <= 1 /\ faults' >= faults + causes
  BY <1>1, <1>5 DEF FailAttempt
<1>3. ASSUME faults = 1
      PROVE  /\ \A w \in Writer : ~WriterLost(w)
             /\ \A m \in Match : ~JobError(m) /\ ~JobStalled(m) /\ ~FollowUpLost(m)
  <2>1. \A kind \in FaultKind : ~Fault(kind)
    BY <1>1, <1>2, <1>3
  <2>2. ASSUME NEW m \in Match, NEW fatal \in BOOLEAN, FailAttempt(m, 1, fatal) PROVE FALSE
    <3>1. faults' <= 1 /\ faults' >= faults + 1
      BY <1>5, <2>2
    <3>2. faults' = faults + 1 \/ faults' = faults + 1 + 1
      BY <2>2 DEF FailAttempt
    <3> QED BY <1>3, <3>1, <3>2
  <2>3. \A m \in Match : ~JobError(m)
    BY <2>2 DEF JobError
  <2> QED BY <2>1, <2>3 DEF FaultKind, WriterLost, JobStalled, FollowUpLost
<1>4. ASSUME faults = 1 PROVE faults' = 1
  <2>2. ASSUME NEW m \in Match, ScopeMissing(m) PROVE UNCHANGED faults
    BY <1>1, <1>4, <1>5, <2>2 DEF ScopeMissing, FailAttempt
  <2>1. UNCHANGED faults
    BY <1>3, <1>4, <2>2 DEF SettingStep, IngestLoad, EnrichLoad, WriterStep, IngestPersist,
       IngestComplete, EnrichApply, UpsertRead, UpsertWrite, CheckJob, RemoveJob, AddJob, JobStep,
       StartJob, LoadScope, ReadMatch, FoldContributors, WriteRecalculation,
       ClearScope, BumpGeneration, ReadMatchups, DeleteMatchups, CreateMatchups, MatchupStep, FinishJob, FollowUpStep,
       FollowUpCheck, FollowUpRemove, FollowUpAdd
  <2> QED BY <1>4, <2>1
<1> QED BY <1>2, <1>3, <1>4

(* A failed attempt is retried, or leaves its mark. *)
LEMMA FailLeavesWork ==
  ASSUME IInv, NEW m \in Match, NEW causes \in {0, 1}, NEW fatal \in BOOLEAN,
         FailAttempt(m, causes, fatal), faults' = 1, faults + causes = 1
  PROVE  Owing(m)' \/ ToFail(m)'
<1>1. TypeOK
  BY DEF IInv
<1>2. CASE fatal \/ job[m].attempts + 1 >= MaxAttempts
  <2>1. marker'[m] = "FAILED"
    BY <1>1, <1>2 DEF FailAttempt, TypeOK
  <2> QED BY <2>1 DEF Owing
<1>3. CASE ~(fatal \/ job[m].attempts + 1 >= MaxAttempts)
  <2>1. job'[m].state = "waiting"
    BY <1>1, <1>3 DEF FailAttempt, TypeOK
  <2> QED BY <2>1 DEF ToFail
<1> QED BY <1>2, <1>3

(* A job to come comes, is removed by who will add it again, or fails. *)
LEMMA ToFailStays ==
  ASSUME OneFailureSetting, IInv, OwedInv, SettingStep, NEW m \in Match, ToFail(m)
  PROVE  ToFail(m)' \/ Owing(m)'
<1>0. TypeOK /\ RunsAreOrderly /\ faults = 1
  BY DEF IInv, OwedInv, ToFail
<1>1. /\ faults' = 1 /\ \A w \in Writer : ~WriterLost(w)
      /\ ~JobError(m) /\ ~JobStalled(m) /\ ~FollowUpLost(m)
  BY <1>0, OnlyOneFault
<1>a. /\ job[m] \in JobType /\ job \in [Match -> JobType]
      /\ run[m] \in RunType /\ run \in [Match -> RunType]
      /\ follow \in [Match -> {"none", "check", "remove", "add"}]
  BY <1>0 DEF TypeOK
<1>2. ASSUME NEW w \in Writer, RemoveJob(w), writer[w].match = m, job[m].state # "active"
      PROVE  ToFail(m)'
  <2>1. job'[m] = NoJob /\ Goto(w, "add")
    BY <1>a, <1>2 DEF RemoveJob
  <2>2. writer'[w].pc = "add" /\ writer'[w].match = m
    BY <1>0, <1>2, <2>1, GotoFields
  <2> QED BY <1>1, <2>1, <2>2 DEF ToFail, NoJob
<1>3. ASSUME NEW w \in Writer, AddJob(w), writer[w].match = m
      PROVE  job'[m] = IF job[m] = NoJob THEN [NoJob EXCEPT !.state = "waiting"] ELSE job[m]
  BY <1>a, <1>3 DEF AddJob, Enqueue
<1>4. ASSUME FollowUpAdd(m)
      PROVE  job'[m] = IF job[m] = NoJob THEN [NoJob EXCEPT !.state = "waiting"] ELSE job[m]
  BY <1>a, <1>4 DEF FollowUpAdd, Enqueue
<1>5. ASSUME FollowUpRemove(m), job[m].state # "active"
      PROVE  ToFail(m)'
  <2>1. job'[m] = NoJob /\ follow'[m] = "add"
    BY <1>a, <1>5 DEF FollowUpRemove
  <2> QED BY <1>1, <2>1 DEF ToFail, NoJob
<1>6. CASE job[m].state = "waiting"
  <2>1. run[m].phase = "idle"
    BY <1>0, <1>6 DEF RunsAreOrderly
  <2>2. job[m] # NoJob
    BY <1>6 DEF NoJob
  <2>3. ASSUME StartJob(m) PROVE ToFail(m)'
    <3>1. run'[m].phase = "load"
      BY <1>a, <2>3 DEF StartJob, Advance, RunType
    <3> QED BY <1>1, <3>1 DEF ToFail
  <2>4. ASSUME job'[m] = job[m] PROVE ToFail(m)'
    BY <1>1, <1>6, <2>4 DEF ToFail
  <2>5. ASSUME JobStep(m) \/ FollowUpStep(m) \/ JobError(m) \/ JobStalled(m) \/ FollowUpLost(m)
        PROVE  ToFail(m)'
    <3>1. JobStep(m) => StartJob(m)
      BY <2>1 DEF JobStep, LoadScope, ScopeMissing, ReadMatch, FoldContributors,
            WriteRecalculation, ClearScope, BumpGeneration, ReadMatchups, DeleteMatchups, CreateMatchups, MatchupStep, FinishJob
    <3>2. FollowUpCheck(m) => job'[m] = job[m]
      BY DEF FollowUpCheck
    <3>3. FollowUpAdd(m) => job'[m] = job[m]
      BY <1>4, <2>2
    <3>4. FollowUpRemove(m) => ToFail(m)'
      BY <1>5, <1>6
    <3>5. FollowUpStep(m) => ToFail(m)'
      BY <2>4, <3>2, <3>3, <3>4 DEF FollowUpStep
    <3>6. JobStep(m) => ToFail(m)'
      BY <2>3, <3>1
    <3>7. JobStep(m) \/ FollowUpStep(m)
      BY <1>1, <2>5
    <3> QED BY <3>5, <3>6, <3>7
  <2>6. ASSUME NEW w \in Writer, WriterStep(w), ~LinkApply(w), writer[w].match = m
        PROVE  ToFail(m)'
    <3>1. ~RemoveJob(w) /\ ~AddJob(w) => job' = job
      BY <2>6 DEF WriterStep, IngestPersist, IngestComplete, EnrichApply, UpsertRead,
                  UpsertWrite, CheckJob
    <3> QED BY <1>2, <1>3, <1>6, <2>2, <2>4, <2>6, <3>1
  <2>7. ASSUME UNCHANGED Affairs(m) PROVE ToFail(m)'
    BY <2>4, <2>7 DEF Affairs
  <2> QED BY <1>0, <1>1, <2>5, <2>6, <2>7, ElsewhereByBackground, ElsewhereByWriter,
         ElsewhereByTrigger
          DEF SettingStep
<1>7. CASE run[m].phase = "load"
  <2>1. CASE run'[m] = run[m]
    BY <1>1, <1>7, <2>1 DEF ToFail
  <2>2. CASE LoadScope(m)
    <3>1. scope'[m] # None
      BY <2>2 DEF LoadScope
    <3> QED BY <3>1 DEF Owing
  <2>3. CASE ScopeMissing(m)
    <3>1. FailAttempt(m, 0, FALSE)
      BY <2>3 DEF ScopeMissing
    <3>2. faults + 0 = 1 /\ faults' = 1
      BY <1>0, <1>1
    <3> QED BY <3>1, <3>2, FailLeavesWork
  <2>4. CASE run'[m] # run[m]
    <3>1. ~UNCHANGED run /\ ~UNCHANGED Affairs(m)
      BY <2>4 DEF Affairs
    <3>2. JobStep(m) \/ FollowUpStep(m)
      BY <1>0, <1>1, <3>1, RunsByWriter, ElsewhereByBackground DEF SettingStep
    <3>3. ~FollowUpStep(m)
      BY <3>1 DEF FollowUpStep, FollowUpCheck, FollowUpRemove, FollowUpAdd
    <3>4. job[m].state = "active"
      BY <1>0, <1>7 DEF RunsAreOrderly
    <3>5. LoadScope(m) \/ ScopeMissing(m)
      BY <1>7, <3>2, <3>3, <3>4 DEF JobStep, StartJob, ReadMatch, FoldContributors,
            WriteRecalculation, ClearScope, BumpGeneration, ReadMatchups, DeleteMatchups, CreateMatchups, MatchupStep, FinishJob
    <3> QED BY <2>2, <2>3, <3>5
  <2> QED BY <2>1, <2>4
<1>8. CASE /\ job[m] = NoJob
           /\ follow[m] = "add" \/ \E w \in Writer : writer[w].match = m /\ writer[w].pc = "add"
  <2>1. run[m].phase = "idle" /\ job[m].state = "none"
    BY <1>0, <1>8 DEF RunsAreOrderly, NoJob
  <2>2. [NoJob EXCEPT !.state = "waiting"].state = "waiting"
    BY DEF NoJob
  <2>3. ASSUME NEW w \in Writer, AddJob(w), writer[w].match = m PROVE ToFail(m)'
    BY <1>1, <1>3, <1>8, <2>2, <2>3 DEF ToFail
  <2>4. ASSUME FollowUpAdd(m) PROVE ToFail(m)'
    BY <1>1, <1>4, <1>8, <2>2, <2>4 DEF ToFail
  <2>5. ASSUME \A w \in Writer : AddJob(w) => writer[w].match # m
        PROVE  \A w \in Writer : writer[w].match = m
                             /\ writer[w].pc = "add" => writer'[w] = writer[w]
    BY <1>1, <2>5, AddsByStep
  <2>6. ASSUME job'[m] = job[m], ~FollowUpAdd(m),
               \A w \in Writer : AddJob(w) => writer[w].match # m,
               follow[m] = "add" => follow'[m] = "add"
        PROVE  ToFail(m)'
    BY <1>1, <1>8, <2>5, <2>6 DEF ToFail, NoJob
  <2>7. ~JobStep(m)
    BY <2>1 DEF JobStep, StartJob, LoadScope, ScopeMissing, ReadMatch, FoldContributors,
            WriteRecalculation, ClearScope, BumpGeneration, ReadMatchups, DeleteMatchups, CreateMatchups, MatchupStep, FinishJob
  <2>8. ASSUME FollowUpStep(m), \A w \in Writer : AddJob(w) => writer[w].match # m
        PROVE  ToFail(m)'
    <3>1. FollowUpCheck(m) => job'[m] = job[m] /\ follow[m] # "add" /\ ~FollowUpAdd(m)
      BY DEF FollowUpCheck, FollowUpAdd
    <3> QED BY <1>5, <2>1, <2>4, <2>6, <2>8, <3>1 DEF FollowUpStep
  <2>9. ASSUME NEW w \in Writer, WriterStep(w), ~LinkApply(w), writer[w].match = m
        PROVE  ToFail(m)'
    <3>1. CASE RemoveJob(w)
      BY <1>2, <2>1, <2>9, <3>1
    <3>2. CASE AddJob(w)
      BY <2>3, <2>9, <3>2
    <3>3. CASE ~RemoveJob(w) /\ ~AddJob(w)
      <4>1. job' = job /\ follow' = follow
        BY <2>9, <3>3 DEF WriterStep, IngestPersist, IngestComplete, EnrichApply, UpsertRead,
                  UpsertWrite, CheckJob
      <4> QED BY <2>3, <2>4, <2>6, <4>1
    <3> QED BY <3>1, <3>2, <3>3
  <2>10. ASSUME UNCHANGED Affairs(m) PROVE ToFail(m)'
    BY <2>3, <2>4, <2>6, <2>10 DEF Affairs
  <2> QED BY <1>0, <1>1, <2>3, <2>7, <2>8, <2>9, <2>10, ElsewhereByBackground,
         ElsewhereByWriter, ElsewhereByTrigger
          DEF SettingStep
<1> QED BY <1>6, <1>7, <1>8 DEF ToFail

(* The matchups of a match change with its rows, which it then owes, and with
   the two steps of a run. *)
LEMMA MatchupsOfByStep ==
  ASSUME OneFailureSetting, IInv, OwedInv, SettingStep, NEW m \in Match
  PROVE  \/ matchup'[m] = matchup[m]
         \/ Owing(m)'
         \/ ReadMatchups(m)
         \/ DeleteMatchups(m) \/ CreateMatchups(m)
<1>0. TypeOK /\ IngestionsGoOn
  BY DEF IInv, OwedInv
<1>1. ASSUME NEW n \in Match, JobStep(n) \/ FollowUpStep(n) \/ JobError(n) \/ JobStalled(n)
                                 \/ FollowUpLost(n)
      PROVE  matchup'[m] = matchup[m] \/ ReadMatchups(m) \/ DeleteMatchups(m) \/ CreateMatchups(m)
  <2>1. CASE n = m
    <3>1. CASE ReadMatchups(m) \/ DeleteMatchups(m) \/ CreateMatchups(m)
      BY <3>1
    <3>2. CASE ~(ReadMatchups(m) \/ DeleteMatchups(m) \/ CreateMatchups(m))
      BY <1>1, <2>1, <3>2 DEF JobStep, StartJob, LoadScope, ScopeMissing, FailAttempt, ReadMatch,
         FoldContributors, WriteRecalculation, ClearScope, BumpGeneration, FinishJob, FollowUpStep,
         FollowUpCheck, FollowUpRemove, FollowUpAdd, JobError, JobStalled, FollowUpLost, derivedVars
    <3> QED BY <3>1, <3>2
  <2>2. CASE n # m
    BY <1>0, <1>1, <2>2, ElsewhereByBackground DEF Affairs
  <2> QED BY <2>1, <2>2
<1>2. ASSUME NEW w \in Writer, WriterStep(w), ~LinkApply(w)
      PROVE  matchup'[m] = matchup[m] \/ Owing(m)'
  <2>1. CASE writer[w].match # m
    BY <1>0, <1>2, <2>1, ElsewhereByWriter DEF Affairs
  <2>2. CASE IngestPersist(w) /\ writer[w].match = m
    <3>1. status[m] = "NONE"
      BY <2>2, WriterAt DEF OwedInv, WritersAreOrderly, IngestIsOrderly, IngestPersist
    <3>2. marker'[m] = "NONE"
      BY <1>0, <2>2, <3>1 DEF IngestionsGoOn, IngestPersist
    <3> QED BY <3>2 DEF Owing
  <2>3. CASE EnrichApply(w) /\ writer[w].match = m
    <3>1. Goto(w, "upsertRead")
      BY <2>3 DEF EnrichApply
    <3>2. Announces(w, m)'
      BY <1>0, <2>3, <3>1, GotoFields DEF Announces
    <3> QED BY <3>2 DEF Owing
  <2>4. CASE ~IngestPersist(w) /\ ~EnrichApply(w)
    BY <1>2, <2>4 DEF WriterStep, IngestComplete, UpsertRead, UpsertWrite, CheckJob, RemoveJob,
       AddJob, derivedVars
  <2> QED BY <2>1, <2>2, <2>3, <2>4
<1>3. ASSUME NEW w \in Writer, WriterLost(w) PROVE matchup' = matchup
  BY <1>3 DEF WriterLost, derivedVars
<1> QED BY <1>1, <1>2, <1>3, ElsewhereByTrigger DEF SettingStep, Affairs

(* After its clear a run goes on to its end, or fails and is retried. *)
LEMMA LateRunByStep ==
  ASSUME OneFailureSetting, IInv, OwedInv, SettingStep, NEW m \in Match,
         run[m].phase \in {"bump", "matchup", "matchupDelete", "matchupCreate"}
  PROVE  \/ run'[m] = run[m]
         \/ BumpGeneration(m) \/ ReadMatchups(m) \/ DeleteMatchups(m) \/ CreateMatchups(m)
         \/ Owing(m)' \/ ToFail(m)'
<1>0. TypeOK /\ RunsAreOrderly
  BY DEF IInv, OwedInv
<1>1. job[m].state = "active"
  BY RunAt
<1>2. ASSUME JobError(m) PROVE Owing(m)' \/ ToFail(m)'
  <2>1. PICK fatal \in BOOLEAN : FailAttempt(m, 1, fatal)
    BY <1>2 DEF JobError
  <2>3. faults \in Nat /\ MaxFaults \in Nat /\ MaxFaults <= 1
    BY <1>0, ConstantsAssumption DEF TypeOK, OneFailureSetting
  <2>4. faults' <= MaxFaults /\ (faults' = faults + 1 \/ faults' = faults + 1 + 1)
    BY <2>1 DEF FailAttempt
  <2>2. faults = 0 /\ faults' = 1
    BY <2>3, <2>4
  <2> QED BY <2>1, <2>2, FailLeavesWork
<1>3. ASSUME JobStalled(m) PROVE ToFail(m)'
  <2>1. faults = 0 /\ faults' = 1
    BY <1>3, OnlyOneFault DEF JobStalled, FaultKind
  <2>2. job[m].stalls < MaxStalls
    BY <1>0, <2>1, ConstantsAssumption DEF RunsAreOrderly, OneFailureSetting, TypeOK, JobType
  <2>3. job'[m].state = "waiting"
    BY <1>0, <1>3, <2>2 DEF JobStalled, TypeOK
  <2> QED BY <2>1, <2>3 DEF ToFail
<1>4. ASSUME JobStep(m) PROVE BumpGeneration(m) \/ ReadMatchups(m) \/ DeleteMatchups(m) \/ CreateMatchups(m)
  BY <1>1, <1>4 DEF JobStep, StartJob, LoadScope, ScopeMissing, ReadMatch, FoldContributors,
     WriteRecalculation, ClearScope, FinishJob
<1>5. ASSUME FollowUpStep(m) \/ FollowUpLost(m) PROVE run'[m] = run[m]
  BY <1>5 DEF FollowUpStep, FollowUpCheck, FollowUpRemove, FollowUpAdd, FollowUpLost
<1>6. ASSUME NEW n \in Match, n # m,
             JobStep(n) \/ FollowUpStep(n) \/ JobError(n) \/ JobStalled(n) \/ FollowUpLost(n)
      PROVE  run'[m] = run[m]
  BY <1>0, <1>6, ElsewhereByBackground DEF Affairs
<1>7. ASSUME NEW n \in Match,
             JobStep(n) \/ FollowUpStep(n) \/ JobError(n) \/ JobStalled(n) \/ FollowUpLost(n)
      PROVE  \/ run'[m] = run[m]
             \/ BumpGeneration(m) \/ ReadMatchups(m) \/ DeleteMatchups(m) \/ CreateMatchups(m)
             \/ Owing(m)' \/ ToFail(m)'
  BY <1>2, <1>3, <1>4, <1>5, <1>6, <1>7
<1>8. ASSUME NEW w \in Writer,
             \/ \E n \in Match : IngestLoad(w, n)
             \/ \E p \in Participant : EnrichLoad(w, p)
             \/ WriterStep(w) /\ ~LinkApply(w)
             \/ WriterLost(w)
      PROVE  run'[m] = run[m]
  BY <1>8, RunsByWriter
<1> QED BY <1>7, <1>8 DEF SettingStep

(* What the steps of a run after its clear do to it. *)
LEMMA LateRunFields ==
  ASSUME TypeOK, NEW m \in Match
  PROVE  /\ BumpGeneration(m) =>
              /\ run[m].phase = "bump" /\ ~owed' /\ matchup' = matchup
              /\ run[m].eligible => run'[m].phase = "matchup" /\ run'[m].eligible
         /\ ReadMatchups(m) =>
              /\ run[m].phase = "matchup"
              /\ Eligible(m) => matchup'[m] = "read" /\ run'[m].phase = "matchupDelete"
              /\ ~Eligible(m) => matchup'[m] = matchup[m]
         /\ DeleteMatchups(m) =>
              /\ run[m].phase = "matchupDelete" /\ run'[m].phase = "matchupCreate"
              /\ matchup'[m] = IF matchup[m] = "read" THEN "deleted" ELSE matchup[m]
         /\ CreateMatchups(m) =>
              /\ run[m].phase = "matchupCreate"
              /\ matchup'[m] = IF matchup[m] = "deleted" THEN "current" ELSE matchup[m]
<1>1. /\ run \in [Match -> RunType] /\ run[m] \in RunType
      /\ matchup \in [Match -> MatchupState]
  BY DEF TypeOK
<1>2. ASSUME NEW phase, Advance(m, phase)
      PROVE  run'[m].phase = phase /\ run'[m].eligible = run[m].eligible
  BY <1>1, <1>2 DEF Advance, RunType
<1>3. ASSUME BumpGeneration(m)
      PROVE  /\ run[m].phase = "bump" /\ ~owed' /\ matchup' = matchup
             /\ run[m].eligible => run'[m].phase = "matchup" /\ run'[m].eligible
  BY <1>2, <1>3 DEF BumpGeneration, AfterBump
<1>4. ASSUME ReadMatchups(m)
      PROVE  /\ run[m].phase = "matchup"
             /\ Eligible(m) => matchup'[m] = "read" /\ run'[m].phase = "matchupDelete"
             /\ ~Eligible(m) => matchup'[m] = matchup[m]
  <2>1. CASE Eligible(m)
    BY <1>1, <1>2, <1>4, <2>1 DEF ReadMatchups
  <2>2. CASE ~Eligible(m)
    BY <1>4, <2>2 DEF ReadMatchups
  <2> QED BY <2>1, <2>2
<1>5. ASSUME DeleteMatchups(m)
      PROVE  /\ run[m].phase = "matchupDelete" /\ run'[m].phase = "matchupCreate"
             /\ matchup'[m] = IF matchup[m] = "read" THEN "deleted" ELSE matchup[m]
  BY <1>1, <1>2, <1>5 DEF DeleteMatchups, MatchupStep
<1>6. ASSUME CreateMatchups(m)
      PROVE  /\ run[m].phase = "matchupCreate"
             /\ matchup'[m] = IF matchup[m] = "deleted" THEN "current" ELSE matchup[m]
  BY <1>1, <1>6 DEF CreateMatchups, MatchupStep
<1> QED BY <1>3, <1>4, <1>5, <1>6

(* Stale matchups stay pursued. *)
LEMMA MatchupsByStep ==
  ASSUME OneFailureSetting, IInv, OwedInv, SettingStep
  PROVE  MatchupsArePursued'
<1>0. TypeOK /\ RunsAreOrderly /\ MatchupsArePursued
  BY DEF IInv, OwedInv
<1> SUFFICES ASSUME NEW m \in Match, matchup'[m] # "current"
             PROVE  \/ Owing(m)' \/ ToFail(m)'
                    \/ run'[m].eligible /\ run'[m].phase \in {"bump", "matchup"}
                    \/ run'[m].phase = "matchupDelete" /\ matchup'[m] = "read"
                    \/ run'[m].phase = "matchupCreate" /\ matchup'[m] = "deleted"
  BY DEF MatchupsArePursued
<1>1. ASSUME ~Eligible(m) PROVE ~(run[m].eligible /\ run[m].phase \in {"bump", "matchup"})
  BY <1>0, <1>1, OneRowPerMatch DEF RunsAreOrderly
<1>2. ASSUME Owing(m) \/ ToFail(m)
      PROVE  Owing(m)' \/ ToFail(m)' \/ (run'[m].eligible /\ run'[m].phase = "bump")
  BY <1>2, OwingStays, ToFailStays
<1>3. CASE ReadMatchups(m) /\ Eligible(m)
  BY <1>0, <1>3, LateRunFields
<1>4. CASE Owing(m)' \/ ToFail(m)'
  BY <1>4
<1>5. CASE DeleteMatchups(m) \/ CreateMatchups(m)
  BY <1>0, <1>2, <1>5, LateRunFields DEF MatchupsArePursued
<1>6. CASE /\ ~DeleteMatchups(m) /\ ~CreateMatchups(m) /\ ~(ReadMatchups(m) /\ Eligible(m))
           /\ ~Owing(m)' /\ ~ToFail(m)'
  <2>1. matchup'[m] = matchup[m]
    BY <1>0, <1>6, MatchupsOfByStep, LateRunFields
  <2>2. CASE Owing(m) \/ ToFail(m)
    BY <1>2, <2>2
  <2>3. CASE run[m].eligible /\ run[m].phase \in {"bump", "matchup"}
    <3>1. Eligible(m)
      BY <1>1, <2>3
    <3>2. run'[m] = run[m] \/ BumpGeneration(m)
      BY <1>6, <2>3, <3>1, LateRunByStep
    <3> QED BY <1>0, <2>3, <3>2, LateRunFields
  <2>4. CASE \/ run[m].phase = "matchupDelete" /\ matchup[m] = "read"
             \/ run[m].phase = "matchupCreate" /\ matchup[m] = "deleted"
    <3>1. run'[m] = run[m]
      BY <1>0, <1>6, <2>4, LateRunByStep, LateRunFields
    <3> QED BY <2>1, <2>4, <3>1
  <2> QED BY <1>0, <2>1, <2>2, <2>3, <2>4 DEF MatchupsArePursued
<1> QED BY <1>3, <1>4, <1>5, <1>6

(* Rows the generation does not know of stay pursued. *)
LEMMA GenerationByStep ==
  ASSUME OneFailureSetting, IInv, OwedInv, SettingStep
  PROVE  GenerationIsPursued'
<1>0. TypeOK /\ RunsAreOrderly /\ GenerationIsPursued
  BY DEF IInv, OwedInv
<1> SUFFICES ASSUME owed'
             PROVE  \E m \in Match : /\ status'[m] # "NONE"
                                     /\ Owing(m)' \/ ToFail(m)' \/ run'[m].phase = "bump"
  BY DEF GenerationIsPursued
<1>1. ASSUME NEW m \in Match, status[m] # "NONE" PROVE status'[m] # "NONE"
  BY <1>0, <1>1, RowSteps DEF TypeOK
<1>2. ASSUME NEW n \in Match, WriteRecalculation(n)
      PROVE  status'[n] # "NONE" /\ Owing(n)'
  <2>1. run[n].phase = "write" /\ scope' = scope
    BY <1>2 DEF WriteRecalculation
  <2>2. scope'[n] # None /\ status[n] # "NONE"
    BY <1>0, <2>1, RunAt DEF RunsAreOrderly
  <2> QED BY <1>1, <2>2 DEF Owing
<1>3. ASSUME \A n \in Match : ~WriteRecalculation(n) PROVE owed
  <2>1. ASSUME NEW n \in Match, JobStep(n) \/ FollowUpStep(n) \/ JobError(n) \/ JobStalled(n)
                                 \/ FollowUpLost(n)
        PROVE  owed
    BY <1>3, <2>1 DEF JobStep, StartJob, LoadScope, ScopeMissing, FailAttempt, ReadMatch,
       FoldContributors, ClearScope, BumpGeneration, ReadMatchups, DeleteMatchups, CreateMatchups, MatchupStep, FinishJob,
       FollowUpStep, FollowUpCheck, FollowUpRemove, FollowUpAdd, JobError, JobStalled,
       FollowUpLost, derivedVars
  <2>2. ASSUME NEW w \in Writer,
               \/ \E n \in Match : IngestLoad(w, n)
               \/ \E p \in Participant : EnrichLoad(w, p)
               \/ WriterStep(w) /\ ~LinkApply(w)
               \/ WriterLost(w)
        PROVE  owed
    BY <2>2, RunsByWriter
  <2> QED BY <2>1, <2>2 DEF SettingStep
<1>4. CASE owed
  <2>1. PICK m \in Match : /\ status[m] # "NONE"
                           /\ Owing(m) \/ ToFail(m) \/ run[m].phase = "bump"
    BY <1>0, <1>4 DEF GenerationIsPursued
  <2>2. ASSUME run[m].phase = "bump" PROVE Owing(m)' \/ ToFail(m)' \/ run'[m].phase = "bump"
    BY <1>0, <2>2, LateRunByStep, LateRunFields
  <2>3. Owing(m)' \/ ToFail(m)' \/ run'[m].phase = "bump"
    BY <2>1, <2>2, OwingStays, ToFailStays
  <2> QED BY <1>1, <2>1, <2>3
<1> QED BY <1>2, <1>3, <1>4

-----------------------------------------------------------------------------
(* The theorem.                                                            *)

(* Before anything has happened nothing is owed. *)
LEMMA InitOwed ==
  ASSUME Init
  PROVE  OwedInv
<1>1. /\ \A m \in Match : /\ status[m] = "NONE" /\ matchup[m] = "current" /\ scope[m] = None
                          /\ marker[m] = "NONE" /\ job[m] = NoJob /\ run[m] = IdleRun
                          /\ follow[m] = "none"
      /\ \A w \in Writer : writer[w] = IdleWriter
      /\ \A k \in Key : aggregate[k] = {}
      /\ faults = 0 /\ owed = FALSE
  BY DEF Init, EmptyFold
<1>2. \A p \in Participant : MatchOf[p] \in Match
  BY ConstantsAssumption
<1>3. WritersAreOrderly
  BY <1>1 DEF WritersAreOrderly, WriterIsPlaced, IngestIsOrderly, EnrichIsOrderly, IdleWriter
<1>4. IngestionsGoOn /\ KeysAreAnnounced /\ RunsCoverMatch
  <2>1. IngestionsGoOn
    BY <1>1 DEF IngestionsGoOn
  <2>2. KeysAreAnnounced
    BY <1>1, <1>2 DEF KeysAreAnnounced
  <2>3. RunsCoverMatch
    BY <1>1, <1>2 DEF RunsCoverMatch, IdleRun
  <2> QED BY <2>1, <2>2, <2>3
<1>5. RunsAreOrderly /\ NothingExtra
  BY <1>1 DEF RunsAreOrderly, NothingExtra, IdleRun, NoJob
<1>6. AggregatesCatchUp
  BY <1>1, <1>2 DEF AggregatesCatchUp, Eligible
<1>7. MatchupsArePursued /\ GenerationIsPursued
  BY <1>1 DEF MatchupsArePursued, GenerationIsPursued
<1> QED BY <1>3, <1>4, <1>5, <1>6, <1>7 DEF OwedInv

(* A step that changes nothing owes nothing more. *)
LEMMA StutterOwed ==
  ASSUME OwedInv, UNCHANGED vars
  PROVE  OwedInv'
<1>1. UNCHANGED <<status, slot, rank, aggregate, matchup, owed, scope, marker, job, run, follow,
                  writer, faults>>
  BY DEF vars, rowVars, derivedVars
<1>2. \A p \in Participant : ContributedKeys(p)' = ContributedKeys(p) /\ AllKey(p)' = AllKey(p)
  BY <1>1 DEF ContributedKeys, AllKey
<1>3. \A m \in Match : /\ Eligible(m)' = Eligible(m) /\ PendingKeys(m)' = PendingKeys(m)
                       /\ Owing(m)' = Owing(m) /\ ToFail(m)' = ToFail(m)
  BY <1>1 DEF Eligible, PendingKeys, Owing, ToFail, Announces
<1>4. \A k \in Key : Contributors(k)' = Contributors(k)
  BY <1>1 DEF Contributors, ContributedKeys, Eligible
<1>5. WritersAreOrderly' /\ IngestionsGoOn' /\ RunsAreOrderly'
  BY <1>1 DEF OwedInv, WritersAreOrderly, WriterIsPlaced, IngestIsOrderly, EnrichIsOrderly, AllKey,
              IngestionsGoOn, Ingests, RunsAreOrderly
<1>6. KeysAreAnnounced'
  BY <1>1 DEF OwedInv, KeysAreAnnounced, Ingests, Enriches, PendingKeys, AllKey
<1>7. RunsCoverMatch'
  BY <1>1 DEF OwedInv, RunsCoverMatch, Covered, ContributedKeys, Enriches, AllKey
<1>8. AggregatesCatchUp' /\ NothingExtra'
  <2>1. \A p \in Participant : MatchOf[p] \in Match
    BY ConstantsAssumption
  <2>2. AggregatesCatchUp'
    BY <1>1, <1>2, <1>3, <2>1 DEF OwedInv, AggregatesCatchUp
  <2>3. NothingExtra'
    BY <1>1, <1>4 DEF OwedInv, NothingExtra
  <2> QED BY <2>2, <2>3
<1>9. MatchupsArePursued' /\ GenerationIsPursued'
  BY <1>1, <1>3 DEF OwedInv, MatchupsArePursued, GenerationIsPursued
<1> QED BY <1>5, <1>6, <1>7, <1>8, <1>9 DEF OwedInv

(* Every step of the setting keeps what is owed found. *)
LEMMA NextOwed ==
  ASSUME OneFailureSetting, IInv, OwedInv, [Next]_vars
  PROVE  OwedInv'
<1>1. CASE Next
  <2>1. SettingStep
    BY <1>1, OnlySettingSteps
  <2> QED BY <2>1, OrderlyByStep, IngestionsByStep, KeysByStep, RunsByStep, CoverByStep,
             CatchUpByStep, NothingExtraByStep,
             MatchupsByStep, GenerationByStep DEF OwedInv
<1>2. CASE UNCHANGED vars
  BY <1>2, StutterOwed
<1> QED BY <1>1, <1>2

(* Once everything has settled, what is owed is what reconcile looks for. *)
LEMMA OwedImplies ==
  ASSUME OneFailureSetting, IInv, OwedInv
  PROVE  WhatIsOwedIsReconcilable
<1> SUFFICES ASSUME Quiescent
             PROVE  /\ \A k \in Key : Stale(k) => Repairable(k)
                    /\ \A m \in Match : matchup[m] # "current" => NeedsReconcile(m)
                    /\ owed => \E m \in Match : NeedsReconcile(m)
  BY DEF WhatIsOwedIsReconcilable, StaleIsReconcilable, EffectsAreReconcilable
<1>0. TypeOK /\ RunsAreOrderly
  BY DEF IInv, OwedInv
<1>1. ASSUME NEW m \in Match
      PROVE  /\ run[m].phase = "idle" /\ ~ToFail(m)
             /\ Owing(m) => scope[m] # None \/ marker[m] # "COMPLETED"
             /\ status[m] # "NONE" => Eligible(m)
  <2>1. job[m].state \notin {"waiting", "active"} /\ follow[m] = "none" /\ status[m] # "IN_PROGRESS"
    BY DEF Quiescent, Live
  <2>2. \A w \in Writer : writer[w].pc = "idle"
    BY DEF Quiescent
  <2>3. run[m].phase = "idle"
    BY <1>0, <2>1 DEF RunsAreOrderly
  <2>4. ~ToFail(m) /\ (Owing(m) => scope[m] # None \/ marker[m] # "COMPLETED")
    BY <2>1, <2>2, <2>3 DEF ToFail, Owing, Announces
  <2>5. status[m] # "NONE" => Eligible(m)
    BY <1>0, <2>1, OneRowPerMatch DEF TypeOK
  <2> QED BY <2>3, <2>4, <2>5
<1>2. ASSUME NEW m \in Match, status[m] # "NONE", Owing(m) PROVE NeedsReconcile(m)
  BY <1>1, <1>2 DEF NeedsReconcile
<1>3. ASSUME NEW k \in Key, Stale(k) PROVE Repairable(k)
  <2>1. PICK p \in Contributors(k) : p \notin aggregate[k]
    BY <1>3 DEF OwedInv, NothingExtra, Stale
  <2>2. p \in Participant /\ Eligible(MatchOf[p]) /\ k \in ContributedKeys(p)
    BY <2>1 DEF Contributors
  <2>3. MatchOf[p] \in Match /\ Owing(MatchOf[p])
    BY <2>1, <2>2, OneRowPerMatch DEF OwedInv, AggregatesCatchUp
  <2>4. NeedsReconcile(MatchOf[p])
    BY <1>1, <2>2, <2>3 DEF NeedsReconcile
  <2>5. k \in CurrentKeys(MatchOf[p])
    BY <2>2, KeysOfOneRow DEF CurrentKeys
  <2> QED BY <2>3, <2>4, <2>5 DEF Repairable
<1>4. ASSUME NEW m \in Match, matchup[m] # "current" PROVE NeedsReconcile(m)
  <2>1. status[m] # "NONE"
    BY <1>4 DEF OwedInv, IngestionsGoOn
  <2>2. Owing(m)
    BY <1>1, <1>4 DEF OwedInv, MatchupsArePursued
  <2> QED BY <1>2, <2>1, <2>2
<1>5. ASSUME owed PROVE \E m \in Match : NeedsReconcile(m)
  <2>1. PICK m \in Match : status[m] # "NONE" /\ (Owing(m) \/ ToFail(m) \/ run[m].phase = "bump")
    BY <1>5 DEF OwedInv, GenerationIsPursued
  <2> QED BY <1>1, <1>2, <2>1
<1> QED BY <1>3, <1>4, <1>5

(* Whatever fails once, nothing is stale or left undone for good: when the
   system has settled, every stale aggregate and matchup, and every write the
   cache generation has not announced, belongs to a match that the reconcile
   CLI picks up. For every number of matches, slots, tiers, concurrent
   executions, triggers, attempts and stalled recoveries of the setting.    *)
THEOREM OwedReconcilable ==
  ASSUME OneFailureSetting
  PROVE  Spec => []WhatIsOwedIsReconcilable
<1>1. Init => OwedInv
  BY InitOwed
<1>2. IInv /\ OwedInv /\ [Next]_vars => OwedInv'
  BY NextOwed
<1>3. IInv /\ OwedInv => WhatIsOwedIsReconcilable
  BY OwedImplies
<1> QED BY <1>1, <1>2, <1>3, Inductive, PTL DEF Spec
=============================================================================
