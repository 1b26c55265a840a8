------------------------ MODULE MatchIngestionProofs ------------------------
(***************************************************************************)
(* No match is stranded and no follow-up forgotten, for every set of       *)
(* players, executions and commands, any number of attempts, stalls and    *)
(* failures: a record that no repair command looks for and no job stands   *)
(* behind belongs to a match with which everything is done.                *)
(***************************************************************************)
EXTENDS MatchIngestion, TLAPS

(* Searchers are players of the match. *)
LEMMA SearchersArePlayers == Searcher \subseteq Puuid
BY ConstantsAssumption

(* What is idle has its type. *)
LEMMA IdleTyped == /\ NoRun \in RunType /\ NoSearch \in SearchType /\ NoCommand \in CommandType
                   /\ NoJob \in JobType
<1>1. 0 \in 0 .. MaxAttempts - 1 /\ 0 \in 0 .. MaxStalls
  BY ConstantsAssumption
<1> QED
  BY <1>1 DEF NoRun, RunType, RunPc, Failure, NoSearch, SearchType, SearchPc, NoCommand,
              CommandType, CommandPc, NoJob, JobType

(* An idle execution. *)
LEMMA NoRunIsIdle == NoRun.pc = "idle" /\ NoRun.how = "none"
BY DEF NoRun

(* Linking what is not linked yet keeps the type of the links. *)
LEMMA LinkMissingTyped ==
  ASSUME TypeOK, NEW accounts
  PROVE  LinkMissing(accounts) \in [Slot -> Puuid \cup {None}]
<1>1. ASSUME NEW s \in Slot, rows # None PROVE rows[s] \in Puuid
  BY <1>1 DEF TypeOK
<1> QED BY <1>1 DEF TypeOK, LinkMissing

(* Failures are counted. *)
LEMMA FaultTyped ==
  ASSUME TypeOK, NEW kind, Fault(kind)
  PROVE  faults' \in 0 .. MaxFaults
<1>1. MaxFaults \in Nat
  BY ConstantsAssumption
<1> QED BY <1>1 DEF TypeOK, Fault

(* An execution that goes on. *)
LEMMA RunGoes ==
  ASSUME TypeOK, NEW w \in Worker, NEW pc \in RunPc, RunGoto(w, pc)
  PROVE  /\ run' \in [Worker -> RunType]
         /\ run'[w].pc = pc /\ run'[w].how = run[w].how
         /\ run'[w].made = run[w].made
         /\ \A u \in Worker \ {w} : run'[u] = run[u]
<1>1. run \in [Worker -> RunType] /\ run[w] \in RunType
  BY DEF TypeOK
<1>2. [run[w] EXCEPT !.pc = pc] \in RunType
  BY <1>1 DEF RunType
<1>3. run' = [run EXCEPT ![w] = [run[w] EXCEPT !.pc = pc]]
  BY <1>1 DEF RunGoto
<1> QED BY <1>1, <1>2, <1>3 DEF RunType

(* An execution that throws. *)
LEMMA RunThrows ==
  ASSUME TypeOK, NEW w \in Worker, NEW how \in Failure, Throws(w, how)
  PROVE  /\ run' \in [Worker -> RunType]
         /\ run'[w].pc = "fail" /\ run'[w].how = how
         /\ run'[w].made = run[w].made
         /\ \A u \in Worker \ {w} : run'[u] = run[u]
<1>1. run \in [Worker -> RunType] /\ run[w] \in RunType
  BY DEF TypeOK
<1>2. [run[w] EXCEPT !.pc = "fail", !.how = how] \in RunType
  BY <1>1 DEF RunType, RunPc
<1>3. run' = [run EXCEPT ![w] = [run[w] EXCEPT !.pc = "fail", !.how = how]]
  BY <1>1 DEF Throws
<1> QED BY <1>1, <1>2, <1>3 DEF RunType

(* An execution that is over. *)
LEMMA RunIsOver ==
  ASSUME TypeOK, NEW w \in Worker, RunEnds(w)
  PROVE  /\ run' \in [Worker -> RunType]
         /\ run'[w].pc = "idle"
         /\ \A u \in Worker \ {w} : run'[u] = run[u]
<1>1. run \in [Worker -> RunType]
  BY DEF TypeOK
<1> QED BY <1>1, IdleTyped, NoRunIsIdle DEF RunEnds

(* A discovery that goes on. *)
LEMMA SearchGoes ==
  ASSUME TypeOK, NEW p \in Searcher,
         NEW pc \in SearchPc, SearchGoto(p, pc)
  PROVE  /\ search' \in [Searcher -> SearchType]
         /\ search'[p].pc = pc /\ search'[p].known = search[p].known
         /\ \A r \in Searcher \ {p} : search'[r] = search[r]
<1>1. search \in [Searcher -> SearchType] /\ search[p] \in SearchType
  BY DEF TypeOK
<1>2. search' = [search EXCEPT ![p] = [search[p] EXCEPT !.pc = pc]]
  BY <1>1 DEF SearchGoto
<1>3. [search[p] EXCEPT !.pc = pc] \in SearchType
  BY <1>1 DEF SearchType
<1> QED BY <1>1, <1>2, <1>3 DEF SearchType

(* A command that goes on. *)
LEMMA CommandGoes ==
  ASSUME TypeOK, NEW c \in Command,
         NEW pc \in CommandPc, CommandGoto(c, pc)
  PROVE  /\ command' \in [Command -> CommandType] /\ command'[c].pc = pc
         /\ \A d \in Command \ {c} : command'[d] = command[d]
<1>1. command \in [Command -> CommandType] /\ command[c] \in CommandType
  BY DEF TypeOK
<1>2. command' = [command EXCEPT ![c] = [command[c] EXCEPT !.pc = pc]]
  BY <1>1 DEF CommandGoto
<1>3. [command[c] EXCEPT !.pc = pc] \in CommandType
  BY <1>1 DEF CommandType
<1> QED BY <1>1, <1>2, <1>3 DEF CommandType

(* A command that is over. *)
LEMMA CommandIsOver ==
  ASSUME TypeOK, NEW c \in Command, CommandEnds(c)
  PROVE  /\ command' \in [Command -> CommandType]
         /\ \A d \in Command \ {c} : command'[d] = command[d]
BY IdleTyped DEF TypeOK, CommandEnds

(* A record whose status is written. *)
LEMMA StatusWritten ==
  ASSUME TypeOK, NEW status \in Status, record' = [record EXCEPT !.status = status]
  PROVE  record' \in RecordType /\ record'.status = status
<1>1. record \in RecordType
  BY DEF TypeOK
<1> QED BY <1>1 DEF RecordType

(* A publication leaves the job, removes it or adds one, and takes it from
   nobody. *)
LEMMA Enqueued ==
  ASSUME TypeOK, NEW pc, NEW next, NEW p \in Puuid \cup {None}, EnqueueMatch(pc, next, p)
  PROVE  job' \in JobType /\ (job' = job \/ job'.holder = None) /\ UNCHANGED <<lost, faults>>
<1>1. job \in JobType /\ NoJob \in JobType
  BY IdleTyped DEF TypeOK
<1>2. NoJob.holder = None
  BY DEF NoJob
<1>3. [NoJob EXCEPT !.state = "waiting", !.for = p] \in JobType
      /\ [NoJob EXCEPT !.state = "waiting", !.for = p].holder = None
  BY <1>1, <1>2 DEF JobType, NoJob
<1> QED BY <1>1, <1>2, <1>3 DEF EnqueueMatch

(* A job nobody holds. *)
LEMMA NoJobIsFree == NoJob.state = "none" /\ NoJob.holder = None
BY DEF NoJob

(* The initial states satisfy the inductive invariant. *)
LEMMA InitIInv == Init => IInv
<1> SUFFICES ASSUME Init PROVE IInv
  OBVIOUS
<1>1. TypeOK
  <2>1. match \in {"NONE", "IN_PROGRESS", "COMPLETED"} /\ followed \in BOOLEAN
    BY DEF Init
  <2>2. rows \in [Slot -> Puuid] \cup {None}
    BY ConstantsAssumption DEF Init
  <2>3. account \subseteq Puuid
    BY ConstantsAssumption DEF Init
  <2>4. link \in [Slot -> Puuid \cup {None}]
    BY <2>2 DEF Init
  <2>5. record \in RecordType
    BY DEF Init, RecordType, Status
  <2>6. faults \in 0 .. MaxFaults
    BY ConstantsAssumption DEF Init
  <2>7. /\ job \in JobType /\ run \in [Worker -> RunType]
        /\ search \in [Searcher -> SearchType] /\ command \in [Command -> CommandType]
    BY IdleTyped DEF Init
  <2> QED BY <2>1, <2>2, <2>3, <2>4, <2>5, <2>6, <2>7 DEF Init, TypeOK
<1>2. job.holder = None /\ job.state = "none" /\ \A w \in Worker : run[w].pc = "idle"
  BY NoJobIsFree, NoRunIsIdle DEF Init
<1>3. HolderExecutes /\ FailuresAreClassified /\ CompletionStands
  BY <1>2, ConstantsAssumption DEF HolderExecutes, FailuresAreClassified, CompletionStands
<1>4. RecordComesFirst
  <2>1. \A p \in Searcher : search[p].pc = "idle" /\ ~search[p].known
    BY DEF Init, NoSearch
  <2>2. \A c \in Command : command[c].pc = "idle"
    BY DEF Init, NoCommand
  <2>3. record.status = "NONE" => match = "NONE"
    BY DEF Init
  <2> QED BY <1>2, <2>1, <2>2, <2>3 DEF RecordComesFirst, EnqueuePc
<1>5. ClosedIsFinished
  BY DEF Init, ClosedIsFinished, Unfinished
<1> QED BY <1>1, <1>3, <1>4, <1>5 DEF IInv

-----------------------------------------------------------------------------
(* Discoveries.                                                            *)

(* The account is upserted and linked. *)
LEMMA LinkParticipantsIInv ==
  ASSUME IInv, NEW p \in Searcher, LinkParticipants(p)
  PROVE  IInv'
<1> USE DEF LinkParticipants
<1>1. TypeOK
  BY DEF IInv
<1>2. link' \in [Slot -> Puuid \cup {None}]
  BY <1>1, LinkMissingTyped
<1>3. /\ search' \in [Searcher -> SearchType] /\ search'[p].pc = "classify"
      /\ search'[p].known = search[p].known
      /\ \A r \in Searcher \ {p} : search'[r] = search[r]
  BY <1>1, SearchGoes, Zenon DEF SearchPc
<1>4. account' \subseteq Puuid
  BY <1>1, SearchersArePlayers DEF TypeOK
<1>5. TypeOK'
  BY <1>1, <1>2, <1>3, <1>4 DEF TypeOK
<1>6. HolderExecutes' /\ FailuresAreClassified' /\ CompletionStands'
  BY DEF IInv, HolderExecutes, FailuresAreClassified, CompletionStands
<1>7. RecordComesFirst'
  BY <1>3 DEF IInv, RecordComesFirst, EnqueuePc
<1>8. Adding => Adding'
  BY <1>3 DEF Adding
<1>9. ClosedIsFinished'
  BY <1>8 DEF IInv, ClosedIsFinished, Underway, Live, Repairable, Unfinished
<1> QED BY <1>5, <1>6, <1>7, <1>9 DEF IInv

(* A step of a discovery that only changes what it remembers. *)
LEMMA DiscoveryThinks ==
  ASSUME IInv, NEW p \in Searcher, search[p].pc # "add", search' \in [Searcher -> SearchType],
         \A r \in Searcher \ {p} : search'[r] = search[r],
         record.status = "NONE" =>
           search'[p].pc \notin EnqueuePc \cup {"mark"} /\ ~search'[p].known,
         faults' \in 0 .. MaxFaults,
         UNCHANGED <<matchVars, account, record, job, run, command, lost>>
  PROVE  IInv'
<1>1. TypeOK'
  BY DEF IInv, TypeOK, matchVars
<1>2. HolderExecutes' /\ FailuresAreClassified' /\ CompletionStands'
  BY DEF IInv, HolderExecutes, FailuresAreClassified, CompletionStands, matchVars
<1>3. RecordComesFirst'
  BY DEF IInv, RecordComesFirst, matchVars
<1>4. Adding => Adding'
  BY DEF Adding
<1>5. ClosedIsFinished'
  BY <1>4 DEF IInv, ClosedIsFinished, Underway, Live, Repairable, Unfinished, matchVars
<1> QED BY <1>1, <1>2, <1>3, <1>5 DEF IInv

(* What is stored is looked at. *)
LEMMA ClassifyIInv ==
  ASSUME IInv, NEW p \in Searcher, Classify(p)
  PROVE  IInv'
<1>1. PICK pc \in {"probe", "idle"} :
        search' = [search EXCEPT ![p] = [pc |-> pc, known |-> record.status # "NONE"]]
  BY DEF Classify
<1>2. search \in [Searcher -> SearchType]
  BY DEF IInv, TypeOK
<1> DEFINE known == record.status # "NONE"
<1>3. known \in BOOLEAN
  OBVIOUS
<1>4. [pc |-> pc, known |-> known] \in SearchType
  BY <1>3 DEF SearchType, SearchPc
<1>5. /\ search' \in [Searcher -> SearchType]
      /\ search'[p] = [pc |-> pc, known |-> known]
      /\ \A r \in Searcher \ {p} : search'[r] = search[r]
  BY <1>1, <1>2, <1>4
<1> HIDE DEF known
<1>6. record.status = "NONE" => search'[p].pc \notin EnqueuePc \cup {"mark"} /\ ~search'[p].known
  <2>1. search'[p].pc = pc /\ search'[p].known = known
    BY <1>5
  <2> QED BY <2>1 DEF known, EnqueuePc
<1>7. /\ UNCHANGED <<matchVars, account, record, job, run, command, lost>>
      /\ search[p].pc # "add" /\ faults' \in 0 .. MaxFaults
  BY DEF Classify, IInv, TypeOK
<1> QED BY <1>5, <1>6, <1>7, DiscoveryThinks

(* The job is looked at. *)
LEMMA ProbeJobIInv ==
  ASSUME IInv, NEW p \in Searcher, ProbeJob(p)
  PROVE  IInv'
<1>1. PICK pc \in {"idle", "publish", "create"} :
        SearchGoto(p, pc) /\ (pc = "publish" => search[p].known)
  BY DEF ProbeJob
<1>2. /\ search' \in [Searcher -> SearchType] /\ search'[p].pc = pc
      /\ search'[p].known = search[p].known
      /\ \A r \in Searcher \ {p} : search'[r] = search[r]
  <2>1. TypeOK /\ pc \in SearchPc
    BY DEF IInv, SearchPc, EnqueuePc
  <2> QED BY <1>1, <2>1, SearchGoes, Zenon
<1>3. record.status = "NONE" => search'[p].pc \notin EnqueuePc \cup {"mark"} /\ ~search'[p].known
  BY <1>1, <1>2 DEF IInv, RecordComesFirst, EnqueuePc
<1>4. /\ UNCHANGED <<matchVars, account, record, job, run, command, lost>>
      /\ search[p].pc # "add"
  BY DEF ProbeJob
<1>5. faults' \in 0 .. MaxFaults
  BY FaultTyped DEF ProbeJob, IInv, TypeOK
<1> QED BY <1>2, <1>3, <1>4, <1>5, DiscoveryThinks

(* The record is created or found. *)
LEMMA CreateRecordIInv ==
  ASSUME IInv, NEW p \in Searcher, CreateRecord(p)
  PROVE  IInv'
<1>1. TypeOK
  BY DEF IInv
<1>2. CASE record.status # "NONE"
  <2>1. PICK pc \in {"publish", "idle"} : SearchGoto(p, pc)
    BY <1>2 DEF CreateRecord
  <2>2. search' \in [Searcher -> SearchType] /\ \A r \in Searcher \ {p} : search'[r] = search[r]
    <3>1. pc \in SearchPc
      BY DEF SearchPc, EnqueuePc
    <3> QED BY <1>1, <2>1, <3>1, SearchGoes, Zenon
  <2>3. /\ UNCHANGED <<matchVars, account, record, job, run, command, lost>>
        /\ search[p].pc # "add" /\ faults' \in 0 .. MaxFaults
    BY <1>1, <1>2 DEF CreateRecord, TypeOK
  <2> QED BY <1>2, <2>2, <2>3, DiscoveryThinks
<1>3. CASE record.status = "NONE"
  <2>1. record' = [status |-> "PENDING", for |-> p] /\ SearchGoto(p, "publish")
    BY <1>3 DEF CreateRecord
  <2>2. search' \in [Searcher -> SearchType]
    <3>1. "publish" \in SearchPc
      BY DEF SearchPc, EnqueuePc
    <3> QED BY <1>1, <2>1, <3>1, SearchGoes, Zenon
  <2>3. UNCHANGED <<match, rows, link, followed, account, job, run, command, lost, faults>>
    BY DEF CreateRecord, matchVars
  <2>4. record' \in RecordType /\ record'.status = "PENDING"
    BY <2>1, SearchersArePlayers DEF RecordType, Status
  <2>5. TypeOK'
    BY <1>1, <2>2, <2>3, <2>4 DEF TypeOK
  <2>6. HolderExecutes' /\ FailuresAreClassified' /\ CompletionStands'
    BY <2>3 DEF IInv, HolderExecutes, FailuresAreClassified, CompletionStands
  <2>7. RecordComesFirst' /\ ClosedIsFinished'
    BY <2>4 DEF RecordComesFirst, ClosedIsFinished, Repairable
  <2> QED BY <2>5, <2>6, <2>7 DEF IInv
<1> QED BY <1>2, <1>3

(* A step of a publication changes the job. *)
LEMMA PublicationIInv ==
  ASSUME IInv, record.status # "NONE",
         NEW pc, NEW next, NEW p \in Puuid \cup {None}, EnqueueMatch(pc, next, p),
         pc = "publish" => (Adding => Adding'), next = "add" => Adding',
         search' \in [Searcher -> SearchType], command' \in [Command -> CommandType],
         UNCHANGED <<matchVars, account, record, run>>
  PROVE  IInv'
<1>1. TypeOK
  BY DEF IInv
<1>2. job' \in JobType /\ (job' = job \/ job'.holder = None) /\ UNCHANGED <<lost, faults>>
  BY <1>1, Enqueued
<1>3. TypeOK'
  BY <1>1, <1>2 DEF TypeOK, matchVars
<1>4. ASSUME NEW w \in Worker, job'.holder = w PROVE job' = job /\ job.holder = w
  BY <1>2, <1>4, ConstantsAssumption
<1>5. HolderExecutes' /\ FailuresAreClassified' /\ CompletionStands'
  BY <1>2, <1>4 DEF IInv, HolderExecutes, FailuresAreClassified, CompletionStands, matchVars
<1>6. RecordComesFirst'
  BY DEF RecordComesFirst
<1>7. Underway' \/ (job' = job /\ ~Underway)
  <2>1. CASE pc = "publish"
    BY <2>1 DEF EnqueueMatch, Underway, Live
  <2>2. CASE pc = "remove" /\ job.state = "active"
    BY <2>2 DEF EnqueueMatch, Underway, Live
  <2>3. CASE pc = "remove" /\ job.state # "active"
    BY <2>3, NoJobIsFree DEF EnqueueMatch, Underway
  <2>4. CASE pc = "add" /\ job.state = "none"
    <3>1. job'.state = "waiting"
      BY <2>4 DEF EnqueueMatch, NoJob
    <3> QED BY <3>1 DEF Underway, Live
  <2>5. CASE pc = "add" /\ job.state # "none"
    BY <2>5 DEF EnqueueMatch, Underway, Live
  <2> QED BY <2>1, <2>2, <2>3, <2>4, <2>5 DEF EnqueueMatch
<1>8. ClosedIsFinished'
  BY <1>2, <1>7 DEF IInv, ClosedIsFinished, Repairable, Unfinished, matchVars
<1> QED BY <1>3, <1>5, <1>6, <1>8 DEF IInv

(* A publication fails: when it had removed the job, that is withdrawn. *)
LEMMA WithdrawalIInv ==
  ASSUME IInv, record.status # "NONE", NEW pc, EnqueueFails(pc),
         pc # "add" => (Adding => Adding'),
         search' \in [Searcher -> SearchType], command' \in [Command -> CommandType],
         UNCHANGED <<matchVars, account, record, run>>
  PROVE  IInv'
<1> DEFINE withdrawn == {l \in {"withdrawn"} : pc = "add" /\ ~Underway' /\ ~Repairable /\ Unfinished}
<1>1. TypeOK
  BY DEF IInv
<1>2. faults' \in 0 .. MaxFaults
  BY <1>1, FaultTyped DEF EnqueueFails
<1>3. job' = job /\ lost' = lost \cup withdrawn
  BY DEF EnqueueFails
<1>4. lost' \subseteq Loss
  BY <1>1, <1>3 DEF TypeOK, Loss
<1>5. TypeOK'
  BY <1>1, <1>2, <1>3, <1>4 DEF TypeOK, matchVars
<1>6. HolderExecutes' /\ FailuresAreClassified' /\ CompletionStands'
  BY <1>3 DEF IInv, HolderExecutes, FailuresAreClassified, CompletionStands, matchVars
<1>7. RecordComesFirst'
  BY DEF RecordComesFirst
<1>8. ClosedIsFinished'
  <2>1. Repairable' = Repairable /\ Unfinished' = Unfinished
    BY DEF Repairable, Unfinished, matchVars
  <2>2. CASE pc = "add"
    BY <1>3, <2>1, <2>2 DEF ClosedIsFinished
  <2>3. CASE pc # "add"
    <3>1. Underway => Underway'
      BY <1>3, <2>3 DEF Underway, Live
    <3> QED BY <1>3, <2>1, <3>1 DEF IInv, ClosedIsFinished
  <2> QED BY <2>2, <2>3
<1> QED BY <1>5, <1>6, <1>7, <1>8 DEF IInv

(* A discovery publishes. *)
LEMMA PublishDiscoveredIInv ==
  ASSUME IInv, NEW p \in Searcher, PublishDiscovered(p)
  PROVE  IInv'
<1>1. TypeOK
  BY DEF IInv
<1>2. search[p].pc \in EnqueuePc
  BY DEF PublishDiscovered, EnqueueMatch, EnqueueFails, EnqueuePc
<1>3. record.status # "NONE"
  BY <1>2 DEF IInv, RecordComesFirst
<1>4. p \in Puuid \cup {None}
  BY SearchersArePlayers
<1>5. UNCHANGED <<matchVars, account, record, run, command>>
  BY DEF PublishDiscovered
<1>6. command' \in [Command -> CommandType]
  BY <1>1, <1>5 DEF TypeOK
<1>7. ASSUME NEW next \in EnqueuePc \cup {"mark", "idle"}, SearchGoto(p, next)
      PROVE  /\ search' \in [Searcher -> SearchType]
             /\ next = "add" => Adding'
             /\ search[p].pc # "add" => (Adding => Adding')
  <2>1. next \in SearchPc
    BY DEF SearchPc
  <2>2. /\ search' \in [Searcher -> SearchType] /\ search'[p].pc = next
        /\ \A r \in Searcher \ {p} : search'[r] = search[r]
    BY <1>1, <1>7, <2>1, SearchGoes, Zenon
  <2> QED BY <1>5, <2>2 DEF Adding
<1>8. CASE \E next \in EnqueuePc \cup {"mark", "idle"} :
             EnqueueMatch(search[p].pc, next, p) /\ SearchGoto(p, next)
  <2>1. PICK next \in EnqueuePc \cup {"mark", "idle"} :
               EnqueueMatch(search[p].pc, next, p) /\ SearchGoto(p, next)
    BY <1>8
  <2>2. PICK pc \in EnqueuePc : pc = search[p].pc
    BY <1>2
  <2>3. EnqueueMatch(pc, next, p) /\ (pc = "publish" => (Adding => Adding'))
        /\ (next = "add" => Adding') /\ search' \in [Searcher -> SearchType]
    BY <1>7, <2>1, <2>2
  <2> QED BY <1>3, <1>4, <1>5, <1>6, <2>3, PublicationIInv
<1>9. CASE SearchGoto(p, "idle") /\ EnqueueFails(search[p].pc)
  <2>1. PICK pc \in EnqueuePc : pc = search[p].pc
    BY <1>2
  <2>2. EnqueueFails(pc) /\ (pc # "add" => (Adding => Adding'))
        /\ search' \in [Searcher -> SearchType]
    BY <1>7, <1>9, <2>1
  <2> QED BY <1>3, <1>5, <1>6, <2>2, WithdrawalIInv
<1> QED BY <1>8, <1>9 DEF PublishDiscovered

(* A record is written that a repair command looks for. *)
LEMMA RepairableIInv ==
  ASSUME IInv, record' \in RecordType,
         record'.status \in {"PENDING", "QUEUED", "FAILED", "DEAD_LETTERED"},
         search' \in [Searcher -> SearchType], command' \in [Command -> CommandType],
         UNCHANGED <<matchVars, account, job, run, lost, faults>>
  PROVE  IInv'
<1>1. TypeOK'
  BY DEF IInv, TypeOK, matchVars
<1>2. HolderExecutes' /\ FailuresAreClassified' /\ CompletionStands'
  BY DEF IInv, HolderExecutes, FailuresAreClassified, CompletionStands, matchVars
<1>3. RecordComesFirst' /\ ClosedIsFinished'
  BY DEF RecordComesFirst, ClosedIsFinished, Repairable
<1> QED BY <1>1, <1>2, <1>3 DEF IInv

(* QUEUED is written. *)
LEMMA MarkQueuedIInv ==
  ASSUME IInv, NEW p \in Searcher, MarkQueued(p)
  PROVE  IInv'
<1>1. TypeOK
  BY DEF IInv
<1>2. record' \in RecordType /\ record'.status = "QUEUED"
  BY SearchersArePlayers DEF MarkQueued, RecordType, Status
<1>3. search' \in [Searcher -> SearchType]
  BY <1>1, SearchGoes, Zenon DEF MarkQueued, SearchPc
<1>4. command' \in [Command -> CommandType]
  BY <1>1 DEF TypeOK, MarkQueued
<1>5. UNCHANGED <<matchVars, account, job, run, lost, faults>>
  BY DEF MarkQueued
<1> QED BY <1>2, <1>3, <1>4, <1>5, RepairableIInv

-----------------------------------------------------------------------------
(* Executions.                                                             *)

(* Whoever is executing was preceded by the record. *)
LEMMA ExecutedIsRecorded ==
  ASSUME IInv, NEW w \in Worker, run[w].pc # "idle"
  PROVE  record.status # "NONE"
BY DEF IInv, RecordComesFirst

(* BullMQ hands out the job. *)
LEMMA TakeJobIInv ==
  ASSUME IInv, NEW w \in Worker, TakeJob(w)
  PROVE  IInv'
<1>1. TypeOK /\ job \in JobType /\ run \in [Worker -> RunType]
  BY DEF IInv, TypeOK
<1>2. /\ job.state \in {"waiting", "delayed"}
      /\ job' = [job EXCEPT !.state = "active", !.holder = w]
      /\ run' = [run EXCEPT ![w] = [NoRun EXCEPT !.pc = "start", !.for = job.for, !.made = job.made]]
      /\ UNCHANGED <<match, rows, link, followed, account, record, search, command, lost, faults>>
  BY DEF TakeJob, matchVars
<1>3. /\ job' \in JobType /\ job'.state = "active" /\ job'.holder = w /\ job'.made = job.made
  BY <1>1, <1>2 DEF JobType
<1> DEFINE r == [NoRun EXCEPT !.pc = "start", !.for = job.for, !.made = job.made]
<1>4. r \in RunType /\ r.pc = "start" /\ r.made = job.made
  <2>1. job.for \in Puuid \cup {None} /\ job.made \in 0 .. MaxAttempts - 1
    BY <1>1 DEF JobType
  <2> QED BY <2>1 DEF NoRun, RunType, RunPc
<1> HIDE DEF r
<1>5. /\ run' \in [Worker -> RunType] /\ run'[w] = r
      /\ \A u \in Worker \ {w} : run'[u] = run[u]
  BY <1>1, <1>2, <1>4 DEF r
<1>6. TypeOK'
  BY <1>1, <1>2, <1>3, <1>5 DEF TypeOK
<1>7. HolderExecutes'
  BY <1>3, <1>4, <1>5 DEF HolderExecutes
<1>8. FailuresAreClassified'
  BY <1>4, <1>5 DEF IInv, FailuresAreClassified
<1>9. CompletionStands'
  BY <1>3, <1>4, <1>5 DEF CompletionStands
<1>10. RecordComesFirst' /\ ClosedIsFinished'
  <2>1. record.status # "NONE"
    BY <1>2 DEF IInv, RecordComesFirst
  <2> QED BY <1>2, <1>3, <2>1 DEF RecordComesFirst, ClosedIsFinished, Underway, Live
<1> QED BY <1>6, <1>7, <1>8, <1>9, <1>10 DEF IInv

(* What an execution that goes on within the job leaves as it was. *)
LEMMA ExecutionGoes ==
  ASSUME IInv, NEW w \in Worker, run[w].pc # "idle",
         run' \in [Worker -> RunType], run'[w].pc # "idle", run'[w].made = run[w].made,
         run'[w].pc \in {"fail", "move"} => run'[w].how \in Failure,
         \A u \in Worker \ {w} : run'[u] = run[u],
         UNCHANGED <<account, job, search, command>>,
         record' \in RecordType, record'.status # "NONE"
  PROVE  /\ HolderExecutes' /\ FailuresAreClassified' /\ RecordComesFirst'
         /\ TypeOK' <=> /\ match' \in {"NONE", "IN_PROGRESS", "COMPLETED"}
                        /\ rows' \in [Slot -> Puuid] \cup {None}
                        /\ link' \in [Slot -> Puuid \cup {None}]
                        /\ followed' \in BOOLEAN /\ lost' \subseteq Loss
                        /\ faults' \in 0 .. MaxFaults
<1>1. HolderExecutes'
  BY DEF IInv, HolderExecutes
<1>2. FailuresAreClassified'
  BY DEF IInv, FailuresAreClassified
<1>3. RecordComesFirst'
  BY DEF RecordComesFirst
<1>4. TypeOK
  BY DEF IInv
<1> QED BY <1>1, <1>2, <1>3, <1>4 DEF TypeOK

(* Nothing is lost while the match, the record and the lock stay as they are
   and nobody comes nearer to the end than the completion allows. *)
LEMMA ExecutionRests ==
  ASSUME IInv, NEW w \in Worker, run[w].pc # "idle",
         run' \in [Worker -> RunType], run'[w].pc # "idle", run'[w].made = run[w].made,
         run'[w].pc \in {"fail", "move"} => run'[w].how \in Failure,
         run'[w].pc \in {"record", "follow"} => match = "COMPLETED",
         \A u \in Worker \ {w} : run'[u] = run[u],
         link' \in [Slot -> Puuid \cup {None}], faults' \in 0 .. MaxFaults,
         UNCHANGED <<match, rows, followed, account, record, job, search, command, lost>>
  PROVE  IInv'
<1>1. TypeOK /\ record' \in RecordType /\ record'.status # "NONE"
  BY ExecutedIsRecorded DEF IInv, TypeOK
<1>2. HolderExecutes' /\ FailuresAreClassified' /\ RecordComesFirst' /\ TypeOK'
  BY <1>1, ExecutionGoes DEF TypeOK
<1>3. CompletionStands'
  BY DEF IInv, CompletionStands
<1>4. ClosedIsFinished'
  BY DEF IInv, ClosedIsFinished, Underway, Adding, Live, Repairable, Unfinished
<1> QED BY <1>2, <1>3, <1>4 DEF IInv

(* RUNNING is written. *)
LEMMA MarkRunningIInv ==
  ASSUME IInv, NEW w \in Worker, MarkRunning(w)
  PROVE  IInv'
<1> DEFINE masked == {l \in {"masked"} : ~Underway /\ Unfinished}
<1>1. TypeOK
  BY DEF IInv
<1>2. /\ run[w].pc = "start" /\ RunGoto(w, "inspect")
      /\ record' = [record EXCEPT !.status = "RUNNING"] /\ lost' = lost \cup masked
      /\ UNCHANGED <<match, rows, link, followed, account, job, search, command, faults>>
  BY DEF MarkRunning, matchVars
<1>3. /\ run' \in [Worker -> RunType] /\ run'[w].pc = "inspect" /\ run'[w].made = run[w].made
      /\ \A u \in Worker \ {w} : run'[u] = run[u]
  BY <1>1, <1>2, RunGoes, Zenon DEF RunPc
<1>4. record' \in RecordType /\ record'.status = "RUNNING"
  BY <1>1, <1>2, StatusWritten DEF Status
<1>5. lost' \subseteq Loss
  BY <1>1, <1>2 DEF TypeOK, Loss
<1>6. HolderExecutes' /\ FailuresAreClassified' /\ RecordComesFirst' /\ TypeOK'
  BY <1>1, <1>2, <1>3, <1>4, <1>5, ExecutionGoes DEF TypeOK
<1>7. CompletionStands'
  BY <1>2, <1>3 DEF IInv, CompletionStands
<1>8. ClosedIsFinished'
  BY <1>2 DEF ClosedIsFinished, Underway, Adding, Live, Unfinished
<1> QED BY <1>6, <1>7, <1>8 DEF IInv

(* The stored match is looked at. *)
LEMMA InspectMatchIInv ==
  ASSUME IInv, NEW w \in Worker, InspectMatch(w)
  PROVE  IInv'
<1>1. TypeOK /\ run \in [Worker -> RunType] /\ run[w] \in RunType
  BY DEF IInv, TypeOK
<1>2. /\ run[w].pc = "inspect"
      /\ UNCHANGED <<match, rows, followed, account, record, job, search, command, lost, faults>>
  BY DEF InspectMatch
<1>3. CASE match = "COMPLETED" /\ run[w].for \in Present
  <2>1. link' = LinkMissing(account) /\ run' = [run EXCEPT ![w].pc = "record", ![w].how = "again"]
    BY <1>3 DEF InspectMatch
  <2>2. /\ run' \in [Worker -> RunType] /\ run'[w].pc = "record" /\ run'[w].made = run[w].made
        /\ \A u \in Worker \ {w} : run'[u] = run[u]
    <3>1. [run[w] EXCEPT !.pc = "record", !.how = "again"] \in RunType
      BY <1>1 DEF RunType, RunPc
    <3>2. run' = [run EXCEPT ![w] = [run[w] EXCEPT !.pc = "record", !.how = "again"]]
      BY <1>1, <2>1
    <3> QED BY <1>1, <3>1, <3>2 DEF RunType
  <2>3. link' \in [Slot -> Puuid \cup {None}] /\ faults' \in 0 .. MaxFaults
    BY <1>1, <1>2, <2>1, LinkMissingTyped DEF TypeOK
  <2> QED BY <1>2, <1>3, <2>2, <2>3, ExecutionRests
<1>4. CASE ~(match = "COMPLETED" /\ run[w].for \in Present)
  <2> DEFINE force == (match = "COMPLETED")
  <2>1. link' = link /\ run' = [run EXCEPT ![w].pc = "fetch", ![w].force = force]
    BY <1>4 DEF InspectMatch
  <2>2. force \in BOOLEAN
    OBVIOUS
  <2> HIDE DEF force
  <2>3. /\ run' \in [Worker -> RunType] /\ run'[w].pc = "fetch" /\ run'[w].made = run[w].made
        /\ \A u \in Worker \ {w} : run'[u] = run[u]
    <3>1. [run[w] EXCEPT !.pc = "fetch", !.force = force] \in RunType
      BY <1>1, <2>2 DEF RunType, RunPc
    <3>2. run' = [run EXCEPT ![w] = [run[w] EXCEPT !.pc = "fetch", !.force = force]]
      BY <1>1, <2>1
    <3> QED BY <1>1, <3>1, <3>2 DEF RunType
  <2>4. link' \in [Slot -> Puuid \cup {None}] /\ faults' \in 0 .. MaxFaults
    BY <1>1, <1>2, <2>1 DEF TypeOK
  <2> QED BY <1>2, <2>3, <2>4, ExecutionRests
<1> QED BY <1>3, <1>4

(* The match is fetched. *)
LEMMA FetchMatchIInv ==
  ASSUME IInv, NEW w \in Worker, FetchMatch(w)
  PROVE  IInv'
<1>1. TypeOK /\ run \in [Worker -> RunType] /\ run[w] \in RunType
  BY DEF IInv, TypeOK
<1>2. /\ run[w].pc = "fetch"
      /\ UNCHANGED <<match, rows, followed, account, record, job, search, command, lost, faults>>
  BY DEF FetchMatch
<1>3. CASE match = "COMPLETED" /\ ~run[w].force
  <2>1. link' = LinkMissing(account) /\ RunGoto(w, "commit")
    BY <1>3 DEF FetchMatch
  <2>2. /\ run' \in [Worker -> RunType] /\ run'[w].pc = "commit" /\ run'[w].made = run[w].made
        /\ \A u \in Worker \ {w} : run'[u] = run[u]
    BY <1>1, <2>1, RunGoes, Zenon DEF RunPc
  <2>3. link' \in [Slot -> Puuid \cup {None}] /\ faults' \in 0 .. MaxFaults
    BY <1>1, <1>2, <2>1, LinkMissingTyped DEF TypeOK
  <2> QED BY <1>2, <1>3, <2>2, <2>3, ExecutionRests
<1>4. CASE ~(match = "COMPLETED" /\ ~run[w].force)
  <2>1. link' = link /\ run' = [run EXCEPT ![w].pc = "write", ![w].links = account]
    BY <1>4 DEF FetchMatch
  <2>2. account \in SUBSET Puuid
    BY <1>1 DEF TypeOK
  <2>3. /\ run' \in [Worker -> RunType] /\ run'[w].pc = "write" /\ run'[w].made = run[w].made
        /\ \A u \in Worker \ {w} : run'[u] = run[u]
    <3>1. [run[w] EXCEPT !.pc = "write", !.links = account] \in RunType
      BY <1>1, <2>2 DEF RunType, RunPc
    <3>2. run' = [run EXCEPT ![w] = [run[w] EXCEPT !.pc = "write", !.links = account]]
      BY <1>1, <2>1
    <3> QED BY <1>1, <3>1, <3>2 DEF RunType
  <2>4. link' \in [Slot -> Puuid \cup {None}] /\ faults' \in 0 .. MaxFaults
    BY <1>1, <1>2, <2>1 DEF TypeOK
  <2> QED BY <1>2, <2>3, <2>4, ExecutionRests
<1> QED BY <1>3, <1>4

(* The match is written. *)
LEMMA WriteMatchIInv ==
  ASSUME IInv, NEW w \in Worker, WriteMatch(w)
  PROVE  IInv'
<1> DEFINE undone == {l \in {"undone"} : match = "COMPLETED" /\ (~run[w].force \/ job.holder # w)}
<1>1. TypeOK /\ run \in [Worker -> RunType] /\ run[w] \in RunType
  BY DEF IInv, TypeOK
<1>2. /\ run[w].pc = "write" /\ match' = "IN_PROGRESS" /\ rows' = Roster
      /\ link' = [s \in Slot |-> IF Roster[s] \in run[w].links THEN Roster[s] ELSE link[s]]
      /\ followed' = (followed /\ rows = Roster) /\ lost' = lost \cup undone
      /\ run' = [run EXCEPT ![w].pc = "commit", ![w].links = {}]
      /\ UNCHANGED <<account, record, job, search, command, faults>>
  BY DEF WriteMatch
<1>3. /\ run' \in [Worker -> RunType] /\ run'[w].pc = "commit" /\ run'[w].made = run[w].made
      /\ \A u \in Worker \ {w} : run'[u] = run[u]
  <2>1. [run[w] EXCEPT !.pc = "commit", !.links = {}] \in RunType
    BY <1>1 DEF RunType, RunPc
  <2>2. run' = [run EXCEPT ![w] = [run[w] EXCEPT !.pc = "commit", !.links = {}]]
    BY <1>1, <1>2
  <2> QED BY <1>1, <2>1, <2>2 DEF RunType
<1>4. link' \in [Slot -> Puuid \cup {None}] /\ rows' \in [Slot -> Puuid] /\ followed' \in BOOLEAN
  BY <1>1, <1>2, ConstantsAssumption DEF TypeOK
<1>5. lost' \subseteq Loss
  BY <1>1, <1>2 DEF TypeOK, Loss
<1>6. HolderExecutes' /\ FailuresAreClassified' /\ RecordComesFirst' /\ TypeOK'
  <2>1. record' \in RecordType /\ record'.status # "NONE"
    BY <1>1, <1>2, ExecutedIsRecorded DEF TypeOK
  <2> QED BY <1>1, <1>2, <1>3, <1>4, <1>5, <2>1, ExecutionGoes DEF TypeOK
<1>7. CompletionStands'
  <2> SUFFICES ASSUME "undone" \notin lost', NEW u \in Worker,
                      job.holder = u, run'[u].pc \in {"record", "follow"}
               PROVE  FALSE
    BY <1>2 DEF CompletionStands
  <2>1. u # w /\ run[u].pc \in {"record", "follow"} /\ "undone" \notin lost
    BY <1>2, <1>3
  <2>2. match = "COMPLETED"
    BY <2>1 DEF IInv, CompletionStands
  <2>3. "undone" \in undone
    BY <2>1, <2>2
  <2> QED BY <1>2, <2>3
<1>8. ClosedIsFinished'
  <2> SUFFICES ASSUME ~Underway, lost' = {}, ~Repairable PROVE record.status = "NONE"
    BY <1>2 DEF ClosedIsFinished, Underway, Adding, Live, Repairable
  <2>1. job.holder # w
    BY DEF IInv, HolderExecutes, Underway, Live
  <2>2. match # "COMPLETED"
    BY <1>2, <2>1
  <2> QED BY <1>2, <2>2 DEF IInv, ClosedIsFinished, Unfinished
<1> QED BY <1>6, <1>7, <1>8 DEF IInv

(* The match is completed. *)
LEMMA CommitMatchIInv ==
  ASSUME IInv, NEW w \in Worker, CommitMatch(w)
  PROVE  IInv'
<1>1. TypeOK
  BY DEF IInv
<1>2. /\ run[w].pc = "commit" /\ match' = "COMPLETED" /\ RunGoto(w, "record")
      /\ UNCHANGED <<rows, link, followed, account, record, job, search, command, lost, faults>>
  BY DEF CommitMatch
<1>3. /\ run' \in [Worker -> RunType] /\ run'[w].pc = "record" /\ run'[w].made = run[w].made
      /\ \A u \in Worker \ {w} : run'[u] = run[u]
  BY <1>1, <1>2, RunGoes, Zenon DEF RunPc
<1>4. HolderExecutes' /\ FailuresAreClassified' /\ RecordComesFirst' /\ TypeOK'
  <2>1. record' \in RecordType /\ record'.status # "NONE"
    BY <1>1, <1>2, ExecutedIsRecorded DEF TypeOK
  <2> QED BY <1>1, <1>2, <1>3, <2>1, ExecutionGoes DEF TypeOK
<1>5. CompletionStands'
  BY <1>2 DEF CompletionStands
<1>6. ClosedIsFinished'
  BY <1>2 DEF IInv, ClosedIsFinished, Underway, Adding, Live, Repairable, Unfinished
<1> QED BY <1>4, <1>5, <1>6 DEF IInv

(* The completion is recorded. *)
LEMMA RecordCompletedIInv ==
  ASSUME IInv, NEW w \in Worker, RecordCompleted(w)
  PROVE  IInv'
<1> DEFINE closed == {l \in {"closed"} : Unfinished /\ job.holder # w}
<1>1. TypeOK
  BY DEF IInv
<1>2. /\ run[w].pc = "record" /\ RunGoto(w, "follow")
      /\ record' = [record EXCEPT !.status = "COMPLETED"] /\ lost' = lost \cup closed
      /\ UNCHANGED <<match, rows, link, followed, account, job, search, command, faults>>
  BY DEF RecordCompleted, matchVars
<1>3. /\ run' \in [Worker -> RunType] /\ run'[w].pc = "follow" /\ run'[w].made = run[w].made
      /\ \A u \in Worker \ {w} : run'[u] = run[u]
  BY <1>1, <1>2, RunGoes, Zenon DEF RunPc
<1>4. record' \in RecordType /\ record'.status = "COMPLETED"
  BY <1>1, <1>2, StatusWritten DEF Status
<1>5. lost' \subseteq Loss
  BY <1>1, <1>2 DEF TypeOK, Loss
<1>6. HolderExecutes' /\ FailuresAreClassified' /\ RecordComesFirst' /\ TypeOK'
  BY <1>1, <1>2, <1>3, <1>4, <1>5, ExecutionGoes DEF TypeOK
<1>7. CompletionStands'
  BY <1>2, <1>3 DEF IInv, CompletionStands
<1>8. ClosedIsFinished'
  <2> SUFFICES ASSUME ~Underway, lost' = {} PROVE ~Unfinished
    BY <1>2 DEF ClosedIsFinished, Underway, Adding, Live, Unfinished
  <2>1. job.holder # w
    BY DEF IInv, HolderExecutes, Underway, Live
  <2> QED BY <1>2, <2>1
<1> QED BY <1>6, <1>7, <1>8 DEF IInv

(* What an execution that ends leaves as it was. *)
LEMMA ExecutionEnds ==
  ASSUME IInv, NEW w \in Worker, RunEnds(w), record.status # "NONE",
         job' \in JobType, job'.holder = None \/ (job' = job /\ job.holder # w),
         followed' \in BOOLEAN, lost' \subseteq Loss, faults' \in 0 .. MaxFaults,
         UNCHANGED <<rows, link, account, record, search, command>>,
         match' = match
  PROVE  /\ TypeOK' /\ HolderExecutes' /\ FailuresAreClassified' /\ RecordComesFirst'
         /\ lost \subseteq lost' => CompletionStands'
<1>1. TypeOK
  BY DEF IInv
<1>2. /\ run' \in [Worker -> RunType] /\ run'[w].pc = "idle"
      /\ \A u \in Worker \ {w} : run'[u] = run[u]
  BY <1>1, RunIsOver
<1>3. TypeOK'
  BY <1>1, <1>2 DEF TypeOK
<1>4. ASSUME NEW u \in Worker, job'.holder = u PROVE u # w /\ job' = job /\ run'[u] = run[u]
  BY <1>2, <1>4, ConstantsAssumption
<1>5. HolderExecutes'
  BY <1>4 DEF IInv, HolderExecutes
<1>6. FailuresAreClassified'
  BY <1>2 DEF IInv, FailuresAreClassified
<1>7. RecordComesFirst'
  BY DEF RecordComesFirst
<1>8. lost \subseteq lost' => CompletionStands'
  BY <1>4 DEF IInv, CompletionStands
<1> QED BY <1>3, <1>5, <1>6, <1>7, <1>8

(* The follow-ups are taken. *)
LEMMA FollowUpIInv ==
  ASSUME IInv, NEW w \in Worker, FollowUp(w)
  PROVE  IInv'
<1>1. TypeOK /\ job \in JobType
  BY DEF IInv, TypeOK
<1>2. /\ run[w].pc = "follow" /\ followed' = (match = "COMPLETED") /\ RunEnds(w)
      /\ job' = IF job.holder = w THEN [job EXCEPT !.state = "completed", !.holder = None] ELSE job
      /\ UNCHANGED <<match, rows, link, account, record, search, command, lost, faults>>
  BY DEF FollowUp
<1>3. /\ job' \in JobType
      /\ job'.holder = None \/ (job' = job /\ job.holder # w)
      /\ job.holder = w => job'.state = "completed"
  BY <1>1, <1>2 DEF JobType
<1>4. TypeOK' /\ HolderExecutes' /\ FailuresAreClassified' /\ RecordComesFirst' /\ CompletionStands'
  <2>1. record.status # "NONE"
    BY <1>2, ExecutedIsRecorded
  <2> QED BY <1>1, <1>2, <1>3, <2>1, ExecutionEnds DEF TypeOK
<1>5. ClosedIsFinished'
  <2>1. CASE job.holder = w
    BY <1>2, <2>1 DEF IInv, CompletionStands, ClosedIsFinished, Unfinished
  <2>2. CASE job.holder # w
    BY <1>2, <2>2 DEF IInv, ClosedIsFinished, Unfinished, Underway, Adding, Live, Repairable
  <2> QED BY <2>1, <2>2
<1> QED BY <1>4, <1>5 DEF IInv

-----------------------------------------------------------------------------
(* Failures.                                                               *)

(* An execution that throws, or goes to move what it could not record. *)
LEMMA FailureIInv ==
  ASSUME IInv, NEW w \in Worker, run[w].pc # "idle",
         run' \in [Worker -> RunType], run'[w].pc \in {"fail", "move"}, run'[w].how \in Failure,
         run'[w].made = run[w].made, \A u \in Worker \ {w} : run'[u] = run[u],
         faults' \in 0 .. MaxFaults,
         UNCHANGED <<matchVars, account, record, job, search, command, lost>>
  PROVE  IInv'
<1>1. link' \in [Slot -> Puuid \cup {None}]
  BY DEF IInv, TypeOK, matchVars
<1>2. UNCHANGED <<match, rows, followed, account, record, job, search, command, lost>>
  BY DEF matchVars
<1> QED BY <1>1, <1>2, ExecutionRests

(* An execution that throws. *)
LEMMA ThrowIInv ==
  ASSUME IInv, NEW w \in Worker, run[w].pc # "idle", NEW how \in Failure, Throws(w, how),
         faults' \in 0 .. MaxFaults,
         UNCHANGED <<matchVars, account, record, job, search, command, lost>>
  PROVE  IInv'
<1>1. TypeOK
  BY DEF IInv
<1>2. /\ run' \in [Worker -> RunType] /\ run'[w].pc = "fail" /\ run'[w].how = how
      /\ run'[w].made = run[w].made
      /\ \A u \in Worker \ {w} : run'[u] = run[u]
  BY <1>1, RunThrows, Zenon
<1> QED BY <1>2, FailureIInv

(* The cooldown, a rate limit or a deferral. *)
LEMMA IsThrottledIInv ==
  ASSUME IInv, NEW w \in Worker, IsThrottled(w)
  PROVE  IInv'
<1>1. faults' \in 0 .. MaxFaults
  BY FaultTyped DEF IInv, IsThrottled
<1>2. PICK how \in Failure : Throws(w, how)
  BY DEF IsThrottled, Failure
<1>3. run[w].pc # "idle"
  BY DEF IsThrottled
<1> QED BY <1>1, <1>2, <1>3, ThrowIInv DEF IsThrottled

(* A step that throws: into the handler, or past it before the record is found. *)
LEMMA StepThrowsIInv ==
  ASSUME IInv, NEW w \in Worker, NEW how \in Failure, StepThrows(w, how),
         faults' \in 0 .. MaxFaults,
         UNCHANGED <<matchVars, account, record, job, search, command, lost>>
  PROVE  IInv'
<1>1. run[w].pc # "idle"
  BY DEF StepThrows
<1>2. CASE run[w].pc # "start"
  <2>1. Throws(w, how)
    BY <1>2 DEF StepThrows
  <2> QED BY <1>1, <2>1, ThrowIInv
<1>3. CASE run[w].pc = "start"
  <2>1. run' = [run EXCEPT ![w].pc = "move", ![w].how = how]
    BY <1>3 DEF StepThrows
  <2>2. run \in [Worker -> RunType] /\ run[w] \in RunType
    BY DEF IInv, TypeOK
  <2>3. [run[w] EXCEPT !.pc = "move", !.how = how] \in RunType
    BY <2>2 DEF RunType, RunPc
  <2>4. run' = [run EXCEPT ![w] = [run[w] EXCEPT !.pc = "move", !.how = how]]
    BY <2>1, <2>2
  <2>5. /\ run' \in [Worker -> RunType] /\ run'[w].pc = "move" /\ run'[w].how = how
        /\ run'[w].made = run[w].made /\ \A u \in Worker \ {w} : run'[u] = run[u]
    BY <2>2, <2>3, <2>4 DEF RunType
  <2>6. run'[w].pc \in {"fail", "move"} /\ run'[w].how \in Failure
    BY <2>5
  <2> QED BY <1>1, <2>5, <2>6, FailureIInv
<1> QED BY <1>2, <1>3

(* An outage. *)
LEMMA IsUnavailableIInv ==
  ASSUME IInv, NEW w \in Worker, IsUnavailable(w)
  PROVE  IInv'
<1>1. faults' \in 0 .. MaxFaults /\ "retry" \in Failure
  BY FaultTyped DEF IInv, IsUnavailable, Failure
<1> QED BY <1>1, StepThrowsIInv DEF IsUnavailable

(* A permanent failure. *)
LEMMA IsRefusedIInv ==
  ASSUME IInv, NEW w \in Worker, IsRefused(w)
  PROVE  IInv'
<1>1. faults' \in 0 .. MaxFaults /\ "dead" \in Failure
  BY FaultTyped DEF IInv, IsRefused, Failure
<1> QED BY <1>1, StepThrowsIInv DEF IsRefused

(* The outcome is recorded, or that fails too. *)
LEMMA RecordFailureIInv ==
  ASSUME IInv, NEW w \in Worker, RecordFailure(w)
  PROVE  IInv'
<1>1. TypeOK /\ run \in [Worker -> RunType] /\ run[w] \in RunType
  BY DEF IInv, TypeOK
<1>2. /\ run[w].pc = "fail" /\ run[w].how \in Failure
      /\ UNCHANGED <<match, rows, link, followed, account, job, search, command, lost>>
  BY DEF IInv, FailuresAreClassified, RecordFailure, matchVars
<1>3. CASE /\ record' = [record EXCEPT !.status = IF IsDead(w) THEN "DEAD_LETTERED" ELSE "FAILED"]
           /\ RunGoto(w, "move") /\ UNCHANGED faults
  <2>1. PICK status \in {"DEAD_LETTERED", "FAILED"} : record' = [record EXCEPT !.status = status]
    BY <1>3
  <2>2. record' \in RecordType /\ record'.status = status
    BY <1>1, <2>1, StatusWritten DEF Status
  <2>3. /\ run' \in [Worker -> RunType] /\ run'[w].pc = "move" /\ run'[w].how = run[w].how
        /\ run'[w].made = run[w].made /\ \A u \in Worker \ {w} : run'[u] = run[u]
    BY <1>1, <1>3, RunGoes, Zenon DEF RunPc
  <2>4. HolderExecutes' /\ FailuresAreClassified' /\ RecordComesFirst' /\ TypeOK'
    BY <1>1, <1>2, <1>3, <2>2, <2>3, ExecutionGoes DEF TypeOK
  <2>5. CompletionStands'
    BY <1>2, <2>3 DEF IInv, CompletionStands
  <2>6. ClosedIsFinished'
    BY <2>2 DEF ClosedIsFinished, Repairable
  <2> QED BY <2>4, <2>5, <2>6 DEF IInv
<1>4. CASE /\ Fault("database") /\ UNCHANGED record
           /\ run' = [run EXCEPT ![w] = IF @.how = "gate" THEN [@ EXCEPT !.how = "retry"]
                                        ELSE [@ EXCEPT !.pc = "move", !.how = "thrown"]]
  <2>1. faults' \in 0 .. MaxFaults
    BY <1>1, <1>4, FaultTyped
  <2>2. /\ [run[w] EXCEPT !.how = "retry"] \in RunType
        /\ [run[w] EXCEPT !.pc = "move", !.how = "thrown"] \in RunType
    BY <1>1 DEF RunType, RunPc, Failure
  <2> DEFINE r == IF run[w].how = "gate" THEN [run[w] EXCEPT !.how = "retry"]
                  ELSE [run[w] EXCEPT !.pc = "move", !.how = "thrown"]
  <2>3. r \in RunType /\ r.pc \in {"fail", "move"} /\ r.how \in Failure /\ r.made = run[w].made
    BY <1>1, <1>2, <2>2 DEF RunType, Failure
  <2>4. run' = [run EXCEPT ![w] = r]
    BY <1>1, <1>4
  <2> HIDE DEF r
  <2>5. run' \in [Worker -> RunType] /\ run'[w] = r /\ \A u \in Worker \ {w} : run'[u] = run[u]
    BY <1>1, <2>3, <2>4
  <2>6. UNCHANGED <<matchVars, account, record, job, search, command, lost>>
    BY <1>2, <1>4 DEF matchVars
  <2> QED BY <1>2, <2>1, <2>3, <2>5, <2>6, FailureIInv
<1> QED BY <1>3, <1>4 DEF RecordFailure

(* The job is moved: delayed, failed, or tried once more while an attempt is
   left. *)
LEMMA MoveJobIInv ==
  ASSUME IInv, NEW w \in Worker, MoveJob(w)
  PROVE  IInv'
<1> DEFINE unrecorded == {l \in {"unrecorded"} : job'.state = "failed" /\ ~Repairable}
<1>1. TypeOK /\ job \in JobType
  BY DEF IInv, TypeOK
<1>2. /\ run[w].pc = "move" /\ job.holder = w /\ job' = FailedJob(w) /\ lost' = lost \cup unrecorded
      /\ RunEnds(w)
      /\ UNCHANGED <<match, rows, link, followed, account, record, search, command, faults>>
  BY DEF MoveJob, matchVars
<1>3. run[w].how \in Failure /\ run[w].made = job.made /\ job.made \in 0 .. MaxAttempts - 1
      /\ MaxAttempts \in Nat
  BY <1>1, <1>2, ConstantsAssumption
     DEF IInv, FailuresAreClassified, HolderExecutes, JobType
<1>4. /\ [job EXCEPT !.state = "delayed", !.holder = None] \in JobType
      /\ [job EXCEPT !.state = "failed", !.holder = None] \in JobType
      /\ ~Exhausted(w) => [job EXCEPT !.state = "delayed", !.holder = None, !.made = @ + 1] \in JobType
  <2>1. ~Exhausted(w) => job.made + 1 \in 0 .. MaxAttempts - 1
    BY <1>3 DEF Exhausted
  <2> QED BY <1>1, <2>1 DEF JobType
<1>5. job' \in JobType /\ job'.holder = None /\ job'.state \in {"delayed", "failed"}
  <2>1. CASE run[w].how \in {"gate", "delay"}
    <3>1. job' = [job EXCEPT !.state = "delayed", !.holder = None]
      BY <1>2, <2>1 DEF FailedJob, IsDead
    <3> QED BY <1>1, <1>4, <3>1 DEF JobType
  <2>2. CASE run[w].how \notin {"gate", "delay"}
             /\ (IsDead(w) \/ (run[w].how = "thrown" /\ Exhausted(w)))
    <3>1. job' = [job EXCEPT !.state = "failed", !.holder = None]
      BY <1>2, <2>2 DEF FailedJob
    <3> QED BY <1>1, <1>4, <3>1 DEF JobType
  <2>3. CASE run[w].how \notin {"gate", "delay"}
             /\ ~(IsDead(w) \/ (run[w].how = "thrown" /\ Exhausted(w)))
    <3>1. job' = [job EXCEPT !.state = "delayed", !.holder = None, !.made = @ + 1]
      BY <1>2, <2>3 DEF FailedJob
    <3>2. ~Exhausted(w)
      BY <1>3, <2>3 DEF IsDead, Failure
    <3> QED BY <1>1, <1>4, <3>1, <3>2 DEF JobType
  <2> QED BY <2>1, <2>2, <2>3
<1>6. TypeOK' /\ HolderExecutes' /\ FailuresAreClassified' /\ RecordComesFirst' /\ CompletionStands'
  <2>1. record.status # "NONE"
    BY <1>2, ExecutedIsRecorded
  <2>2. lost' \subseteq Loss /\ lost \subseteq lost'
    BY <1>1, <1>2 DEF TypeOK, Loss
  <2> QED BY <1>1, <1>2, <1>5, <2>1, <2>2, ExecutionEnds DEF TypeOK
<1>7. ClosedIsFinished'
  <2> SUFFICES ASSUME ~Underway', lost' = {}, ~Repairable' PROVE FALSE
    BY DEF ClosedIsFinished
  <2>1. job'.state = "failed" /\ ~Repairable
    BY <1>2, <1>5 DEF Underway, Live, Repairable
  <2> QED BY <1>2, <2>1
<1> QED BY <1>6, <1>7 DEF IInv

(* The move is refused. *)
LEMMA MoveIsRefusedIInv ==
  ASSUME IInv, NEW w \in Worker, MoveIsRefused(w)
  PROVE  IInv'
<1>1. TypeOK
  BY DEF IInv
<1>2. /\ run[w].pc = "move" /\ job.holder # w
      /\ UNCHANGED <<matchVars, account, record, job, search, command, lost, faults>>
      /\ UNCHANGED <<match, rows, link, followed>>
  BY DEF MoveIsRefused, matchVars
<1>3. CASE run[w].how = "gate"
  <2>1. Throws(w, "dead") /\ "dead" \in Failure /\ faults' \in 0 .. MaxFaults
    BY <1>1, <1>2, <1>3 DEF MoveIsRefused, Failure, TypeOK
  <2> QED BY <1>2, <2>1, ThrowIInv
<1>4. CASE run[w].how # "gate"
  <2>1. RunEnds(w)
    BY <1>4 DEF MoveIsRefused
  <2>2. record.status # "NONE"
    BY <1>2, ExecutedIsRecorded
  <2>3. TypeOK' /\ HolderExecutes' /\ FailuresAreClassified' /\ RecordComesFirst'
        /\ CompletionStands'
    BY <1>1, <1>2, <2>1, <2>2, ExecutionEnds DEF TypeOK
  <2>4. ClosedIsFinished'
    BY <1>2 DEF IInv, ClosedIsFinished, Underway, Adding, Live, Repairable, Unfinished
  <2> QED BY <2>3, <2>4 DEF IInv
<1> QED BY <1>3, <1>4

(* A stalled job waits again, or is failed and counted as lost. *)
LEMMA Stalled ==
  ASSUME TypeOK, StallJob
  PROVE  /\ job' \in JobType /\ job'.holder = None /\ lost' \subseteq Loss /\ lost \subseteq lost'
         /\ Live' \/ lost' # {}
<1> DEFINE out == job.stalls >= MaxStalls
<1>1. job \in JobType /\ job.stalls \in 0 .. MaxStalls /\ MaxStalls \in Nat
  BY ConstantsAssumption DEF TypeOK, JobType
<1>2. lost' = lost \cup {l \in {"stalledOut"} : out}
  BY DEF StallJob
<1>3. lost' \subseteq Loss /\ lost \subseteq lost'
  BY <1>2 DEF TypeOK, Loss
<1>4. CASE out
  <2>1. job' = [job EXCEPT !.state = "failed", !.stalls = @, !.holder = None]
    BY <1>4 DEF StallJob
  <2> QED BY <1>1, <1>2, <1>3, <1>4, <2>1 DEF JobType
<1>5. CASE ~out
  <2>1. job' = [job EXCEPT !.state = "waiting", !.stalls = @ + 1, !.holder = None]
    BY <1>5 DEF StallJob
  <2>2. job.stalls + 1 \in 0 .. MaxStalls
    BY <1>1, <1>5
  <2> QED BY <1>1, <1>3, <2>1, <2>2 DEF JobType, Live
<1> QED BY <1>4, <1>5

(* The lock runs out. *)
LEMMA LoseLockIInv ==
  ASSUME IInv, NEW w \in Worker, LoseLock(w)
  PROVE  IInv'
<1>1. TypeOK /\ faults' \in 0 .. MaxFaults
  BY FaultTyped DEF IInv, LoseLock
<1>2. /\ job' \in JobType /\ job'.holder = None /\ lost' \subseteq Loss /\ lost \subseteq lost'
      /\ Live' \/ lost' # {}
  BY <1>1, Stalled DEF LoseLock
<1>3. /\ job.holder = w
      /\ UNCHANGED <<match, rows, link, followed, account, record, run, search, command>>
  BY DEF LoseLock, matchVars
<1>4. TypeOK'
  BY <1>1, <1>2, <1>3 DEF TypeOK
<1>5. HolderExecutes' /\ FailuresAreClassified' /\ CompletionStands'
  BY <1>2, <1>3, ConstantsAssumption
     DEF IInv, HolderExecutes, FailuresAreClassified, CompletionStands
<1>6. RecordComesFirst'
  <2>1. record.status # "NONE"
    BY <1>3, ExecutedIsRecorded DEF IInv, HolderExecutes
  <2> QED BY <1>3, <2>1 DEF RecordComesFirst
<1>7. ClosedIsFinished'
  BY <1>2 DEF ClosedIsFinished, Underway
<1> QED BY <1>4, <1>5, <1>6, <1>7 DEF IInv

(* The worker dies. *)
LEMMA CrashIInv ==
  ASSUME IInv, NEW w \in Worker, Crash(w)
  PROVE  IInv'
<1>1. TypeOK /\ faults' \in 0 .. MaxFaults
  BY FaultTyped DEF IInv, Crash
<1>2. /\ run[w].pc # "idle" /\ RunEnds(w)
      /\ UNCHANGED <<match, rows, link, followed, account, record, search, command>>
  BY DEF Crash, matchVars
<1>3. record.status # "NONE" /\ followed' \in BOOLEAN
  BY <1>1, <1>2, ExecutedIsRecorded DEF TypeOK
<1>4. CASE job.holder = w
  <2>1. /\ job' \in JobType /\ job'.holder = None /\ lost' \subseteq Loss /\ lost \subseteq lost'
        /\ Live' \/ lost' # {}
    BY <1>1, <1>4, Stalled DEF Crash
  <2>2. TypeOK' /\ HolderExecutes' /\ FailuresAreClassified' /\ RecordComesFirst'
        /\ CompletionStands'
    BY <1>1, <1>2, <1>3, <2>1, ExecutionEnds
  <2> QED BY <2>1, <2>2 DEF IInv, ClosedIsFinished, Underway
<1>5. CASE job.holder # w
  <2>1. UNCHANGED <<job, lost>>
    BY <1>5 DEF Crash
  <2>2. TypeOK' /\ HolderExecutes' /\ FailuresAreClassified' /\ RecordComesFirst'
        /\ CompletionStands'
    BY <1>1, <1>2, <1>3, <1>5, <2>1, ExecutionEnds DEF TypeOK
  <2>3. ClosedIsFinished'
    BY <1>2, <2>1 DEF IInv, ClosedIsFinished, Underway, Adding, Live, Repairable, Unfinished
  <2> QED BY <2>2, <2>3 DEF IInv
<1> QED BY <1>4, <1>5

-----------------------------------------------------------------------------
(* The repair commands.                                                    *)

(* A step of a command that only changes what it remembers. *)
LEMMA CommandThinks ==
  ASSUME IInv, record.status # "NONE",
         NEW c \in Command, command[c].pc # "add", command' \in [Command -> CommandType],
         \A d \in Command \ {c} : command'[d] = command[d], faults' \in 0 .. MaxFaults,
         UNCHANGED <<matchVars, account, record, job, run, search, lost>>
  PROVE  IInv'
<1>1. TypeOK'
  BY DEF IInv, TypeOK, matchVars
<1>2. HolderExecutes' /\ FailuresAreClassified' /\ CompletionStands'
  BY DEF IInv, HolderExecutes, FailuresAreClassified, CompletionStands, matchVars
<1>3. RecordComesFirst'
  BY DEF RecordComesFirst
<1>4. Adding => Adding'
  BY DEF Adding
<1>5. ClosedIsFinished'
  BY <1>4 DEF IInv, ClosedIsFinished, Underway, Live, Repairable, Unfinished, matchVars
<1> QED BY <1>1, <1>2, <1>3, <1>5 DEF IInv

(* A command that is under way found a record. *)
LEMMA CommandedIsRecorded ==
  ASSUME IInv, NEW c \in Command, command[c].pc # "idle"
  PROVE  record.status # "NONE"
BY DEF IInv, RecordComesFirst

(* The record is read. *)
LEMMA ReadRecordIInv ==
  ASSUME IInv, NEW c \in Command, ReadRecord(c)
  PROVE  IInv'
<1>1. TypeOK
  BY DEF IInv
<1>2. record.status # "NONE"
  BY DEF ReadRecord
<1> DEFINE pending == record.status = "PENDING"
<1>3. PICK pc \in {"reset", "close", "probe"} :
        command' = [command EXCEPT ![c] = [pc |-> pc, for |-> record.for, pending |-> pending]]
  BY DEF ReadRecord
<1>4. pending \in BOOLEAN /\ record.for \in Puuid \cup {None}
  BY <1>1 DEF TypeOK, RecordType
<1> HIDE DEF pending
<1>5. [pc |-> pc, for |-> record.for, pending |-> pending] \in CommandType
  BY <1>4 DEF CommandType, CommandPc
<1>6. /\ command' \in [Command -> CommandType]
      /\ \A d \in Command \ {c} : command'[d] = command[d]
  BY <1>1, <1>3, <1>5 DEF TypeOK
<1>7. /\ command[c].pc # "add" /\ faults' \in 0 .. MaxFaults
      /\ UNCHANGED <<matchVars, account, record, job, run, search, lost>>
  BY <1>1 DEF ReadRecord, TypeOK
<1> QED BY <1>2, <1>6, <1>7, CommandThinks

(* Reconcile closes the record of a match it found complete. *)
LEMMA CloseRecordIInv ==
  ASSUME IInv, "reconcile" \in Command, CloseRecord
  PROVE  IInv'
<1>1. TypeOK
  BY DEF IInv
<1>2. /\ command["reconcile"].pc = "close" /\ record' = [record EXCEPT !.status = "COMPLETED"]
      /\ lost' = lost \cup {l \in {"closed"} : Unfinished}
      /\ CommandEnds("reconcile")
      /\ UNCHANGED <<match, rows, link, followed, account, job, run, search, faults>>
  BY DEF CloseRecord, matchVars
<1>3. record' \in RecordType /\ record'.status = "COMPLETED"
  BY <1>1, <1>2, StatusWritten DEF Status
<1>4. command' \in [Command -> CommandType]
  BY <1>1, <1>2, CommandIsOver
<1>5. lost' \subseteq Loss
  BY <1>1, <1>2 DEF TypeOK, Loss
<1>6. TypeOK'
  BY <1>1, <1>2, <1>3, <1>4, <1>5 DEF TypeOK
<1>7. HolderExecutes' /\ FailuresAreClassified' /\ CompletionStands'
  BY <1>2 DEF IInv, HolderExecutes, FailuresAreClassified, CompletionStands
<1>8. RecordComesFirst'
  BY <1>3 DEF RecordComesFirst
<1>9. ClosedIsFinished'
  BY <1>2 DEF ClosedIsFinished, Unfinished
<1> QED BY <1>6, <1>7, <1>8, <1>9 DEF IInv

(* Reconcile looks at the job. *)
LEMMA ReconcileProbeIInv ==
  ASSUME IInv, "reconcile" \in Command, ReconcileProbe
  PROVE  IInv'
<1>1. TypeOK /\ record.status # "NONE"
  BY CommandedIsRecorded DEF IInv, ReconcileProbe
<1>2. /\ command' \in [Command -> CommandType]
      /\ \A d \in Command \ {"reconcile"} : command'[d] = command[d]
  <2>1. {"publish", "mark"} \subseteq CommandPc
    BY DEF CommandPc, EnqueuePc
  <2> QED BY <1>1, <2>1, CommandGoes, CommandIsOver DEF ReconcileProbe
<1>3. /\ command["reconcile"].pc # "add"
      /\ UNCHANGED <<matchVars, account, record, job, run, search, lost>>
  BY DEF ReconcileProbe
<1>4. faults' \in 0 .. MaxFaults
  BY <1>1, FaultTyped DEF ReconcileProbe, TypeOK
<1> QED BY <1>1, <1>2, <1>3, <1>4, CommandThinks

(* Retry makes the record pending. *)
LEMMA ResetRecordIInv ==
  ASSUME IInv, "retry" \in Command, ResetRecord
  PROVE  IInv'
<1>1. TypeOK
  BY DEF IInv
<1>2. record' \in RecordType /\ record'.status = "PENDING"
  BY <1>1, StatusWritten DEF ResetRecord, Status
<1>3. command' \in [Command -> CommandType]
  <2>1. "publish" \in CommandPc
    BY DEF CommandPc, EnqueuePc
  <2> QED BY <1>1, <2>1, CommandGoes DEF ResetRecord
<1>4. search' \in [Searcher -> SearchType]
  BY <1>1 DEF TypeOK, ResetRecord
<1>5. UNCHANGED <<matchVars, account, job, run, lost, faults>>
  BY DEF ResetRecord
<1> QED BY <1>2, <1>3, <1>4, <1>5, RepairableIInv

(* A command publishes. *)
LEMMA RepublishIInv ==
  ASSUME IInv, NEW c \in Command, Republish(c)
  PROVE  IInv'
<1>1. TypeOK
  BY DEF IInv
<1>2. command[c].pc \in EnqueuePc
  BY DEF Republish, EnqueueMatch, EnqueueFails, EnqueuePc
<1>3. record.status # "NONE"
  BY <1>2, CommandedIsRecorded DEF EnqueuePc
<1>4. command[c].for \in Puuid \cup {None}
  BY <1>1 DEF TypeOK, CommandType
<1>5. UNCHANGED <<matchVars, account, record, run, search>>
  BY DEF Republish
<1>6. search' \in [Searcher -> SearchType]
  BY <1>1, <1>5 DEF TypeOK
<1>7. CASE \E next \in EnqueuePc \cup {"mark", "idle"} :
             /\ EnqueueMatch(command[c].pc, next, command[c].for)
             /\ IF next = "idle" THEN CommandEnds(c) ELSE CommandGoto(c, next)
  <2>1. PICK next \in EnqueuePc \cup {"mark", "idle"} :
               /\ EnqueueMatch(command[c].pc, next, command[c].for)
               /\ IF next = "idle" THEN CommandEnds(c) ELSE CommandGoto(c, next)
    BY <1>7
  <2>2. /\ command' \in [Command -> CommandType]
        /\ next = "add" => command'[c].pc = "add"
        /\ \A d \in Command \ {c} : command'[d] = command[d]
    <3>1. next \in CommandPc
      BY DEF CommandPc
    <3>2. CASE next = "idle"
      BY <1>1, <2>1, <3>2, CommandIsOver
    <3>3. CASE next # "idle"
      BY <1>1, <2>1, <3>1, <3>3, CommandGoes
    <3> QED BY <3>2, <3>3
  <2>3. /\ next = "add" => Adding'
        /\ command[c].pc # "add" => (Adding => Adding')
    BY <1>5, <2>2 DEF Adding
  <2>4. PICK pc \in EnqueuePc : pc = command[c].pc
    BY <1>2
  <2>5. PICK r \in Puuid \cup {None} : r = command[c].for
    BY <1>4
  <2>6. EnqueueMatch(pc, next, r) /\ (pc = "publish" => (Adding => Adding'))
    BY <2>1, <2>3, <2>4, <2>5
  <2> QED BY <1>3, <1>5, <1>6, <2>2, <2>3, <2>6, PublicationIInv
<1>8. CASE CommandEnds(c) /\ EnqueueFails(command[c].pc)
  <2>1. /\ command' \in [Command -> CommandType]
        /\ \A d \in Command \ {c} : command'[d] = command[d]
    BY <1>1, <1>8, CommandIsOver
  <2>2. command[c].pc # "add" => (Adding => Adding')
    BY <1>5, <2>1 DEF Adding
  <2>3. PICK pc \in EnqueuePc : pc = command[c].pc
    BY <1>2
  <2>4. EnqueueFails(pc) /\ (pc # "add" => (Adding => Adding'))
    BY <1>8, <2>2, <2>3
  <2> QED BY <1>3, <1>5, <1>6, <2>1, <2>4, WithdrawalIInv
<1> QED BY <1>7, <1>8 DEF Republish

(* A command writes QUEUED. *)
LEMMA RequeueIInv ==
  ASSUME IInv, NEW c \in Command, Requeue(c)
  PROVE  IInv'
<1>1. TypeOK
  BY DEF IInv
<1>2. record' \in RecordType /\ record'.status = "QUEUED"
  BY <1>1, StatusWritten DEF Requeue, Status
<1>3. command' \in [Command -> CommandType]
  BY <1>1, CommandIsOver DEF Requeue
<1>4. search' \in [Searcher -> SearchType]
  BY <1>1 DEF TypeOK, Requeue
<1>5. UNCHANGED <<matchVars, account, job, run, lost, faults>>
  BY DEF Requeue
<1> QED BY <1>2, <1>3, <1>4, <1>5, RepairableIInv

-----------------------------------------------------------------------------
(* Every step keeps the inductive invariant. *)
LEMMA NextIInv == IInv /\ [Next]_vars => IInv'
<1> SUFFICES ASSUME IInv, [Next]_vars PROVE IInv'
  OBVIOUS
<1>1. ASSUME NEW p \in Searcher, Discovery(p) PROVE IInv'
  BY <1>1, LinkParticipantsIInv, ClassifyIInv, ProbeJobIInv, CreateRecordIInv,
     PublishDiscoveredIInv, MarkQueuedIInv DEF Discovery
<1>2. ASSUME NEW w \in Worker, Processor(w) PROVE IInv'
  BY <1>2, TakeJobIInv, MarkRunningIInv, InspectMatchIInv, FetchMatchIInv, WriteMatchIInv,
     CommitMatchIInv, RecordCompletedIInv, FollowUpIInv, RecordFailureIInv, MoveJobIInv,
     MoveIsRefusedIInv DEF Processor
<1>3. ASSUME NEW w \in Worker, Mishap(w) PROVE IInv'
  BY <1>3, IsThrottledIInv, IsUnavailableIInv, IsRefusedIInv, LoseLockIInv, CrashIInv DEF Mishap
<1>4. CASE Reconcile
  BY <1>4, ReadRecordIInv, CloseRecordIInv, ReconcileProbeIInv, RepublishIInv, RequeueIInv
     DEF Reconcile
<1>5. CASE Retry
  BY <1>5, ReadRecordIInv, ResetRecordIInv, RepublishIInv, RequeueIInv DEF Retry
<1>6. CASE UNCHANGED vars
  <2>1. UNCHANGED <<match, rows, link, followed, account, record, job, run, search, command,
                    lost, faults>>
    BY <1>6 DEF vars, matchVars
  <2>2. TypeOK' /\ HolderExecutes' /\ FailuresAreClassified' /\ CompletionStands'
    BY <2>1 DEF IInv, TypeOK, HolderExecutes, FailuresAreClassified, CompletionStands
  <2>3. RecordComesFirst' /\ ClosedIsFinished'
    BY <2>1 DEF IInv, RecordComesFirst, ClosedIsFinished, Underway, Adding, Live, Repairable,
                Unfinished
  <2> QED BY <2>2, <2>3 DEF IInv
<1> QED BY <1>1, <1>2, <1>3, <1>4, <1>5, <1>6 DEF Next

(* The inductive invariant is an invariant: the lock holder is executing the
   active job and counts its attempts, nothing comes before the record, and a
   record that is closed to the repair commands belongs to a finished match,
   or has a job behind it or one that is about to be added. *)
THEOREM Inductive == Spec => []IInv
<1>1. Init => IInv
  BY InitIInv
<1>2. IInv /\ [Next]_vars => IInv'
  BY NextIInv
<1> QED BY <1>1, <1>2, PTL DEF Spec

(* What the code stores has its type: the attempts of the job stay below the
   maximum, its stalls within theirs. *)
THEOREM TypeCorrect == Spec => []TypeOK
<1>1. IInv => TypeOK
  BY DEF IInv
<1> QED BY <1>1, Inductive, PTL

(* Neither a match somebody asked for nor the follow-ups of a completed one
   are forgotten, in whatever order discoveries, executions, failures, crashes
   and repair commands write the status of the match and of its record: once
   no job is left to go on or about to be added, a repair command finds the record. *)
THEOREM NothingForgotten == Spec => []NothingIsForgotten
<1>1. IInv => NothingIsForgotten
  <2>1. record.status = "NONE" /\ match = "COMPLETED" /\ IInv => FALSE
    BY DEF IInv, RecordComesFirst
  <2> QED BY <2>1 DEF IInv, ClosedIsFinished, NothingIsForgotten, NothingIsStranded,
                      FollowUpsAreNotForgotten, Unfinished
<1> QED BY <1>1, Inductive, PTL

=============================================================================
