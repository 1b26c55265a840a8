--------------------------- MODULE MatchIngestion ---------------------------
(***************************************************************************)
(* One match on its way into the database: the discoveries that ask for it,*)
(* the durable IngestionJobRecord, the one BullMQ job with its             *)
(* deterministic id, the worker executions of that job, and the two        *)
(* repair commands (reconcile and retry).                                  *)
(*                                                                         *)
(* A participant row is a slot; what it holds is a PUUID and the linked    *)
(* account, and an account is named by its PUUID. Reads that follow one    *)
(* another with no write in between are one step; every write to           *)
(* PostgreSQL or Redis is a step of its own.                               *)
(***************************************************************************)
EXTENDS Naturals, FiniteSets

CONSTANTS
  Slot, Puuid,
  Roster,         \* what Riot answers: the PUUID in each slot
  Searcher,       \* the PUUIDs whose match list is discovered
  StaleRows,      \* the wrong rows an earlier ingestion may have stored
  Worker,         \* executions of the processor, in any worker process
  Command,        \* the repair commands in use
  CommandsAtOnce, \* exploration bound
  MaxAttempts, MaxStalls,      \* BullMQ attempts, stalled recoveries
  TimelineRequired,
  FaultKinds,     \* which failures occur in this instance
  MaxFaults,      \* exploration bound
  None

FaultKind == {"lostLock", "crash", "throttled", "unavailable", "refused", "database", "redis"}

ASSUME ConstantsAssumption ==
  /\ Roster \in [Slot -> Puuid]
  /\ Searcher \subseteq {Roster[s] : s \in Slot}
  /\ StaleRows \subseteq [Slot -> Puuid]
  /\ Command \subseteq {"reconcile", "retry"}
  /\ TimelineRequired \in BOOLEAN
  /\ FaultKinds \subseteq FaultKind
  /\ {MaxStalls, MaxFaults, CommandsAtOnce} \subseteq Nat /\ MaxAttempts \in Nat \ {0}
  /\ None \notin Puuid /\ None \notin Worker /\ None \notin [Slot -> Puuid]

VARIABLES
  match,          \* ingestionStatus of the Match row
  rows,           \* the PUUID of each participant row
  link,           \* the account of each participant row
  followed,       \* have the follow-ups seen these rows, in a completed match?
  account,        \* the accounts that exist
  record,         \* the durable job record: its status and requester
  job,            \* the BullMQ job
  run,            \* the executions of the processor, in memory
  search,         \* the discoveries, in memory
  command,        \* the repair commands, in memory
  lost,           \* history: how this match slipped out of everyone's sight
  faults          \* exploration counter

matchVars == <<match, rows, link, followed>>
vars == <<matchVars, account, record, job, run, search, command, lost, faults>>

-----------------------------------------------------------------------------
Status == {"PENDING", "QUEUED", "RUNNING", "COMPLETED", "FAILED", "DEAD_LETTERED"}
Loss == {"stalledOut", "unrecorded", "masked", "undone", "closed", "withdrawn"}

NoRun == [pc |-> "idle", for |-> None, made |-> 0, force |-> FALSE, links |-> {}, how |-> "none"]
NoSearch == [pc |-> "idle", known |-> FALSE]
NoCommand == [pc |-> "idle", for |-> None, pending |-> FALSE]
NoJob == [state |-> "none", for |-> None, made |-> 0, stalls |-> 0, holder |-> None]

Live == job.state \in {"waiting", "delayed", "active"}
Unfinished == match # "COMPLETED" \/ ~followed

\* A job is there to go on, or none is and somebody is about to add one.
Adding == (\E p \in Searcher : search[p].pc = "add") \/ (\E c \in Command : command[c].pc = "add")
Underway == Live \/ (job.state = "none" /\ Adding)

Linked == {link[s] : s \in Slot} \ {None}
Present == IF rows = None THEN {} ELSE {rows[s] : s \in Slot}

\* The rows whose PUUID belongs to one of these accounts, linked where they
\* were not linked yet.
LinkMissing(accounts) ==
  [s \in Slot |-> IF link[s] = None /\ rows # None /\ rows[s] \in accounts
                  THEN rows[s] ELSE link[s]]

\* A match nobody has asked for, or one completed earlier with wrong rows
\* that are linked to the accounts known by then.
Init ==
  /\ \/ /\ match = "NONE" /\ rows = None /\ account = {}
        /\ record = [status |-> "NONE", for |-> None]
        /\ followed = FALSE
     \/ /\ match = "COMPLETED" /\ rows \in StaleRows
        /\ account \in SUBSET {rows[s] : s \in Slot}
        /\ record \in [status : {"COMPLETED"}, for : Puuid]
        /\ followed = TRUE
  /\ link = [s \in Slot |-> IF rows # None /\ rows[s] \in account THEN rows[s] ELSE None]
  /\ job = NoJob
  /\ run = [w \in Worker |-> NoRun]
  /\ search = [p \in Searcher |-> NoSearch]
  /\ command = [c \in Command |-> NoCommand]
  /\ lost = {} /\ faults = 0

-----------------------------------------------------------------------------
(* Failures, within the exploration bound.                                 *)

Fault(kind) ==
  /\ kind \in FaultKinds /\ faults < MaxFaults
  /\ faults' = faults + 1

-----------------------------------------------------------------------------
(* MatchIngestionProducer.enqueueMatch.                                    *)

Repairable == record.status \in {"PENDING", "QUEUED", "FAILED", "DEAD_LETTERED"}

EnqueuePc == {"publish", "remove", "add"}

\* One step of a publication at pc, which goes on at next: it looks for the
\* job, removes a finished one, whoever replaced it meanwhile, and adds its own
\* unless one is there. An active job is locked and cannot be removed.
EnqueueMatch(pc, next, requester) ==
  \/ /\ pc = "publish"
     /\ next = IF Live THEN "mark" ELSE IF job.state = "none" THEN "add" ELSE "remove"
     /\ UNCHANGED <<job, lost, faults>>
  \/ /\ pc = "remove" /\ next = (IF job.state = "active" THEN "idle" ELSE "add")
     /\ job' = IF job.state = "active" THEN job ELSE NoJob
     /\ UNCHANGED <<lost, faults>>
  \/ /\ pc = "add" /\ next = "mark"
     /\ job' = IF job.state # "none" THEN job
               ELSE [NoJob EXCEPT !.state = "waiting", !.for = requester]
     /\ UNCHANGED <<lost, faults>>

\* Redis fails; after the removal that takes the job away for good.
EnqueueFails(pc) ==
  /\ pc \in EnqueuePc /\ Fault("redis") /\ UNCHANGED job
  /\ lost' = lost \cup {l \in {"withdrawn"} : pc = "add" /\ ~Underway' /\ ~Repairable /\ Unfinished}

-----------------------------------------------------------------------------
(* enqueueDiscoveredMatches, for this match and the account of p.          *)

SearchGoto(p, pc) == search' = [search EXCEPT ![p].pc = pc]

\* The account is upserted, and rows with its PUUID are linked to it.
LinkParticipants(p) ==
  /\ search[p].pc = "idle"
  /\ account' = account \cup {p}
  /\ link' = LinkMissing({p})
  /\ SearchGoto(p, "classify")
  /\ UNCHANGED <<match, rows, followed, record, job, run, command, lost, faults>>

\* Mutant: a complete match is complete for everybody.
ClassifyByMatch(p) ==
  /\ search[p].pc = "classify"
  /\ search' = [search EXCEPT ![p] =
       [pc |-> IF match = "NONE" \/ (match # "COMPLETED" /\ record.status \in {"PENDING", "QUEUED"})
               THEN "probe" ELSE "idle",
        known |-> record.status # "NONE"]]
  /\ UNCHANGED <<matchVars, account, record, job, run, command, lost, faults>>

\* Matches, links and records are read before the states of the jobs.
Classify(p) ==
  /\ search[p].pc = "classify"
  /\ LET repair == record.status \in {"PENDING", "QUEUED"}
         missing == match = "NONE" \/ p \notin Linked
         complete == match = "COMPLETED" /\ p \in Linked
         needed == ~complete /\ (repair \/ missing)
     IN  search' = [search EXCEPT ![p] =
           [pc |-> IF needed THEN "probe" ELSE "idle", known |-> record.status # "NONE"]]
  /\ UNCHANGED <<matchVars, account, record, job, run, command, lost, faults>>

\* Waiting, active and delayed jobs are left alone. When Redis fails, a job
\* that cannot be fetched counts as none (getJob is inside the try block), one
\* whose state cannot be read ends the discovery (getState is returned from it).
ProbeJob(p) ==
  /\ search[p].pc = "probe"
  /\ LET absent == IF search[p].known THEN "publish" ELSE "create"
     IN  \/ SearchGoto(p, IF Live THEN "idle" ELSE absent) /\ UNCHANGED faults
         \/ Fault("redis") /\ \E pc \in {absent, "idle"} : SearchGoto(p, pc)
  /\ UNCHANGED <<matchVars, account, record, job, run, command, lost>>

\* createIdempotent finds the record or creates it; of two that find nothing
\* one is refused by the unique key, which ends its discovery.
CreateRecord(p) ==
  /\ search[p].pc = "create"
  /\ \/ /\ record.status = "NONE"
        /\ record' = [status |-> "PENDING", for |-> p]
        /\ SearchGoto(p, "publish")
     \/ /\ record.status # "NONE"
        /\ \E pc \in {"publish", "idle"} : SearchGoto(p, pc)
        /\ UNCHANGED record
  /\ UNCHANGED <<matchVars, account, job, run, command, lost, faults>>

PublishDiscovered(p) ==
  /\ \/ \E next \in EnqueuePc \cup {"mark", "idle"} :
          EnqueueMatch(search[p].pc, next, p) /\ SearchGoto(p, next)
     \/ SearchGoto(p, "idle") /\ UNCHANGED command /\ EnqueueFails(search[p].pc)
  /\ UNCHANGED <<matchVars, account, record, run, command>>

\* updateStatus writes QUEUED whatever the record says by now.
MarkQueued(p) ==
  /\ search[p].pc = "mark"
  /\ record' = [status |-> "QUEUED", for |-> p]
  /\ SearchGoto(p, "idle")
  /\ UNCHANGED <<matchVars, account, job, run, command, lost, faults>>

Discovery(p) ==
  \/ LinkParticipants(p) \/ Classify(p) \/ ProbeJob(p)
  \/ CreateRecord(p) \/ PublishDiscovered(p) \/ MarkQueued(p)

-----------------------------------------------------------------------------
(* processMatchIngestionJob, execution w.                                  *)

RunGoto(w, pc) == run' = [run EXCEPT ![w].pc = pc]
RunEnds(w) == run' = [run EXCEPT ![w] = NoRun]
Throws(w, how) == run' = [run EXCEPT ![w].pc = "fail", ![w].how = how]

\* BullMQ hands out the job.
TakeJob(w) ==
  /\ run[w].pc = "idle" /\ job.state \in {"waiting", "delayed"}
  /\ job' = [job EXCEPT !.state = "active", !.holder = w]
  /\ run' = [run EXCEPT ![w] = [NoRun EXCEPT !.pc = "start", !.for = job.for, !.made = job.made]]
  /\ UNCHANGED <<matchVars, account, record, search, command, lost, faults>>

\* RUNNING is written whatever the record says by now; once the job is gone,
\* it hides the record from the repair commands.
MarkRunning(w) ==
  /\ run[w].pc = "start"
  /\ record' = [record EXCEPT !.status = "RUNNING"]
  /\ lost' = lost \cup {l \in {"masked"} : ~Underway /\ Unfinished}
  /\ RunGoto(w, "inspect")
  /\ UNCHANGED <<matchVars, account, job, search, command, faults>>

\* Mutant: a stored match is taken for a completed one.
InspectStored(w) ==
  /\ run[w].pc = "inspect"
  /\ IF run[w].for \in Present
     THEN /\ link' = LinkMissing(account)
          /\ run' = [run EXCEPT ![w].pc = "record", ![w].how = "again"]
     ELSE /\ run' = [run EXCEPT ![w].pc = "fetch", ![w].force = (match = "COMPLETED")]
          /\ UNCHANGED link
  /\ UNCHANGED <<match, rows, followed, account, record, job, search, command, lost, faults>>

\* A completed match that shows the requester is linked and recorded again;
\* one that does not is fetched again and overwritten.
InspectMatch(w) ==
  /\ run[w].pc = "inspect"
  /\ IF match = "COMPLETED" /\ run[w].for \in Present
     THEN /\ link' = LinkMissing(account)
          /\ run' = [run EXCEPT ![w].pc = "record", ![w].how = "again"]
     ELSE /\ run' = [run EXCEPT ![w].pc = "fetch", ![w].force = (match = "COMPLETED")]
          /\ UNCHANGED link
  /\ UNCHANGED <<match, rows, followed, account, record, job, search, command, lost, faults>>

\* The cooldown gate lets the fetch pass, Riot answers, the accounts are
\* resolved, and persistNormalizedMatch reads the stored match.
FetchMatch(w) ==
  /\ run[w].pc = "fetch"
  /\ IF match = "COMPLETED" /\ ~run[w].force
     THEN /\ link' = LinkMissing(account)
          /\ RunGoto(w, "commit")
     ELSE /\ run' = [run EXCEPT ![w].pc = "write", ![w].links = account]
          /\ UNCHANGED link
  /\ UNCHANGED <<match, rows, followed, account, record, job, search, command, lost, faults>>

\* The transaction of persistNormalizedMatch: a row whose PUUID has no known
\* account keeps the account it had.
WriteMatch(w) ==
  /\ run[w].pc = "write"
  /\ match' = "IN_PROGRESS"
  /\ rows' = Roster
  /\ link' = [s \in Slot |-> IF Roster[s] \in run[w].links THEN Roster[s] ELSE link[s]]
  /\ followed' = (followed /\ rows = Roster)
  /\ lost' = lost \cup {l \in {"undone"} :
                match = "COMPLETED" /\ (~run[w].force \/ job.holder # w)}
  /\ run' = [run EXCEPT ![w].pc = "commit", ![w].links = {}]
  /\ UNCHANGED <<account, record, job, search, command, faults>>

\* The timeline is fetched, or is not needed: persistTimelineAndMetrics
\* completes the match.
CommitMatch(w) ==
  /\ run[w].pc = "commit"
  /\ match' = "COMPLETED"
  /\ RunGoto(w, "record")
  /\ UNCHANGED <<rows, link, followed, account, record, job, search, command, lost, faults>>

RecordCompleted(w) ==
  /\ run[w].pc = "record"
  /\ record' = [record EXCEPT !.status = "COMPLETED"]
  /\ lost' = lost \cup {l \in {"closed"} : Unfinished /\ job.holder # w}
  /\ RunGoto(w, "follow")
  /\ UNCHANGED <<matchVars, account, job, search, command, faults>>

\* Mutant: a match found complete needs no follow-ups.
FollowUpOnce(w) ==
  /\ run[w].pc = "follow"
  /\ followed' = (IF run[w].how = "again" THEN followed ELSE match = "COMPLETED")
  /\ job' = IF job.holder = w THEN [job EXCEPT !.state = "completed", !.holder = None] ELSE job
  /\ RunEnds(w)
  /\ UNCHANGED <<match, rows, link, account, record, search, command, lost, faults>>

\* Aggregation, expansion, rank enrichment and caches, which look at completed
\* matches only; then the execution that holds the lock completes the job.
FollowUp(w) ==
  /\ run[w].pc = "follow"
  /\ followed' = (match = "COMPLETED")
  /\ job' = IF job.holder = w THEN [job EXCEPT !.state = "completed", !.holder = None] ELSE job
  /\ RunEnds(w)
  /\ UNCHANGED <<match, rows, link, account, record, search, command, lost, faults>>

-----------------------------------------------------------------------------
(* handleClassifiedFailure and delayJobForSharedCooldown.                  *)

\* The shared cooldown gate, a 429 or a deferral; with a required timeline
\* also while it is fetched.
IsThrottled(w) ==
  /\ Fault("throttled")
  /\ \/ run[w].pc = "fetch" /\ \E how \in {"gate", "delay"} : Throws(w, how)
     \/ run[w].pc = "commit" /\ TimelineRequired /\ Throws(w, "delay")
  /\ UNCHANGED <<matchVars, account, record, job, search, command, lost>>

\* Every step may throw, the follow-ups only where the aggregation marker is
\* read first. Before the record is found there is none to write the failure to.
StepThrows(w, how) ==
  \/ run[w].pc = "start" /\ run' = [run EXCEPT ![w].pc = "move", ![w].how = how]
  \/ /\ run[w].pc \in {"inspect", "fetch", "write", "commit", "record"}
        \/ (run[w].pc = "follow" /\ run[w].how = "again")
     /\ Throws(w, how)

\* Riot or the database is unavailable.
IsUnavailable(w) ==
  /\ Fault("unavailable") /\ StepThrows(w, "retry")
  /\ UNCHANGED <<matchVars, account, record, job, search, command, lost>>

\* 404, an invalid answer, missing authorisation, or any other error, of the
\* database too, is permanent.
IsRefused(w) ==
  /\ Fault("refused") /\ StepThrows(w, "dead")
  /\ UNCHANGED <<matchVars, account, record, job, search, command, lost>>

\* Mutant: one attempt too many.
ExhaustedLate(w) == run[w].made >= MaxAttempts

Exhausted(w) == run[w].made + 1 >= MaxAttempts
IsDead(w) == run[w].how = "dead" \/ (run[w].how = "retry" /\ Exhausted(w))

\* The outcome is recorded before the job is moved; if that write throws,
\* BullMQ sees an ordinary error, or the gate's try block a new failure.
RecordFailure(w) ==
  /\ run[w].pc = "fail"
  /\ \/ /\ record' = [record EXCEPT !.status = IF IsDead(w) THEN "DEAD_LETTERED" ELSE "FAILED"]
        /\ RunGoto(w, "move")
        /\ UNCHANGED faults
     \/ /\ Fault("database")
        /\ run' = [run EXCEPT ![w] = IF @.how = "gate" THEN [@ EXCEPT !.how = "retry"]
                                     ELSE [@ EXCEPT !.pc = "move", !.how = "thrown"]]
        /\ UNCHANGED record
  /\ UNCHANGED <<matchVars, account, job, search, command, lost>>

\* Delayed without an attempt, failed for good, or one attempt more.
FailedJob(w) ==
  CASE run[w].how \in {"gate", "delay"} -> [job EXCEPT !.state = "delayed", !.holder = None]
    [] IsDead(w) \/ (run[w].how = "thrown" /\ Exhausted(w)) ->
         [job EXCEPT !.state = "failed", !.holder = None]
    [] OTHER -> [job EXCEPT !.state = "delayed", !.holder = None, !.made = @ + 1]

MoveJob(w) ==
  /\ run[w].pc = "move" /\ job.holder = w
  /\ job' = FailedJob(w)
  /\ lost' = lost \cup {l \in {"unrecorded"} : job'.state = "failed" /\ ~Repairable}
  /\ RunEnds(w)
  /\ UNCHANGED <<matchVars, account, record, search, command, faults>>

\* Without the lock the move is refused. Thrown inside the try block of the
\* gate, the refusal is classified once more, as a permanent failure.
MoveIsRefused(w) ==
  /\ run[w].pc = "move" /\ job.holder # w
  /\ IF run[w].how = "gate" THEN Throws(w, "dead") ELSE RunEnds(w)
  /\ UNCHANGED <<matchVars, account, record, job, search, command, lost, faults>>

\* BullMQ gives a job whose lock ran out to another worker, and fails it when
\* that happens too often.
StallJob ==
  LET out == job.stalls >= MaxStalls
  IN  /\ job' = [job EXCEPT !.state = IF out THEN "failed" ELSE "waiting",
                             !.stalls = IF out THEN @ ELSE @ + 1, !.holder = None]
      /\ lost' = lost \cup {l \in {"stalledOut"} : out}

\* The worker does not renew its lock in time and goes on.
LoseLock(w) ==
  /\ Fault("lostLock") /\ job.holder = w
  /\ StallJob
  /\ UNCHANGED <<matchVars, account, record, run, search, command>>

\* The worker dies.
Crash(w) ==
  /\ Fault("crash") /\ run[w].pc # "idle"
  /\ IF job.holder = w THEN StallJob ELSE UNCHANGED <<job, lost>>
  /\ RunEnds(w)
  /\ UNCHANGED <<matchVars, account, record, search, command>>

Processor(w) ==
  \/ TakeJob(w) \/ MarkRunning(w) \/ InspectMatch(w)
  \/ FetchMatch(w) \/ WriteMatch(w) \/ CommitMatch(w) \/ RecordCompleted(w) \/ FollowUp(w)
  \/ RecordFailure(w) \/ MoveJob(w) \/ MoveIsRefused(w)

Mishap(w) ==
  IsThrottled(w) \/ IsUnavailable(w) \/ IsRefused(w) \/ LoseLock(w) \/ Crash(w)

-----------------------------------------------------------------------------
(* reconcilePending and the retry command, for this record.                *)

CommandGoto(c, pc) == command' = [command EXCEPT ![c].pc = pc]
CommandEnds(c) == command' = [command EXCEPT ![c] = NoCommand]

\* The record is read, and for reconcile the match.
ReadRecord(c) ==
  /\ command[c].pc = "idle"
  /\ Cardinality({d \in Command : command[d].pc # "idle"}) < CommandsAtOnce
  /\ record.status \in (IF c = "reconcile" THEN {"PENDING", "QUEUED"}
                                            ELSE {"FAILED", "DEAD_LETTERED"})
  /\ command' = [command EXCEPT ![c] =
       [pc |-> IF c = "retry" THEN "reset" ELSE IF match = "COMPLETED" THEN "close" ELSE "probe",
        for |-> record.for, pending |-> record.status = "PENDING"]]
  /\ UNCHANGED <<matchVars, account, record, job, run, search, lost, faults>>

\* The match was complete when it was read: reconcile asks for no more, not
\* for the follow-ups either.
CloseRecord ==
  /\ command["reconcile"].pc = "close"
  /\ record' = [record EXCEPT !.status = "COMPLETED"]
  /\ lost' = lost \cup {l \in {"closed"} : Unfinished}
  /\ CommandEnds("reconcile")
  /\ UNCHANGED <<matchVars, account, job, run, search, faults>>

\* A failing Redis is taken as in ProbeJob.
ReconcileProbe ==
  /\ command["reconcile"].pc = "probe"
  /\ \/ /\ IF ~Live THEN CommandGoto("reconcile", "publish")
           ELSE IF command["reconcile"].pending THEN CommandGoto("reconcile", "mark")
           ELSE CommandEnds("reconcile")
        /\ UNCHANGED faults
     \/ /\ Fault("redis")
        /\ CommandGoto("reconcile", "publish") \/ CommandEnds("reconcile")
  /\ UNCHANGED <<matchVars, account, record, job, run, search, lost>>

ResetRecord ==
  /\ command["retry"].pc = "reset"
  /\ record' = [record EXCEPT !.status = "PENDING"]
  /\ CommandGoto("retry", "publish")
  /\ UNCHANGED <<matchVars, account, job, run, search, lost, faults>>

Republish(c) ==
  /\ \/ \E next \in EnqueuePc \cup {"mark", "idle"} :
          /\ EnqueueMatch(command[c].pc, next, command[c].for)
          /\ IF next = "idle" THEN CommandEnds(c) ELSE CommandGoto(c, next)
     \/ CommandEnds(c) /\ UNCHANGED search /\ EnqueueFails(command[c].pc)
  /\ UNCHANGED <<matchVars, account, record, run, search>>

Requeue(c) ==
  /\ command[c].pc = "mark"
  /\ record' = [record EXCEPT !.status = "QUEUED"]
  /\ CommandEnds(c)
  /\ UNCHANGED <<matchVars, account, job, run, search, lost, faults>>

Reconcile ==
  /\ "reconcile" \in Command
  /\ \/ ReadRecord("reconcile") \/ CloseRecord \/ ReconcileProbe
     \/ Republish("reconcile") \/ Requeue("reconcile")

Retry ==
  /\ "retry" \in Command
  /\ ReadRecord("retry") \/ ResetRecord \/ Republish("retry") \/ Requeue("retry")

-----------------------------------------------------------------------------
Next ==
  \/ \E p \in Searcher : Discovery(p)
  \/ \E w \in Worker : Processor(w) \/ Mishap(w)
  \/ Reconcile \/ Retry

\* Players come back and refresh, and workers run; nobody has to type a
\* repair command.
Fairness ==
  /\ \A p \in Searcher : WF_vars(Discovery(p))
  /\ \A w \in Worker : WF_vars(Processor(w))

Spec == Init /\ [][Next]_vars /\ Fairness

-----------------------------------------------------------------------------
(* Properties.                                                             *)

RecordType == [status : Status \cup {"NONE"}, for : Puuid \cup {None}]
JobType == [state : {"none", "waiting", "delayed", "active", "completed", "failed"},
            for : Puuid \cup {None}, made : 0 .. MaxAttempts - 1,
            stalls : 0 .. MaxStalls, holder : Worker \cup {None}]
Failure == {"gate", "delay", "retry", "dead", "thrown"}
RunPc == {"idle", "start", "inspect", "fetch", "write", "commit", "record", "follow",
          "fail", "move"}
RunType == [pc : RunPc, for : Puuid \cup {None}, made : 0 .. MaxAttempts - 1,
            force : BOOLEAN, links : SUBSET Puuid, how : {"none", "again"} \cup Failure]
SearchPc == {"idle", "classify", "probe", "create", "mark"} \cup EnqueuePc
SearchType == [pc : SearchPc, known : BOOLEAN]
CommandPc == {"idle", "close", "probe", "reset", "mark"} \cup EnqueuePc
CommandType == [pc : CommandPc, for : Puuid \cup {None}, pending : BOOLEAN]

\* Every variable holds what the code can store in it.
TypeOK ==
  /\ match \in {"NONE", "IN_PROGRESS", "COMPLETED"}
  /\ rows \in [Slot -> Puuid] \cup {None}
  /\ link \in [Slot -> Puuid \cup {None}]
  /\ followed \in BOOLEAN
  /\ account \subseteq Puuid
  /\ record \in RecordType
  /\ job \in JobType
  /\ run \in [Worker -> RunType]
  /\ search \in [Searcher -> SearchType]
  /\ command \in [Command -> CommandType]
  /\ lost \subseteq Loss
  /\ faults \in 0 .. MaxFaults

\* Whenever no job is there to go on (whoever is still in the middle of
\* something), a match that was asked for is complete, or its record is one that
\* a repair command looks for: no order of blind status writes, crashes and
\* duplicate deliveries strands it, except those that lost names.
NothingIsStranded ==
  ~Underway /\ lost = {} => match = "COMPLETED" \/ Repairable \/ record.status = "NONE"

\* A completed match has had its follow-ups (aggregation, expansion, rank
\* enrichment), although the process may die between the commit and them.
FollowUpsAreNotForgotten ==
  ~Underway /\ lost = {} /\ match = "COMPLETED" => followed \/ Repairable

\* Neither a match nor what follows from it is forgotten.
NothingIsForgotten == NothingIsStranded /\ FollowUpsAreNotForgotten

-----------------------------------------------------------------------------
(* The inductive invariant.                                                *)

\* Who holds the lock has been executing the active job since it was handed
\* out, and counts its attempts.
HolderExecutes ==
  \A w \in Worker : job.holder = w =>
    job.state = "active" /\ run[w].pc # "idle" /\ run[w].made = job.made

\* What is recorded or moved as a failure has been classified as one.
FailuresAreClassified ==
  \A w \in Worker : run[w].pc \in {"fail", "move"} => run[w].how \in Failure

\* Who holds the lock and goes on to record the completion has it before him.
CompletionStands ==
  "undone" \notin lost =>
    \A w \in Worker : job.holder = w /\ run[w].pc \in {"record", "follow"} => match = "COMPLETED"

\* Nothing comes before the record.
RecordComesFirst ==
  record.status = "NONE" =>
    /\ match = "NONE" /\ job.state = "none"
    /\ \A w \in Worker : run[w].pc = "idle"
    /\ \A p \in Searcher : search[p].pc \notin EnqueuePc \cup {"mark"} /\ ~search[p].known
    /\ \A c \in Command : command[c].pc = "idle"

\* A record that no repair command looks for and no job stands behind belongs
\* to a match with which everything is done.
ClosedIsFinished ==
  ~Underway /\ lost = {} /\ ~Repairable => record.status = "NONE" \/ ~Unfinished

IInv == /\ TypeOK
        /\ HolderExecutes
        /\ FailuresAreClassified
        /\ CompletionStands
        /\ RecordComesFirst
        /\ ClosedIsFinished

-----------------------------------------------------------------------------
\* Whoever keeps refreshing gets the match, complete and linked in his own row,
\* whatever job of another player was found alive and whatever record was
\* overwritten; or the record waits for the retry command; or the job stalled
\* out or failed before its record was found again, which may then say RUNNING
\* for ever, or a late execution took the match back.
SearchersGetTheirMatch ==
  \A p \in Searcher : \/ <>[](match = "COMPLETED" /\ \E s \in Slot : rows[s] = p /\ link[s] = p)
                      \/ <>[](record.status \in {"FAILED", "DEAD_LETTERED"})
                      \/ <>[](lost \cap {"stalledOut", "unrecorded", "undone"} # {})
=============================================================================
