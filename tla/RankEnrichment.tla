--------------------------- MODULE RankEnrichment ---------------------------
(***************************************************************************)
(* The ranks of match participants: a completed ranked match leaves its    *)
(* participants PENDING, one job for each identity (platform, PUUID, queue *)
(* type) asks League-v4 or reuses a fresh answer, and writes the answer to *)
(* every unresolved row of the identity.  Jobs are published by the hook   *)
(* of match ingestion and by the backfill command.  An account stands for  *)
(* an identity; League-v4 and BullMQ are the environment.  What a change   *)
(* of rank does to the aggregates is in ChampionAggregation.               *)
(***************************************************************************)
EXTENDS Integers, FiniteSets

CONSTANTS Rows,       \* ids of participant rows, in the order of the ids
          Accounts,   \* identities
          Account,    \* the identity of each row
          Workers,    \* executions in progress
          PageBounds, \* the bounds of a backfill: [participants, calls]
          LeastFetch, \* rows of a status a backfill reads at least (50 in the code)
          Answers,    \* the answers of League-v4 that are tried
          None

ConstantsAssumption ==
  /\ Rows \subseteq Nat \ {0} /\ IsFiniteSet(Rows)
  /\ Account \in [Rows -> Accounts]
  /\ Answers \subseteq {"RESOLVED_RANKED", "RESOLVED_UNRANKED", "RATE_LIMITED", "UNAUTHORIZED",
                        "UNAVAILABLE"}
  /\ PageBounds \subseteq [participants : Nat \ {0}, calls : Nat \ {0}] /\ LeastFetch \in Nat
  /\ None \notin Answers \cup {"RESOLVED_RANKED", "RESOLVED_UNRANKED"}

VARIABLES status,    \* rankResolutionStatus of each row, "absent" before its match
          obs,       \* the latest observation of each identity, and whether it is fresh
          job,       \* the BullMQ job of each identity
          work,      \* the executions in progress
          call,      \* the enqueues in progress
          page,      \* the reads of the running backfill, None before and after
          todo,      \* identities the running backfill has yet to enqueue
          cursor,    \* nextCursor of the last backfill (0: none)
          excused    \* identities whose last enqueue came to nothing, whose failed
                     \* job was dropped, or for which a run went on without its job

vars == <<status, obs, job, work, call, page, todo, cursor, excused>>
queueVars == <<page, todo, cursor>>

Unresolved == {"PENDING", "FAILED_RETRYABLE"}
LiveStates == {"waiting", "active", "delayed"}
Callers == {"hook", "backfill"}

\* Only a successful lookup resolves a row; every failure leaves it retryable.
ResolutionOf(answer) ==
  IF answer \in {"RESOLVED_RANKED", "RESOLVED_UNRANKED"} THEN answer ELSE "FAILED_RETRYABLE"

UnresolvedOf(a) == {r \in Rows : Account[r] = a /\ status[r] \in Unresolved}

\* Mutant: only ranks are reused.
RankedOnly == {"RESOLVED_RANKED"}
ReusableAnswers == {"RESOLVED_RANKED", "RESOLVED_UNRANKED"}
Reusable(a) == obs[a] # None /\ obs[a].fresh /\ obs[a].status \in ReusableAnswers

Idle == [pc |-> "idle"]
NoCall == [pc |-> "idle"]

Init ==
  /\ status = [r \in Rows |-> "absent"]
  /\ obs = [a \in Accounts |-> None]
  /\ job = [a \in Accounts |-> "none"]
  /\ work = [w \in Workers |-> Idle]
  /\ call = [c \in Callers |-> NoCall]
  /\ page = None /\ todo = {} /\ cursor = 0
  /\ excused = {}

-----------------------------------------------------------------------------
(* Enqueue: look at the job with the identity's id, remove it when it is   *)
(* finished, add a new one.                                                *)

\* A match is committed with an unresolved participant; its hook follows.
Commit(r) ==
  /\ status[r] = "absent" /\ call["hook"] = NoCall
  /\ status' = [status EXCEPT ![r] = "PENDING"]
  /\ call' = [call EXCEPT !["hook"] = [pc |-> "look", account |-> Account[r]]]
  /\ UNCHANGED <<obs, job, work, queueVars, excused>>

\* An enqueue keeps its word when it leaves a job that has yet to begin a run.
Promise(a) ==
  excused' = IF job'[a] \in {"waiting", "delayed"} THEN excused \ {a} ELSE excused \cup {a}

Look(c) ==
  /\ call[c].pc = "look"
  /\ LET a == call[c].account IN
     IF job[a] \in LiveStates
     THEN call' = [call EXCEPT ![c] = NoCall] /\ UNCHANGED job /\ Promise(a)
     ELSE /\ call' = [call EXCEPT ![c].pc = IF job[a] = "none" THEN "add" ELSE "remove"]
          /\ UNCHANGED <<job, excused>>
  /\ UNCHANGED <<status, obs, work, queueVars>>

\* job.remove() throws when a worker holds the job; the caller catches that.
RemoveOld(c) ==
  /\ call[c].pc = "remove"
  /\ LET a == call[c].account IN
     IF job[a] = "active"
     THEN call' = [call EXCEPT ![c] = NoCall] /\ UNCHANGED job /\ Promise(a)
     ELSE /\ job' = [job EXCEPT ![a] = "none"]
          /\ call' = [call EXCEPT ![c].pc = "add"]
          /\ UNCHANGED excused
  /\ UNCHANGED <<status, obs, work, queueVars>>

\* queue.add with an id that is taken leaves the job that has it, even a
\* finished one: the enqueue says it published and nothing will run.
Add(c) ==
  /\ call[c].pc = "add"
  /\ LET a == call[c].account IN
     /\ job' = IF job[a] = "none" THEN [job EXCEPT ![a] = "waiting"] ELSE job
     /\ Promise(a)
  /\ call' = [call EXCEPT ![c] = NoCall]
  /\ UNCHANGED <<status, obs, work, queueVars>>

\* The enqueue fails or its process dies; nothing is thrown to the ingestion.
LoseEnqueue(c) ==
  /\ call[c].pc \in {"look", "add"}
  /\ excused' = excused \cup {call[c].account}
  /\ call' = [call EXCEPT ![c] = NoCall]
  /\ UNCHANGED <<status, obs, job, work, queueVars>>

-----------------------------------------------------------------------------
(* The backfill command.                                                   *)

\* The first rows of a status after the cursor, as one query returns them.
First(rows, limit) == {r \in rows : Cardinality({q \in rows : q =< r}) =< limit}
Larger(m, n) == IF m >= n THEN m ELSE n
FetchLimit(bound) == Larger(Larger(3 * bound.participants, 3 * bound.calls), LeastFetch)
Read(after, wanted, bound) ==
  First({r \in Rows : r > after /\ status[r] = wanted}, FetchLimit(bound))

\* PENDING ones are looked at first, then by id.  A row that fails between
\* the reads is looked at twice.
Candidates(pending, retryable) ==
  [row : pending, status : {"PENDING"}] \cup [row : retryable, status : {"FAILED_RETRYABLE"}]
NotAfter(c, d) == IF c.status = d.status THEN c.row =< d.row ELSE c.status = "PENDING"

\* A candidate is taken unless it is of one identity too many or past enough
\* candidates, and so are those before it.
Fits(candidates, bound) ==
  /\ Cardinality({Account[c.row] : c \in candidates}) =< bound.calls
  /\ Cardinality(candidates) =< bound.participants
Taken(candidates, bound) ==
  {c \in candidates : Fits({d \in candidates : NotAfter(d, c)}, bound)}

\* Mutant: the cursor is the first candidate that did not fit.
LastSeen(candidates, taken) ==
  LET left == candidates \ taken IN
  IF left = {} THEN CHOOSE c \in taken : \A d \in taken : NotAfter(d, c)
  ELSE CHOOSE c \in left : \A d \in left : NotAfter(c, d)
LastTaken(candidates, taken) == CHOOSE c \in taken : \A d \in taken : NotAfter(d, c)

\* What the running backfill selects if it reads the failed rows now.
NowCandidates == Candidates(page.pending, Read(page.after, "FAILED_RETRYABLE", page.bound))
NowTaken == Taken(NowCandidates, page.bound)
NowLast == LastTaken(NowCandidates, NowTaken)

\* A confirmed run, from the start or from where the last one said it ended,
\* reads the pending rows; `known` are the rows there are by then.
ReadPending ==
  /\ page = None /\ todo = {} /\ call["backfill"] = NoCall
  /\ \E after \in {0, cursor}, bound \in PageBounds :
       page' = [after |-> after, bound |-> bound, pending |-> Read(after, "PENDING", bound),
                known |-> {r \in Rows : status[r] # "absent"}]
  /\ UNCHANGED <<status, obs, job, work, call, todo, cursor, excused>>

\* Then it reads the failed ones and selects.
SelectIdentities ==
  /\ page # None
  /\ todo' = {Account[c.row] : c \in NowTaken}
  /\ cursor' = IF NowTaken = {} THEN cursor ELSE NowLast.row
  /\ page' = None
  /\ UNCHANGED <<status, obs, job, work, call, excused>>

BackfillNext(a) ==
  /\ call["backfill"] = NoCall /\ a \in todo
  /\ todo' = todo \ {a}
  /\ call' = [call EXCEPT !["backfill"] = [pc |-> "look", account |-> a]]
  /\ UNCHANGED <<status, obs, job, work, page, cursor, excused>>

-----------------------------------------------------------------------------
(* The job.                                                                *)

Holds(w) == job[work[w].account] = "active" /\ work[w].owner

\* The job begins: `now` is fixed and the latest observation is read; from now
\* on an answer is the one to write, None while League-v4 is yet to be asked.
Start(w, a) ==
  /\ work[w] = Idle /\ job[a] = "waiting"
  /\ job' = [job EXCEPT ![a] = "active"]
  /\ work' = [work EXCEPT ![w] =
                [pc |-> "load", account |-> a, owner |-> TRUE, rows |-> {},
                 answer |-> IF Reusable(a) THEN obs[a].status ELSE None]]
  /\ UNCHANGED <<status, obs, call, queueVars, excused>>

Load(w) ==
  /\ work[w].pc = "load"
  /\ work' = [work EXCEPT ![w].rows = UnresolvedOf(work[w].account),
                          ![w].pc = IF work[w].answer = None THEN "ask" ELSE "apply"]
  /\ UNCHANGED <<status, obs, job, call, queueVars, excused>>

\* Mutant: a run that must be repeated returns instead of moving its job.
CompleteAlways(answer) == IF answer = "UNAUTHORIZED" THEN "failed" ELSE "done"

\* What becomes of the job when a run of it ends with an answer.
AfterRun(answer) ==
  CASE answer = "UNAUTHORIZED" -> "failed"
    [] answer \in {"DEFERRED", "RATE_LIMITED", "UNAVAILABLE"} -> "delayed"
    [] OTHER -> "done"

\* Only the execution that still has the lock moves the job.
End(w, state) ==
  /\ job' = IF Holds(w) THEN [job EXCEPT ![work[w].account] = state] ELSE job
  /\ work' = [work EXCEPT ![w] = Idle]

Excuse(w) == excused' = IF Holds(w) THEN excused ELSE excused \cup {work[w].account}

\* The shared cooldown is on or the request budget defers (RequestBudget says
\* when): nothing is recorded.
Deferred(w) ==
  /\ work[w].pc = "ask"
  /\ End(w, AfterRun("DEFERRED"))
  /\ UNCHANGED <<status, obs, call, queueVars, excused>>

\* The observation carries the time its run began, so that of a run which has
\* lost its job to a later one need not become the latest.
Ask(w, answer) ==
  /\ work[w].pc = "ask"
  /\ LET a == work[w].account
         new == [status |-> ResolutionOf(answer), fresh |-> TRUE] IN
     \E latest \in IF Holds(w) THEN {new} ELSE {new, obs[a]} :
       obs' = [obs EXCEPT ![a] = latest]
  /\ work' = [work EXCEPT ![w].pc = "apply", ![w].answer = answer]
  /\ Excuse(w)
  /\ UNCHANGED <<status, job, call, queueVars>>

\* The rows that were read are written whatever they have become since.
Apply(w) ==
  /\ work[w].pc = "apply"
  /\ status' = [r \in Rows |-> IF r \in work[w].rows THEN ResolutionOf(work[w].answer)
                               ELSE status[r]]
  /\ End(w, AfterRun(work[w].answer))
  /\ Excuse(w)
  /\ UNCHANGED <<obs, call, queueVars>>

\* A database or queue error: BullMQ retries, or fails a job out of attempts.
RunFails(w) ==
  /\ work[w] # Idle
  /\ \E state \in {"waiting", "failed"} : End(w, state)
  /\ UNCHANGED <<status, obs, call, queueVars, excused>>

\* The lock of a slow execution expires: the job is handed out once more.
Stall(w) ==
  /\ work[w] # Idle /\ Holds(w)
  /\ job' = [job EXCEPT ![work[w].account] = "waiting"]
  /\ work' = [work EXCEPT ![w].owner = FALSE]
  /\ UNCHANGED <<status, obs, call, queueVars, excused>>

Promote(a) ==
  /\ job[a] = "delayed"
  /\ job' = [job EXCEPT ![a] = "waiting"]
  /\ UNCHANGED <<status, obs, work, call, queueVars, excused>>

\* BullMQ drops a finished job that is old, or one of too many: a day later
\* nothing is left of one that failed.
Forget(a) ==
  /\ job[a] \in {"done", "failed"}
  /\ job' = [job EXCEPT ![a] = "none"]
  /\ excused' = IF job[a] = "failed" THEN excused \cup {a} ELSE excused
  /\ UNCHANGED <<status, obs, work, call, queueVars>>

\* The freshness window of an observation passes.
GrowStale(a) ==
  /\ obs[a] # None /\ obs[a].fresh
  /\ obs' = [obs EXCEPT ![a].fresh = FALSE]
  /\ UNCHANGED <<status, job, work, call, queueVars, excused>>

Next ==
  \/ \E r \in Rows : Commit(r)
  \/ \E c \in Callers : Look(c) \/ RemoveOld(c) \/ Add(c) \/ LoseEnqueue(c)
  \/ ReadPending \/ SelectIdentities
  \/ \E a \in Accounts : BackfillNext(a) \/ Promote(a) \/ Forget(a) \/ GrowStale(a)
  \/ \E w \in Workers, a \in Accounts : Start(w, a)
  \/ \E w \in Workers : Load(w) \/ Deferred(w) \/ Apply(w) \/ RunFails(w) \/ Stall(w)
  \/ \E w \in Workers, answer \in Answers : Ask(w, answer)

Spec == Init /\ [][Next]_vars

-----------------------------------------------------------------------------
TypeOK ==
  /\ status \in [Rows -> {"absent", "RESOLVED_RANKED", "RESOLVED_UNRANKED"} \cup Unresolved]
  /\ obs \in [Accounts -> {None} \cup
                [status : {"RESOLVED_RANKED", "RESOLVED_UNRANKED", "FAILED_RETRYABLE"}, fresh : BOOLEAN]]
  /\ job \in [Accounts -> {"none", "done", "failed"} \cup LiveStates]
  /\ page = None \/ page \in [after : Rows \cup {0}, bound : PageBounds, pending : SUBSET Rows,
                              known : SUBSET Rows]
  /\ todo \subseteq Accounts /\ excused \subseteq Accounts
  /\ cursor \in Rows \cup {0}

(* A row is not forgotten: while a row is unresolved its identity has a    *)
(* live job, or one that failed and is kept as failed, or an enqueue at    *)
(* work for it.  Deferred and rate limited runs, enqueues that race each   *)
(* other for one id and rows committed during a run are what could break   *)
(* it; an enqueue that dies or finds a run already begun, a failed job     *)
(* dropped for its age and a stalled run that writes late do, and are      *)
(* excused until the next enqueue.                                         *)
RowsArePursued ==
  \A r \in Rows :
    status[r] \in Unresolved =>
      LET a == Account[r] IN
      \/ job[a] \in LiveStates \cup {"failed"}
      \/ \E c \in Callers : call[c] # NoCall /\ call[c].account = a
      \/ a \in excused

(* League-v4 is not asked twice: a run about to ask has no answer that was *)
(* fresh when it began, unless its job stalled and two runs overlap.       *)
AnswersAreReused ==
  \A w \in Workers :
    work[w].pc = "ask" =>
      LET a == work[w].account IN
      \/ obs[a] = None
      \/ obs[a].fresh => obs[a].status = "FAILED_RETRYABLE"
      \/ a \in excused
      \/ ~work[w].owner

(* A page of the backfill has no holes: whatever happens between its two   *)
(* reads, it takes every unresolved row up to the cursor it reports, but   *)
(* failed rows when it ends among the pending ones, and rows committed     *)
(* since the first read, which their own enqueue pursues.  So a resumed    *)
(* backfill of rows of one status passes over none of them.                *)
PagesHaveNoHoles ==
  page # None /\ NowTaken # {} =>
    \A r \in page.known :
      status[r] \in Unresolved /\ r > page.after /\ r =< NowLast.row =>
        \/ \E c \in NowTaken : c.row = r
        \/ NowLast.status = "PENDING" /\ status[r] = "FAILED_RETRYABLE"

=============================================================================
