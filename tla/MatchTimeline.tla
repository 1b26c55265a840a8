--------------------------- MODULE MatchTimeline ---------------------------
(***************************************************************************)
(* The timeline of each stored match: the MatchTimeline row with its       *)
(* product coverage, and the event and frame rows beside it.  Three        *)
(* writers share persistTimelineAndMetrics: the ingestion of the match,    *)
(* its refetch when a player is missing from a completed match, and the    *)
(* ENRICH_MATCH_TIMELINE job, which the search and the backfill command    *)
(* enqueue under an id made of the match's id.  Riot and BullMQ are the    *)
(* environment; a stall is the lock of a job that expires under its run.   *)
(***************************************************************************)
EXTENDS Naturals

CONSTANTS Matches, Workers, Callers,
          MaxAttempts,       \* BullMQ attempts of a job
          TimelineRequired,  \* timelineRequiredForComplete
          None

ConstantsAssumption ==
  /\ Callers \subseteq {"search", "backfill", "backfillIneligible"}
  /\ MaxAttempts \in Nat \ {0}
  /\ TimelineRequired \in BOOLEAN
  /\ None \notin Workers \cup {"build", "product", "empty", "some"}

VARIABLES status,    \* ingestionStatus of each match
          linked,    \* does a participant of the match have an account?
          timeline,  \* its MatchTimeline row: fetch status and coverage
          events,    \* which events are stored: none, those of builds, all
          frames,    \* are its frames stored?
          ingestion, \* the ingestion of the match in progress
          job,       \* the BullMQ job of the match
          work,      \* executions of timeline jobs in progress
          call,      \* enqueues in progress
          disturbed  \* history: matches with a run that lost its job, or that an
                     \* ingestion overtook

matchVars == <<status, linked>>
rowVars == <<timeline, events, frames>>
vars == <<matchVars, rowVars, ingestion, job, work, call, disturbed>>

LiveStates == {"waiting", "active", "delayed"}
NoJob == [state |-> "none", ineligible |-> FALSE, made |-> 0, holder |-> None]
Idle == [pc |-> "idle"]

Coverage(m) == IF timeline[m] = None THEN "none" ELSE timeline[m].coverage
Stored(m) == Coverage(m) = "STORED"

\* A match is new, or was completed without its timeline and has a job waiting.
Init ==
  /\ \E enqueued \in BOOLEAN :
       /\ status = [m \in Matches |-> IF enqueued THEN "COMPLETED" ELSE "absent"]
       /\ linked = [m \in Matches |-> enqueued]
       /\ timeline = [m \in Matches |->
                        IF enqueued THEN [fetch |-> "SKIPPED", coverage |-> "NONE"] ELSE None]
       /\ job = [m \in Matches |-> IF enqueued THEN [NoJob EXCEPT !.state = "waiting"] ELSE NoJob]
  /\ events = [m \in Matches |-> "none"]
  /\ frames = [m \in Matches |-> FALSE]
  /\ ingestion = [m \in Matches |-> Idle]
  /\ work = [w \in Workers |-> Idle]
  /\ call = [c \in Callers |-> Idle]
  /\ disturbed = {}

-----------------------------------------------------------------------------
(* persistTimelineAndMetrics: one transaction.  Event rows are replaced    *)
(* when events are given, frame rows when frames are given, even none.     *)

\* Mutant: frames are replaced only by frames.
PersistFramesWhenSome(m, fetch, coverage, newEvents, newFrames) ==
  /\ timeline' = [timeline EXCEPT ![m] = [fetch |-> fetch, coverage |-> coverage]]
  /\ events' = [events EXCEPT ![m] = IF newEvents = None THEN @ ELSE newEvents]
  /\ frames' = [frames EXCEPT ![m] = @ \/ newFrames = "some"]

PersistTimeline(m, fetch, coverage, newEvents, newFrames) ==
  /\ timeline' = [timeline EXCEPT ![m] = [fetch |-> fetch, coverage |-> coverage]]
  /\ events' = [events EXCEPT ![m] = IF newEvents = None THEN @ ELSE newEvents]
  /\ frames' = [frames EXCEPT ![m] = IF newFrames = None THEN @ ELSE newFrames = "some"]

\* A product timeline has every event of the allowlist and the frames; a match
\* without an account keeps what builds are made of.
PersistFetched(m, fetch, product) ==
  IF product
  THEN PersistTimeline(m, fetch, "STORED", "product", "some")
  ELSE PersistTimeline(m, fetch, "INELIGIBLE", "build", "empty")

-----------------------------------------------------------------------------
(* The ingestion of a match.                                               *)

\* The match is written IN_PROGRESS: a new one, one whose ingestion did not
\* complete, or a completed one that lacks the player who asked.  Links come
\* from the accounts known at that moment.
PersistMatch(m) ==
  /\ ingestion[m] = Idle
  /\ \E links \in BOOLEAN :
       /\ ingestion' = [ingestion EXCEPT ![m] = [pc |-> "timeline", links |-> links]]
       /\ linked' = [linked EXCEPT ![m] = @ \/ links]
  /\ status' = [status EXCEPT ![m] = "IN_PROGRESS"]
  /\ UNCHANGED <<rowVars, job, work, call, disturbed>>

\* The timeline is fetched, is not to be fetched, or cannot be had; a failure
\* leaves the events and empties the frames. One to compute the metrics comes
\* when all the rest is at hand: it is written with FAILED beside its coverage.
PersistIngestedTimeline(m) ==
  /\ ingestion[m].pc = "timeline"
  /\ \E outcome \in {"FETCHED", "SKIPPED", "FAILED"} :
       /\ \/ outcome # "SKIPPED" /\ PersistFetched(m, outcome, ingestion[m].links)
          \/ outcome # "FETCHED" /\ PersistTimeline(m, outcome, "NONE", None, "empty")
       /\ status' = IF TimelineRequired /\ outcome = "FAILED" THEN status
                    ELSE [status EXCEPT ![m] = "COMPLETED"]
  /\ ingestion' = [ingestion EXCEPT ![m] = Idle]
  /\ disturbed' = IF \E w \in Workers : work[w] # Idle /\ work[w].match = m
                  THEN disturbed \cup {m} ELSE disturbed
  /\ UNCHANGED <<linked, job, work, call>>

\* The run is delayed, or throws: nothing of the timeline is written.
AbandonIngestion(m) ==
  /\ ingestion[m].pc = "timeline"
  /\ ingestion' = [ingestion EXCEPT ![m] = Idle]
  /\ UNCHANGED <<matchVars, rowVars, job, work, call, disturbed>>

\* A player of the match becomes an account; its rows are linked.
LinkParticipants(m) ==
  /\ status[m] # "absent" /\ ~linked[m]
  /\ linked' = [linked EXCEPT ![m] = TRUE]
  /\ UNCHANGED <<status, rowVars, ingestion, job, work, call, disturbed>>

-----------------------------------------------------------------------------
(* Enqueue: the search's producer and the backfill command select matches, *)
(* look at the job with the match's id, remove a finished one and add.     *)

Missing(m, ineligible) ==
  status[m] = "COMPLETED" /\ ~Stored(m) /\ (linked[m] \/ ineligible)

Select(c, m) ==
  /\ call[c] = Idle
  /\ Missing(m, c = "backfillIneligible")
  /\ call' = [call EXCEPT ![c] = [pc |-> "look", match |-> m]]
  /\ UNCHANGED <<matchVars, rowVars, ingestion, job, work, disturbed>>

\* A live job is left alone, whatever its payload says of ineligible matches.
Look(c) ==
  /\ call[c].pc = "look"
  /\ LET state == job[call[c].match].state IN
     call' = [call EXCEPT ![c] = IF state \in LiveStates THEN Idle
                                 ELSE [@ EXCEPT !.pc = IF state = "none" THEN "add" ELSE "remove"]]
  /\ UNCHANGED <<matchVars, rowVars, ingestion, job, work, disturbed>>

\* job.remove() throws while a worker holds the job, and the enqueue fails.
RemoveOld(c) ==
  /\ call[c].pc = "remove"
  /\ LET m == call[c].match IN
     IF job[m].state = "active"
     THEN call' = [call EXCEPT ![c] = Idle] /\ UNCHANGED job
     ELSE call' = [call EXCEPT ![c].pc = "add"] /\ job' = [job EXCEPT ![m] = NoJob]
  /\ UNCHANGED <<matchVars, rowVars, ingestion, work, disturbed>>

\* Mutant: an id of its own for every enqueue, so a job that runs is replaced.
AddAnyway(c) ==
  /\ call[c].pc = "add"
  /\ job' = [job EXCEPT ![call[c].match] =
               [NoJob EXCEPT !.state = "waiting", !.ineligible = c = "backfillIneligible"]]
  /\ call' = [call EXCEPT ![c] = Idle]
  /\ UNCHANGED <<matchVars, rowVars, ingestion, work, disturbed>>

\* An add under an id that is taken leaves the job that has it.
Add(c) ==
  /\ call[c].pc = "add"
  /\ job' = [job EXCEPT ![call[c].match] =
               IF @ # NoJob THEN @
               ELSE [NoJob EXCEPT !.state = "waiting", !.ineligible = c = "backfillIneligible"]]
  /\ call' = [call EXCEPT ![c] = Idle]
  /\ UNCHANGED <<matchVars, rowVars, ingestion, work, disturbed>>

-----------------------------------------------------------------------------
(* processMatchTimelineJob.                                                *)

Holds(w) == job[work[w].match].holder = w

\* The run ends; BullMQ moves the job only for the run that holds it.
EndRun(w, state) ==
  /\ work' = [work EXCEPT ![w] = Idle]
  /\ job' = IF Holds(w)
            THEN [job EXCEPT ![work[w].match].state = state, ![work[w].match].holder = None]
            ELSE job

Start(w, m) ==
  /\ work[w] = Idle /\ job[m].state = "waiting"
  /\ job' = [job EXCEPT ![m].state = "active", ![m].holder = w]
  /\ work' = [work EXCEPT ![w] = [pc |-> "read", match |-> m, ineligible |-> job[m].ineligible]]
  /\ UNCHANGED <<matchVars, rowVars, ingestion, call, disturbed>>

\* Mutant: what is stored is fetched again.
EnrichAnything(m, ineligible) == linked[m] \/ ineligible
\* Nothing is done for a stored timeline, nor for a match without accounts.
NeedsEnrichment(m, ineligible) == ~Stored(m) /\ (linked[m] \/ ineligible)

ReadMatch(w) ==
  /\ work[w].pc = "read"
  /\ IF NeedsEnrichment(work[w].match, work[w].ineligible)
     THEN work' = [work EXCEPT ![w].pc = "fetch"] /\ UNCHANGED job
     ELSE EndRun(w, "completed")
  /\ UNCHANGED <<matchVars, rowVars, ingestion, call, disturbed>>

\* The shared cooldown, a 429 or a deferred request: the job is delayed and
\* keeps its attempts.
Delay(w) ==
  /\ work[w].pc = "fetch"
  /\ EndRun(w, "delayed")
  /\ UNCHANGED <<matchVars, rowVars, ingestion, call, disturbed>>

\* Riot or the database is unavailable: the run throws, and is tried again
\* while the job has attempts.
Retry(w) ==
  /\ work[w].pc # "idle"
  /\ LET m == work[w].match
         made == job[m].made + 1 IN
     /\ work' = [work EXCEPT ![w] = Idle]
     /\ job' = IF Holds(w)
               THEN [job EXCEPT ![m].made = made, ![m].holder = None,
                                ![m].state = IF made < MaxAttempts THEN "delayed" ELSE "failed"]
               ELSE job
  /\ UNCHANGED <<matchVars, rowVars, ingestion, call, disturbed>>

Fetched(w) ==
  /\ work[w].pc = "fetch"
  /\ work' = [work EXCEPT ![w].pc = "store"]
  /\ UNCHANGED <<matchVars, rowVars, ingestion, job, call, disturbed>>

Refused(w) ==
  /\ work[w].pc = "fetch"
  /\ work' = [work EXCEPT ![w].pc = "giveUp"]
  /\ UNCHANGED <<matchVars, rowVars, ingestion, job, call, disturbed>>

StoreTimeline(w) ==
  /\ work[w].pc = "store"
  /\ PersistFetched(work[w].match, "FETCHED", TRUE)
  /\ EndRun(w, "completed")
  /\ UNCHANGED <<matchVars, ingestion, call, disturbed>>

\* A permanent answer is written over whatever coverage the row has by now;
\* event and frame rows are left.
StoreFailure(w) ==
  /\ work[w].pc = "giveUp"
  /\ PersistTimeline(work[w].match, "FAILED", "NONE", None, None)
  /\ EndRun(w, "failed")
  /\ UNCHANGED <<matchVars, ingestion, call, disturbed>>

Wake(m) ==
  /\ job[m].state = "delayed"
  /\ job' = [job EXCEPT ![m].state = "waiting"]
  /\ UNCHANGED <<matchVars, rowVars, ingestion, work, call, disturbed>>

\* The lock of a job expires: BullMQ offers it again while its run goes on
\* (explored before anything else disturbs the match).
Stall(w) ==
  /\ work[w].pc # "idle" /\ Holds(w) /\ work[w].match \notin disturbed
  /\ job' = [job EXCEPT ![work[w].match].state = "waiting", ![work[w].match].holder = None]
  /\ disturbed' = disturbed \cup {work[w].match}
  /\ UNCHANGED <<matchVars, rowVars, ingestion, work, call>>

-----------------------------------------------------------------------------
Next ==
  \/ \E m \in Matches : \/ PersistMatch(m) \/ PersistIngestedTimeline(m) \/ AbandonIngestion(m)
                        \/ LinkParticipants(m) \/ Wake(m)
                        \/ \E c \in Callers : Select(c, m)
                        \/ \E w \in Workers : Start(w, m)
  \/ \E c \in Callers : Look(c) \/ RemoveOld(c) \/ Add(c)
  \/ \E w \in Workers : \/ ReadMatch(w) \/ Delay(w) \/ Retry(w) \/ Fetched(w) \/ Refused(w)
                        \/ StoreTimeline(w) \/ StoreFailure(w) \/ Stall(w)

Spec == Init /\ [][Next]_vars

-----------------------------------------------------------------------------
RowType == [fetch : {"FETCHED", "SKIPPED", "FAILED"}, coverage : {"NONE", "INELIGIBLE", "STORED"}]
JobType == [state : LiveStates \cup {"none", "completed", "failed"}, ineligible : BOOLEAN,
            made : 0 .. MaxAttempts, holder : Workers \cup {None}]
RunType == [pc : {"read", "fetch", "store", "giveUp"}, match : Matches, ineligible : BOOLEAN]
CallType == [pc : {"look", "remove", "add"}, match : Matches]

\* Every variable has its type; no job is tried more often than it may be.
TypeOK ==
  /\ status \in [Matches -> {"absent", "IN_PROGRESS", "COMPLETED"}]
  /\ linked \in [Matches -> BOOLEAN]
  /\ timeline \in [Matches -> RowType \cup {None}]
  /\ events \in [Matches -> {"none", "build", "product"}]
  /\ frames \in [Matches -> BOOLEAN]
  /\ ingestion \in [Matches -> {Idle} \cup [pc : {"timeline"}, links : BOOLEAN]]
  /\ job \in [Matches -> JobType]
  /\ work \in [Workers -> {Idle} \cup RunType]
  /\ call \in [Callers -> {Idle} \cup CallType]
  /\ disturbed \subseteq Matches

\* Whatever order the writers come in, what the coverage column says is what
\* the event and frame rows hold: README.md promises the page that STORED is a
\* timeline with every feature (its metrics may be missing, and FAILED beside it
\* then says so), and INELIGIBLE rows have no frames left over from an earlier,
\* richer fetch.
TimelinesAreWhole ==
  \A m \in Matches :
    /\ Stored(m) => timeline[m].fetch # "SKIPPED" /\ events[m] = "product" /\ frames[m]
    /\ Coverage(m) = "INELIGIBLE" => events[m] = "build" /\ ~frames[m]

\* A stored timeline is given up only to a new ingestion of its match, or after
\* a run that lost its job or was overtaken by an ingestion: the job's id, the
\* look before the add and the read before the fetch keep enqueues and jobs of
\* the same match apart.
TimelineStays ==
  \A m \in Matches : Stored(m) /\ ~Stored(m)' => ingestion[m] # Idle \/ m \in disturbed
StoredTimelinesStay == [][TimelineStays]_vars

-----------------------------------------------------------------------------
(* The inductive invariant.                                                *)

\* A run that nothing came between holds the job of its match, so it is the
\* only one.
RunsHoldTheirJobs ==
  \A w \in Workers : work[w] # Idle /\ work[w].match \notin disturbed => Holds(w)

\* A job is held while it is active, and is tried again while it may be.
JobsAreOrderly ==
  \A m \in Matches :
    /\ job[m].holder # None => job[m].state = "active"
    /\ job[m].state # "failed" => job[m].made < MaxAttempts

\* What a run is about to write replaces nothing that is stored.
StoredIsNotFetched ==
  \A w \in Workers :
    work[w].pc \in {"fetch", "store", "giveUp"} /\ work[w].match \notin disturbed
      => ~Stored(work[w].match)

IInv == /\ TypeOK /\ RunsHoldTheirJobs /\ JobsAreOrderly /\ StoredIsNotFetched
        /\ TimelinesAreWhole
=============================================================================
