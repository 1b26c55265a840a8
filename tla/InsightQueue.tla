---------------------------- MODULE InsightQueue ----------------------------
(***************************************************************************)
(* The generation of AI insights, of champions and of playstyles: a GET    *)
(* finds the row of its context's fingerprint or writes it as PENDING and  *)
(* publishes a job with the fingerprint as id; a worker generates the text *)
(* and writes it, or the reason why there is none.  One row, the requests  *)
(* for it, its job and the executions of the job; BullMQ, the model that   *)
(* writes the text and the clock are the environment.                      *)
(***************************************************************************)
EXTENDS Naturals

CONSTANTS Readers,   \* GET requests in progress
          Workers,   \* executions of the job in progress
          Attempts,  \* jobAttempts
          None

VARIABLES row,       \* [status, result, old]; old: past stalePendingMs or failedRetryMs
          reader,    \* of each request: its step
          job,       \* [state, attempts] of the job with the row's id
          run,       \* of each execution: its step, whether it has the job's lock, its end
          exhausted, \* failed-job events that the handler has yet to see
          lost       \* the last publication met a run that was already past reading
                     \* the row, or a run died in a way that nothing reports

vars == <<row, reader, job, run, exhausted, lost>>

LiveStates == {"waiting", "active", "delayed"}
Idle == [pc |-> "idle", owner |-> FALSE, to |-> None]
Row(status, result) == [status |-> status, result |-> result, old |-> FALSE]

Init ==
  /\ row = [status |-> "none", result |-> FALSE, old |-> FALSE]
  /\ reader = [g \in Readers |-> "idle"]
  /\ job = [state |-> "none", attempts |-> 0]
  /\ run = [w \in Workers |-> Idle]
  /\ exhausted = 0 /\ lost = FALSE

-----------------------------------------------------------------------------
(* The GET.                                                                *)

\* What the row allows: a text, a recent PENDING or a recent failure is
\* answered as it is.
Answered == \/ row.status = "READY" /\ row.result
            \/ row.status \in {"PENDING", "FAILED"} /\ ~row.old

Get(g) ==
  /\ reader[g] = "idle"
  /\ ~Answered
  /\ reader' = [reader EXCEPT ![g] = "upsert"]
  /\ UNCHANGED <<row, job, run, exhausted, lost>>

\* upsertPending: whatever the row has become, it is PENDING and empty.
Upsert(g) ==
  /\ reader[g] = "upsert"
  /\ row' = Row("PENDING", FALSE)
  /\ reader' = [reader EXCEPT ![g] = "look"]
  /\ UNCHANGED <<job, run, exhausted, lost>>

\* Mutant: a finished job counts as published.
LiveOrDone == LiveStates \cup {"completed"}
CountsAsPublished == LiveStates

Look(g) ==
  /\ reader[g] = "look"
  /\ IF job.state \in CountsAsPublished
     THEN reader' = [reader EXCEPT ![g] = "idle"] /\ lost' = (job.state = "active")
     ELSE /\ reader' = [reader EXCEPT ![g] = IF job.state = "none" THEN "add" ELSE "remove"]
          /\ UNCHANGED lost
  /\ UNCHANGED <<row, job, run, exhausted>>

\* remove() throws for a job that a worker holds: not published.
RemoveOld(g) ==
  /\ reader[g] = "remove"
  /\ IF job.state = "active"
     THEN reader' = [reader EXCEPT ![g] = "unpublished"] /\ UNCHANGED job
     ELSE /\ job' = [state |-> "none", attempts |-> 0]
          /\ reader' = [reader EXCEPT ![g] = "add"]
  /\ UNCHANGED <<row, run, exhausted, lost>>

\* An id that is taken leaves the job that has it.
Add(g) ==
  /\ reader[g] = "add"
  /\ job' = IF job.state = "none" THEN [state |-> "waiting", attempts |-> 0] ELSE job
  /\ reader' = [reader EXCEPT ![g] = "idle"]
  /\ lost' = (job'.state \notin {"waiting", "delayed"})
  /\ UNCHANGED <<row, run, exhausted>>

QueueFails(g) ==
  /\ reader[g] \in {"look", "remove", "add"}
  /\ reader' = [reader EXCEPT ![g] = "unpublished"]
  /\ UNCHANGED <<row, job, run, exhausted, lost>>

\* markFailed(QUEUE_UNAVAILABLE)
Unpublished(g) ==
  /\ reader[g] = "unpublished"
  /\ row' = Row("FAILED", row.result)
  /\ reader' = [reader EXCEPT ![g] = "idle"]
  /\ UNCHANGED <<job, run, exhausted, lost>>

\* The process of a request dies before its publication.
Dies(g) ==
  /\ reader[g] \in {"look", "remove", "add", "unpublished"}
  /\ reader' = [reader EXCEPT ![g] = "idle"]
  /\ lost' = TRUE
  /\ UNCHANGED <<row, job, run, exhausted>>

-----------------------------------------------------------------------------
(* The job.                                                                *)

Holds(w) == run[w].owner /\ job.state = "active"

Begin(w) ==
  /\ run[w] = Idle /\ job.state = "waiting"
  /\ job' = [job EXCEPT !.state = "active"]
  /\ run' = [run EXCEPT ![w] =
               IF row.status = "READY" THEN [pc |-> "end", owner |-> TRUE, to |-> "completed"]
               ELSE [pc |-> "generate", owner |-> TRUE, to |-> None]]
  /\ UNCHANGED <<row, reader, exhausted, lost>>

\* The text is written and valid: markReady.
MarkReady(w) ==
  /\ run[w].pc = "generate"
  /\ row' = Row("READY", TRUE)
  /\ run' = [run EXCEPT ![w].pc = "end", ![w].to = "completed"]
  /\ UNCHANGED <<reader, job, exhausted, lost>>

\* Disabled, an invalid context or text, no access, an unexpected error:
\* markFailed, and an UnrecoverableError for the queue.
MarkFailed(w) ==
  /\ run[w].pc = "generate"
  /\ row' = Row("FAILED", row.result)
  /\ run' = [run EXCEPT ![w].pc = "end", ![w].to = "failed"]
  /\ UNCHANGED <<reader, job, exhausted, lost>>

\* The provider is overloaded or the network fails: the queue tries again.
Retryable(w) ==
  /\ run[w].pc = "generate"
  /\ run' = [run EXCEPT ![w].pc = "end",
                        ![w].to = IF job.attempts + 1 < Attempts THEN "delayed" ELSE "exhausted"]
  /\ UNCHANGED <<row, reader, job, exhausted, lost>>

\* Only the execution that still has the lock moves the job.
End(w) ==
  /\ run[w].pc = "end"
  /\ job' = IF Holds(w)
            THEN [state |-> IF run[w].to = "exhausted" THEN "failed" ELSE run[w].to,
                  attempts |-> job.attempts + (IF run[w].to = "delayed" THEN 1 ELSE 0)]
            ELSE job
  /\ exhausted' = IF Holds(w) /\ run[w].to = "exhausted" THEN 1 ELSE exhausted
  /\ run' = [run EXCEPT ![w] = Idle]
  /\ UNCHANGED <<row, reader, lost>>

\* handleInsightFailed: PROVIDER_RETRY_EXHAUSTED, whatever the row is now.
RetryExhausted ==
  /\ exhausted > 0
  /\ exhausted' = 0
  /\ row' = Row("FAILED", row.result)
  /\ UNCHANGED <<reader, job, run, lost>>

\* The worker dies, or its lock expires while it goes on: the job is handed
\* out once more, or failed by BullMQ, and then nothing is written.
Stall(w) ==
  /\ run[w] # Idle /\ Holds(w)
  /\ run' \in {[run EXCEPT ![w] = Idle], [run EXCEPT ![w].owner = FALSE]}
  /\ \/ job' = [job EXCEPT !.state = "waiting"] /\ UNCHANGED lost
     \/ job' = [job EXCEPT !.state = "failed"] /\ lost' = TRUE
  /\ UNCHANGED <<row, reader, exhausted>>

Promote ==
  /\ job.state = "delayed"
  /\ job' = [job EXCEPT !.state = "waiting"]
  /\ UNCHANGED <<row, reader, run, exhausted, lost>>

GrowOld ==
  /\ row.status \in {"PENDING", "FAILED"} /\ ~row.old
  /\ row' = [row EXCEPT !.old = TRUE]
  /\ UNCHANGED <<reader, job, run, exhausted, lost>>

Next ==
  \/ \E g \in Readers : \/ Get(g) \/ Upsert(g) \/ Look(g) \/ RemoveOld(g) \/ Add(g)
                        \/ QueueFails(g) \/ Unpublished(g) \/ Dies(g)
  \/ \E w \in Workers : \/ Begin(w) \/ MarkReady(w) \/ MarkFailed(w) \/ Retryable(w)
                        \/ End(w) \/ Stall(w)
  \/ RetryExhausted \/ Promote \/ GrowOld

Spec == Init /\ [][Next]_vars

-----------------------------------------------------------------------------
TypeOK ==
  /\ row \in [status : {"none", "PENDING", "READY", "FAILED"}, result : BOOLEAN, old : BOOLEAN]
  /\ job.state \in {"none", "completed", "failed"} \cup LiveStates
  /\ job.attempts \in Nat /\ exhausted \in {0, 1} /\ lost \in BOOLEAN

(* A text that is said to be coming comes, or its failure is said: while   *)
(* the row is PENDING its job is live, or a request is about to publish it *)
(* or to say that it could not, or a run or the handler of its failure is  *)
(* about to write its end.  A request that dies, a publication that meets  *)
(* a run past its work and a job that BullMQ gives up are the exceptions:  *)
(* then PENDING is answered until the row has grown old and is asked for   *)
(* again.  A READY row has its text.                                       *)
PendingIsPursued ==
  /\ row.status = "PENDING" =>
       \/ job.state \in LiveStates
       \/ \E g \in Readers : reader[g] \in {"look", "remove", "add", "unpublished"}
       \/ exhausted > 0
       \/ \E w \in Workers : run[w].pc = "generate"
       \/ lost
  /\ row.status = "READY" => row.result
=============================================================================
