--------------------------- MODULE PlayerRefresh ---------------------------
(***************************************************************************)
(* The refresh of one player and what clients are told about it: POST      *)
(* refresh (lock, cooldown), POST search (neither), GET refresh-status and *)
(* GET profile.  All four compute the same status from the matches that    *)
(* were discovered last, which Redis holds with other fields in one value  *)
(* that every writer reads, changes and writes back.                       *)
(*                                                                         *)
(* The ingestion of a match is reduced to one of a few stages; module      *)
(* MatchIngestion has it step by step.  Timestamps, counts and warnings    *)
(* that do not decide the state are left out.                              *)
(***************************************************************************)
EXTENDS Naturals, FiniteSets

CONSTANTS
    Client, Match, None,
    Discoveries,   \* the lists the provider may answer with
    MaxRequests,   \* bound: requests of all clients
    MaxFaults      \* bound: failed calls and ingestions, and expired keys

ConstantsAssumption ==
    /\ Discoveries \subseteq (SUBSET Match) \ {{}}
    /\ \A list \in Discoveries : IsFiniteSet(list)
    /\ MaxRequests \in Nat /\ MaxFaults \in Nat
    /\ None \notin Client \cup {"COMPLETE", "search"}

VARIABLES
    work,          \* stage of each match for this player
    meta,          \* lastDiscoveredMatchIds in player-refresh-meta
    lock,          \* player-refresh-lock: who set it, or None
    cooldown,      \* player-refresh-cooldown is set
    profile,       \* the cached profile, or None
    request,       \* the request of each client
    recorded,      \* history: the list recordDiscoveredMatches wrote last
    overran,       \* history: a lock expired while its refresh was running
    searched,      \* history: a search was made
    requests, refreshFaults

vars == <<work, meta, lock, cooldown, profile, request, recorded,
          overran, searched, requests, refreshFaults>>

Stage == {"unknown", "pending", "waiting", "active", "delayed", "failed", "unlinked", "linked"}

(* The durable record and the BullMQ job of a match at each stage.         *)
Durable(stage) ==
    CASE stage = "unknown" -> None
      [] stage = "pending" -> "PENDING"
      [] stage = "waiting" -> "QUEUED"
      [] stage = "active" -> "RUNNING"
      [] stage \in {"delayed", "failed"} -> "FAILED"
      [] OTHER -> "COMPLETED"
Bull(stage) ==
    CASE stage \in {"unknown", "pending"} -> None
      [] stage \in {"unlinked", "linked"} -> "completed"
      [] OTHER -> stage

Kind == {"refresh", "search", "status", "profile"}
Step == {"idle", "cached", "cooldown", "lock", "startedRead", "startedWrite", "resolve", "sync",
         "enqueue", "discoveredRead", "discoveredWrite", "meta", "linked", "durable", "bull",
         "invalidate", "store", "completedRead", "completedWrite", "setCooldown", "release", "done"}

Idle == [kind |-> None, step |-> "idle", own |-> {}, seen |-> {}, linked |-> {},
         durable |-> [m \in {} |-> None], limited |-> FALSE,
         answer |-> [state |-> None, list |-> {}]]

TypeOK ==
    /\ work \in [Match -> Stage]
    /\ meta \subseteq Match /\ recorded \subseteq Match
    /\ lock \in Client \cup {None}
    /\ {cooldown, overran, searched} \subseteq BOOLEAN
    /\ \A c \in Client : /\ request[c].kind \in Kind \cup {None} /\ request[c].step \in Step
                         /\ request[c].own \cup request[c].seen \cup request[c].linked \subseteq Match
    /\ requests \in 0..MaxRequests /\ refreshFaults \in 0..MaxFaults

Init ==
    /\ work = [m \in Match |-> "unknown"]
    /\ meta = {} /\ recorded = {}
    /\ lock = None /\ cooldown = FALSE /\ profile = None
    /\ request = [c \in Client |-> Idle]
    /\ overran = FALSE /\ searched = FALSE
    /\ requests = 0 /\ refreshFaults = 0

Works == UNCHANGED refreshFaults
Fails == refreshFaults < MaxFaults /\ refreshFaults' = refreshFaults + 1

At(c, step) == request[c].step = step
Go(c, step) == request' = [request EXCEPT ![c].step = step]
Finish(c, answer) == request' = [request EXCEPT ![c] = [Idle EXCEPT !.kind = request[c].kind,
                                  !.step = "done", !.answer = answer]]
Refusal(code) == [state |-> code, list |-> {}]

keys == <<meta, lock, cooldown, profile>>
world == <<work, recorded, overran, searched, requests>>

-----------------------------------------------------------------------------
Ask(c, kind) ==
    /\ request[c].step \in {"idle", "done"}
    /\ requests < MaxRequests /\ requests' = requests + 1
    /\ searched' = (searched \/ kind = "search")
    /\ request' = [request EXCEPT ![c] = [Idle EXCEPT !.kind = kind,
         !.step = CASE kind = "refresh" -> "cooldown" [] kind = "search" -> "resolve"
                    [] kind = "status" -> "meta" [] OTHER -> "cached"]]
    /\ UNCHANGED <<work, keys, recorded, overran, refreshFaults>>

(* A Redis failure does not block the refresh.                             *)
AssertCooldown(c) ==
    /\ At(c, "cooldown")
    /\ \/ Works /\ IF cooldown THEN Finish(c, Refusal("REFRESH_COOLDOWN")) ELSE Go(c, "lock")
       \/ Fails /\ Go(c, "lock")
    /\ UNCHANGED <<keys, world>>

(* Mutant: SET without NX.                                                 *)
LockTaken == TRUE
LockFree == lock = None

TryAcquireLock(c) ==
    /\ At(c, "lock")
    /\ \/ Works /\ LockFree /\ lock' = c /\ Go(c, "startedRead")
       \/ Works /\ ~LockFree /\ UNCHANGED lock /\ Finish(c, Refusal("REFRESH_IN_PROGRESS"))
       \/ Fails /\ UNCHANGED lock /\ Finish(c, Refusal("REFRESH_IN_PROGRESS"))
    /\ UNCHANGED <<meta, cooldown, profile, world>>

(* Blind: whoever holds the lock by now loses it.                          *)
ReleaseLock(c) ==
    /\ At(c, "release")
    /\ \/ Works /\ lock' = None
       \/ Fails /\ UNCHANGED lock
    /\ Go(c, "done")
    /\ UNCHANGED <<meta, cooldown, profile, world>>

SetCooldown(c) ==
    /\ At(c, "setCooldown")
    /\ \/ Works /\ cooldown' = TRUE
       \/ Fails /\ UNCHANGED cooldown
    /\ Go(c, "release")
    /\ UNCHANGED <<meta, lock, profile, world>>

-----------------------------------------------------------------------------
(* A value that cannot be read counts as an empty one, and is written back.*)
ReadMeta(c, from, to) ==
    /\ At(c, from)
    /\ \/ Works /\ request' = [request EXCEPT ![c].step = to, ![c].seen = meta]
       \/ Fails /\ request' = [request EXCEPT ![c].step = to, ![c].seen = {}]
    /\ UNCHANGED <<keys, world>>

WriteMeta(c, from, to) ==
    /\ At(c, from) /\ Go(c, to)
    /\ \/ Works /\ meta' = request[c].seen
       \/ Fails /\ UNCHANGED meta
    /\ UNCHANGED <<lock, cooldown, profile, world>>

RecordRefreshStarted(c) ==
    \/ ReadMeta(c, "startedRead", "startedWrite")
    \/ WriteMeta(c, "startedWrite", "resolve")

RecordRefreshCompleted(c) ==
    \/ ReadMeta(c, "completedRead", "completedWrite")
    \/ WriteMeta(c, "completedWrite", "setCooldown")

WriteDiscovered(c) ==
    /\ At(c, "discoveredWrite") /\ Go(c, "meta")
    /\ \/ Works /\ meta' = request[c].own /\ recorded' = request[c].own
       \/ Fails /\ UNCHANGED <<meta, recorded>>
    /\ UNCHANGED <<lock, cooldown, profile, work, overran, searched, requests>>

(* Written even when the match ids could not be fetched: the list is then  *)
(* empty.                                                                  *)
RecordDiscoveredMatches(c) ==
    \/ ReadMeta(c, "discoveredRead", "discoveredWrite")
    \/ WriteDiscovered(c)

-----------------------------------------------------------------------------
(* The account is asked for by name; a failure, or another account under   *)
(* the same name, ends the request.                                        *)
Resolve(c) ==
    /\ At(c, "resolve")
    /\ \/ Works /\ Go(c, "sync")
       \/ /\ Fails
          /\ IF request[c].kind = "refresh"
             THEN request' = [request EXCEPT ![c].step = "release", ![c].answer = Refusal("ERROR")]
             ELSE Finish(c, Refusal("ERROR"))
    /\ UNCHANGED <<keys, world>>

(* Ranks, mastery and match ids are fetched together, each may fail on its *)
(* own; module PlayerHistory has what the first two write.                 *)
SyncPlayerData(c) ==
    /\ At(c, "sync")
    /\ \/ /\ Works
          /\ \E list \in Discoveries : request' = [request EXCEPT ![c].step = "enqueue", ![c].own = list]
       \/ /\ Fails
          /\ \E limited \in BOOLEAN :
               request' = [request EXCEPT ![c].step = "enqueue", ![c].limited = limited]
    /\ UNCHANGED <<keys, world>>

(* Stored matches are linked first, which drops the cached profile; then   *)
(* every match that is not linked and has no live job gets one.            *)
EnqueueDiscovered(c) ==
    LET own == request[c].own
        repaired == IF own = {} THEN {} ELSE {m \in Match : work[m] = "unlinked"}
        publish == {m \in own : work[m] \in {"unknown", "pending", "failed"}} IN
    /\ At(c, "enqueue") /\ Go(c, "discoveredRead")
    /\ \E published \in BOOLEAN :
         /\ published \/ publish # {}
         /\ IF published THEN Works ELSE Fails
         /\ work' = [m \in Match |-> CASE m \in repaired -> "linked"
                                       [] m \in publish /\ published -> "waiting"
                                       [] m \in publish /\ work[m] = "unknown" -> "pending"
                                       [] OTHER -> work[m]]
    /\ profile' = IF repaired = {} THEN profile ELSE None
    /\ UNCHANGED <<meta, lock, cooldown, recorded, overran, searched, requests>>

-----------------------------------------------------------------------------
(* compute: the list, then links, records and jobs one after the other.    *)
ReadDiscovered(c) == ReadMeta(c, "meta", "linked")

List(c) == IF request[c].own # {} THEN request[c].own ELSE request[c].seen

(* Mutant: a completed record is taken for a linked match.                 *)
LinkedOrRecorded(m) == Durable(work[m]) = "COMPLETED"
LinkedNow(m) == work[m] = "linked"

ReadLinked(c) ==
    /\ At(c, "linked")
    /\ request' = [request EXCEPT ![c].step = "durable", ![c].linked = {m \in List(c) : LinkedNow(m)}]
    /\ Works /\ UNCHANGED <<keys, world>>

ReadDurable(c) ==
    /\ At(c, "durable")
    /\ request' = [request EXCEPT ![c].step = "bull",
                     ![c].durable = [m \in List(c) \ request[c].linked |-> Durable(work[m])]]
    /\ Works /\ UNCHANGED <<keys, world>>

(* How a match that is not linked counts.                                  *)
Classify(durable, bull) ==
    CASE bull = "active" \/ durable = "RUNNING" -> "active"
      [] bull = "delayed" -> "delayed"
      [] bull = "waiting" -> "queued"
      [] durable = "FAILED" \/ bull = "failed" -> "failed"
      [] durable \in {"PENDING", "QUEUED"} -> "queued"
      [] OTHER -> "unresolved"

ResolveState(found, done, busy, delayed, failed, unresolved, limited, stale) ==
    CASE found = 0 -> IF stale THEN "STALE" ELSE "IDLE"
      [] found > 0 /\ limited /\ delayed > 0 /\ busy = 0 -> "RATE_LIMITED"
      [] found > 0 /\ ~(limited /\ delayed > 0 /\ busy = 0) ->
           IF busy > 0 THEN IF done > 0 THEN "PARTIAL" ELSE "PROCESSING"
           ELSE IF done > 0 /\ delayed + failed + unresolved > 0 THEN "PARTIAL"
           ELSE IF done >= found /\ delayed + failed + unresolved = 0
                THEN IF stale THEN "STALE" ELSE "COMPLETE"
           ELSE IF failed > 0 THEN "FAILED" ELSE "PROCESSING"

(* Whether the account was resolved long ago is left open.                *)
State(c, bull, stale) ==
    LET r == request[c]
        count(class) == Cardinality({m \in DOMAIN r.durable : Classify(r.durable[m], bull[m]) = class})
        busy == count("queued") + count("active")
    IN ResolveState(Cardinality(List(c)), Cardinality(r.linked), busy, count("delayed"),
         count("failed"), count("unresolved"), r.limited \/ (count("delayed") > 0 /\ busy = 0), stale)

After(kind) == CASE kind = "refresh" -> "invalidate" [] kind = "status" -> "done" [] OTHER -> "store"

Compute(c) ==
    LET live == [m \in Match |-> Bull(work[m])]
        unread == [m \in Match |-> None] IN
    /\ At(c, "bull")
    /\ \E bull \in {live, unread}, stale \in BOOLEAN :
         /\ IF bull = live THEN Works ELSE Fails
         /\ request' = [request EXCEPT ![c] = [Idle EXCEPT !.kind = request[c].kind,
              !.step = After(request[c].kind),
              !.answer = [state |-> State(c, bull, stale), list |-> List(c)]]]
    /\ UNCHANGED <<keys, world>>

-----------------------------------------------------------------------------
InvalidateProfile(c) ==
    /\ At(c, "invalidate") /\ Go(c, "store")
    /\ \/ Works /\ profile' = None
       \/ Fails /\ UNCHANGED profile
    /\ UNCHANGED <<meta, lock, cooldown, world>>

SetProfile(c) ==
    /\ At(c, "store")
    /\ Go(c, IF request[c].kind = "refresh" THEN "completedRead" ELSE "done")
    /\ \/ Works /\ profile' = request[c].answer
       \/ Fails /\ UNCHANGED profile
    /\ UNCHANGED <<meta, lock, cooldown, world>>

GetProfile(c) ==
    /\ At(c, "cached")
    /\ \/ Works /\ IF profile # None THEN Finish(c, profile) ELSE Go(c, "meta")
       \/ Fails /\ Go(c, "meta")
    /\ UNCHANGED <<keys, world>>

-----------------------------------------------------------------------------
(* The worker, and the passage of time.                                    *)
Ingest(m) ==
    /\ \E to \in Stage :
         /\ \/ work[m] = "waiting" /\ to = "active" /\ Works
            \/ work[m] = "active" /\ to = "linked" /\ Works
            \/ work[m] = "active" /\ to \in {"unlinked", "delayed", "failed"} /\ Fails
            \/ work[m] = "delayed" /\ to = "waiting" /\ Works
         /\ work' = [work EXCEPT ![m] = to]
    /\ UNCHANGED <<keys, request, recorded, overran, searched, requests>>

(* Mutual exclusion ends here, if the holder is still at work.             *)
LockExpires ==
    /\ lock # None /\ lock' = None
    /\ Fails
    /\ overran' = TRUE
    /\ UNCHANGED <<meta, cooldown, profile, work, request, recorded, searched, requests>>

CooldownExpires ==
    /\ cooldown /\ cooldown' = FALSE
    /\ Fails
    /\ UNCHANGED <<meta, lock, profile, request, world>>

MetaExpires ==
    /\ meta # {} /\ meta' = {}
    /\ Fails
    /\ UNCHANGED <<lock, cooldown, profile, request, world>>

ProfileExpires ==
    /\ profile # None /\ profile' = None
    /\ Fails
    /\ UNCHANGED <<meta, lock, cooldown, request, world>>

ClientStep(c) ==
    \/ \E kind \in Kind : Ask(c, kind)
    \/ AssertCooldown(c) \/ TryAcquireLock(c) \/ RecordRefreshStarted(c) \/ Resolve(c)
    \/ SyncPlayerData(c) \/ EnqueueDiscovered(c) \/ RecordDiscoveredMatches(c)
    \/ ReadDiscovered(c) \/ ReadLinked(c) \/ ReadDurable(c) \/ Compute(c)
    \/ InvalidateProfile(c) \/ SetProfile(c) \/ GetProfile(c)
    \/ RecordRefreshCompleted(c) \/ SetCooldown(c) \/ ReleaseLock(c)

Next ==
    \/ \E c \in Client : ClientStep(c)
    \/ \E m \in Match : Ingest(m)
    \/ LockExpires \/ CooldownExpires \/ MetaExpires \/ ProfileExpires

Spec == Init /\ [][Next]_vars

-----------------------------------------------------------------------------
(* Whoever is told COMPLETE, from the cache too, has every match of the    *)
(* list the answer is about: a completed record, a vanished job or a       *)
(* discovery that failed half-way is never mistaken for a linked match.    *)
CompleteIsHonest ==
    \A c \in Client : request[c].step = "done" /\ request[c].answer.state = "COMPLETE" =>
        /\ request[c].answer.list # {}
        /\ \A m \in request[c].answer.list : work[m] = "linked"

(* Refreshes of a player exclude each other, and with no search and no     *)
(* failure between them the read-change-write of the meta value loses no   *)
(* discovery, as long as no refresh outlives its lock.                     *)
InRefresh(c) == /\ request[c].kind = "refresh"
                /\ request[c].step \notin {"idle", "cooldown", "lock", "done"}
RefreshesExcludeEachOther ==
    ~overran =>
        /\ \A c, d \in Client : InRefresh(c) /\ InRefresh(d) => c = d
        /\ ~searched /\ refreshFaults = 0 => meta = recorded

=============================================================================
