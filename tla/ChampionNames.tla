--------------------------- MODULE ChampionNames ---------------------------
(***************************************************************************)
(* The names and icons of champions that the API takes from Data Dragon:   *)
(* one list per process in memory, one in Redis shared by the processes,   *)
(* and a network load when both are too old.  Callers of a process share   *)
(* one load; a refresh goes to the network beside it.                      *)
(***************************************************************************)
EXTENDS Integers, FiniteSets

CONSTANTS
    Processes,   \* API and command line processes
    Ttl,         \* config.cacheTtlSeconds
    MaxTime,     \* bound on the clock
    MaxVersion,  \* bound on the versions published
    MaxLoads,    \* bound on the network loads
    None         \* no list, no load

ConstantsAssumption == Ttl \in Nat \ {0}

VARIABLES
    now,       \* the clock
    published, \* the newest version of Data Dragon
    redis,     \* the payload under the key of the locale, or None
    memory,    \* process -> its list, or None
    inflight,  \* process -> the load its callers share, or None
    refresh,   \* process -> the load of a refreshCache, or None
    loads,     \* network loads so far
    served     \* process -> what its last caller was given, or None

vars == <<now, published, redis, memory, inflight, refresh, loads, served>>

(* A list expires a time-to-live after it was fetched, wherever it is read *)
(* from.                                                                   *)
RestartedClock(payload, time) ==
    [version |-> payload.version, fetchedAt |-> payload.fetchedAt,
     expiresAt |-> time + Ttl]
ToMemory(payload, time) ==
    LET remaining == payload.fetchedAt + Ttl - time
    IN [version |-> payload.version, fetchedAt |-> payload.fetchedAt,
        expiresAt |-> time + (IF remaining > 0 THEN remaining ELSE 0)]

YoungPayload(payload, time) == payload # None /\ time - payload.fetchedAt < Ttl

Live(p) == memory[p] # None /\ memory[p].expiresAt > now
Serve(p, list, began, asked) ==
    served' = [served EXCEPT ![p] =
        IF list = None THEN None
        ELSE [version |-> list.version, fetchedAt |-> list.fetchedAt,
              began |-> began, asked |-> asked, at |-> now]]

AskMemory(p) ==
    /\ Live(p)
    /\ Serve(p, memory[p], now, now)
    /\ UNCHANGED <<now, published, redis, memory, inflight, refresh, loads>>

(* A load, when it began and when the latest of its callers asked.         *)
NewLoad(stage) == [stage |-> stage, began |-> now, asked |-> now,
                   version |-> None, fetchedAt |-> None]
AtStage(load, stage) == load # None /\ load.stage = stage

(* The callers that find no live list share one load.                      *)
AskLoad(p) ==
    /\ ~Live(p) /\ inflight[p] = None /\ loads < MaxLoads
    /\ inflight' = [inflight EXCEPT ![p] = NewLoad("redis")]
    /\ loads' = loads + 1
    /\ UNCHANGED <<now, published, redis, memory, refresh, served>>

(* A caller that comes while a load is under way waits for what that load  *)
(* brings, however far it is.                                              *)
JoinLoad(p) ==
    /\ ~Live(p) /\ inflight[p] # None
    /\ inflight' = [inflight EXCEPT ![p].asked = now]
    /\ UNCHANGED <<now, published, redis, memory, refresh, loads, served>>

(* A payload that cannot be read or is rejected is as good as none.        *)
LoadRedis(p, readable) ==
    /\ AtStage(inflight[p], "redis")
    /\ IF readable /\ YoungPayload(redis, now)
       THEN LET list == ToMemory(redis, now)
            IN /\ memory' = [memory EXCEPT ![p] = list]
               /\ inflight' = [inflight EXCEPT ![p] = None]
               /\ Serve(p, list, inflight[p].began, inflight[p].asked)
       ELSE /\ inflight' = [inflight EXCEPT ![p].stage = "version"]
            /\ UNCHANGED <<memory, served>>
    /\ UNCHANGED <<now, published, redis, refresh, loads>>

(***************************************************************************)
(* A load from the network: the versions, then the champions of the first  *)
(* of them, then Redis, then memory.  Time may pass before each of them.   *)
(***************************************************************************)
Asked(load) == [load EXCEPT !.stage = "file", !.version = published]
Received(load) == [load EXCEPT !.stage = "store", !.fetchedAt = now]
Payload(load) == [version |-> load.version, fetchedAt |-> load.fetchedAt]
Written(load, writable) ==
    redis' = IF writable THEN [version |-> load.version, fetchedAt |-> load.fetchedAt,
                               writtenAt |-> now]
             ELSE redis

LoadVersion(p) ==
    /\ AtStage(inflight[p], "version")
    /\ inflight' = [inflight EXCEPT ![p] = Asked(@)]
    /\ UNCHANGED <<now, published, redis, memory, refresh, loads, served>>

LoadFile(p) ==
    /\ AtStage(inflight[p], "file")
    /\ inflight' = [inflight EXCEPT ![p] = Received(@)]
    /\ UNCHANGED <<now, published, redis, memory, refresh, loads, served>>

(* Where Redis cannot be written the list is kept all the same.            *)
LoadStore(p, writable) ==
    /\ AtStage(inflight[p], "store")
    /\ Written(inflight[p], writable)
    /\ inflight' = [inflight EXCEPT ![p].stage = "keep"]
    /\ UNCHANGED <<now, published, memory, refresh, loads, served>>

LoadKeep(p) ==
    /\ AtStage(inflight[p], "keep")
    /\ LET list == ToMemory(Payload(inflight[p]), now)
       IN /\ memory' = [memory EXCEPT ![p] = list]
          /\ Serve(p, list, inflight[p].began, inflight[p].asked)
    /\ inflight' = [inflight EXCEPT ![p] = None]
    /\ UNCHANGED <<now, published, redis, refresh, loads>>

(* A request that fails ends the load: its callers get nothing, and what   *)
(* is in memory stays.                                                     *)
LoadFails(p) ==
    /\ AtStage(inflight[p], "version") \/ AtStage(inflight[p], "file")
    /\ inflight' = [inflight EXCEPT ![p] = None]
    /\ Serve(p, None, now, now)
    /\ UNCHANGED <<now, published, redis, memory, refresh, loads>>

(* refreshCache forgets the list in memory, then the one in Redis, and     *)
(* loads, whatever load is under way.                                      *)
RefreshCache(p) ==
    /\ refresh[p] = None /\ loads < MaxLoads
    /\ memory' = [memory EXCEPT ![p] = None]
    /\ refresh' = [refresh EXCEPT ![p] = NewLoad("delete")]
    /\ loads' = loads + 1
    /\ UNCHANGED <<now, published, redis, inflight, served>>

RefreshDelete(p, deletable) ==
    /\ AtStage(refresh[p], "delete")
    /\ redis' = IF deletable THEN None ELSE redis
    /\ refresh' = [refresh EXCEPT ![p].stage = "version"]
    /\ UNCHANGED <<now, published, memory, inflight, loads, served>>

RefreshVersion(p) ==
    /\ AtStage(refresh[p], "version")
    /\ refresh' = [refresh EXCEPT ![p] = Asked(@)]
    /\ UNCHANGED <<now, published, redis, memory, inflight, loads, served>>

RefreshFile(p) ==
    /\ AtStage(refresh[p], "file")
    /\ refresh' = [refresh EXCEPT ![p] = Received(@)]
    /\ UNCHANGED <<now, published, redis, memory, inflight, loads, served>>

RefreshStore(p, writable) ==
    /\ AtStage(refresh[p], "store")
    /\ Written(refresh[p], writable)
    /\ refresh' = [refresh EXCEPT ![p].stage = "keep"]
    /\ UNCHANGED <<now, published, memory, inflight, loads, served>>

RefreshKeep(p) ==
    /\ AtStage(refresh[p], "keep")
    /\ memory' = [memory EXCEPT ![p] = ToMemory(Payload(refresh[p]), now)]
    /\ refresh' = [refresh EXCEPT ![p] = None]
    /\ UNCHANGED <<now, published, redis, inflight, loads, served>>

RefreshFails(p) ==
    /\ AtStage(refresh[p], "version") \/ AtStage(refresh[p], "file")
    /\ refresh' = [refresh EXCEPT ![p] = None]
    /\ UNCHANGED <<now, published, redis, memory, inflight, loads, served>>

(***************************************************************************)
(* The world: Data Dragon publishes, time passes and Redis forgets a key   *)
(* at its expiry, a process starts anew.                                   *)
(***************************************************************************)
Publish ==
    /\ published < MaxVersion /\ published' = published + 1
    /\ UNCHANGED <<now, redis, memory, inflight, refresh, loads, served>>

Tick ==
    /\ now < MaxTime /\ now' = now + 1
    /\ redis' = IF redis # None /\ redis.writtenAt + Ttl < now' THEN None ELSE redis
    /\ UNCHANGED <<published, memory, inflight, refresh, loads, served>>

Restart(p) ==
    /\ memory' = [memory EXCEPT ![p] = None]
    /\ inflight' = [inflight EXCEPT ![p] = None]
    /\ refresh' = [refresh EXCEPT ![p] = None]
    /\ served' = [served EXCEPT ![p] = None]
    /\ UNCHANGED <<now, published, redis, loads>>

Init ==
    /\ now = 0 /\ published = 1 /\ redis = None /\ loads = 0
    /\ memory = [p \in Processes |-> None]
    /\ inflight = [p \in Processes |-> None]
    /\ refresh = [p \in Processes |-> None]
    /\ served = [p \in Processes |-> None]

Next ==
    \/ Publish \/ Tick
    \/ \E p \in Processes :
          \/ AskMemory(p) \/ AskLoad(p) \/ JoinLoad(p) \/ Restart(p)
          \/ LoadVersion(p) \/ LoadFile(p) \/ LoadKeep(p) \/ LoadFails(p)
          \/ RefreshCache(p) \/ RefreshVersion(p) \/ RefreshFile(p)
          \/ RefreshKeep(p) \/ RefreshFails(p)
          \/ \E works \in BOOLEAN :
                \/ LoadRedis(p, works) \/ LoadStore(p, works)
                \/ RefreshDelete(p, works) \/ RefreshStore(p, works)

Spec == Init /\ [][Next]_vars

TypeOK ==
    /\ now \in 0 .. MaxTime /\ published \in 1 .. MaxVersion /\ loads \in 0 .. MaxLoads
    /\ \A p \in Processes : memory[p] = None \/ memory[p].expiresAt \in 0 .. MaxTime + Ttl

(***************************************************************************)
(* Properties.                                                             *)
(***************************************************************************)
(* A list that a process would give from its memory is younger than the    *)
(* time to live, also when another process fetched it or a refresh put it  *)
(* there; and no caller is given an older one, unless Redis kept it        *)
(* waiting and it was fetched after the caller asked or, where the caller  *)
(* only joined a load, after that load began.                              *)
NamesAreYoung ==
    \A p \in Processes :
        /\ Live(p) => now - memory[p].fetchedAt < Ttl
        /\ served[p] # None =>
              \/ served[p].at - served[p].fetchedAt < Ttl
              \/ served[p].fetchedAt >= served[p].asked
              \/ served[p].asked > served[p].began /\ served[p].fetchedAt >= served[p].began

=============================================================================
