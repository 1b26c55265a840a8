--------------------------- MODULE ServicesProofs ---------------------------
(***************************************************************************)
(* What the parts promise, as theorems of Services: for all constants that *)
(* ServicesAssumption allows.  First the invariants of five of the parts,  *)
(* in the form in which ServicePartsProofs has those of the others; then   *)
(* all of them carried over to Services, where the part of a behaviour     *)
(* never changes and its steps are those of its module.                    *)
(***************************************************************************)
EXTENDS Services, ServicePartsProofs

-----------------------------------------------------------------------------
(***************************************************************************)
(* The names of the champions.                                             *)
(***************************************************************************)
USE DEF namesNow, namesPublished, namesRedis, namesMemory, namesInflight,
        namesRefresh, namesLoads, namesServed

-----------------------------------------------------------------------------
(* A payload keeps its age on the way to memory, or is not live there.     *)
LEMMA NamesKeptAge ==
  ASSUME NamesTtl \in Nat \ {0}, NEW payload, payload.version \in NamesVersion, payload.fetchedAt \in Int,
         NEW time \in Int
  PROVE  /\ Names!ToMemory(payload, time) \in NamesList
         /\ Names!ToMemory(payload, time).fetchedAt = payload.fetchedAt
         /\ \/ Names!ToMemory(payload, time).expiresAt = payload.fetchedAt + NamesTtl
            \/ Names!ToMemory(payload, time).expiresAt = time
BY DEF Names!ToMemory, NamesList

(* What a process serves, when it is young or fetched for its caller.      *)
LEMMA NamesServes ==
  ASSUME NamesIInv, NamesTtl \in Nat \ {0}, NEW p \in NamesProcesses, NEW list \in NamesList \cup {None},
         NEW began \in Int, NEW asked \in Int, began <= asked, Names!Serve(p, list, began, asked),
         list # None => namesNow - list.fetchedAt < NamesTtl \/ list.fetchedAt >= began
  PROVE  namesServed' \in [NamesProcesses -> NamesServed \cup {None}] /\ NamesServedAreYoung'
<1> DEFINE given == IF list = None THEN None
                    ELSE [version |-> list.version, fetchedAt |-> list.fetchedAt,
                          began |-> began, asked |-> asked, at |-> namesNow]
<1>1. namesServed' = [namesServed EXCEPT ![p] = given]
  BY DEF Names!Serve
<1>2. /\ given \in NamesServed \cup {None}
      /\ given # None => /\ given.began <= given.asked
                         /\ given.at - given.fetchedAt < NamesTtl \/ given.fetchedAt >= given.began
  BY DEF NamesIInv, NamesTypes, NamesList, NamesServed
<1> HIDE DEF given
<1> QED BY <1>1, <1>2 DEF NamesIInv, NamesTypes, NamesServedAreYoung

LEMMA NamesKeeps ==
  ASSUME NamesIInv, NEW p \in NamesProcesses, NEW list \in NamesList \cup {None}, UNCHANGED namesNow,
         list # None => NamesExpires(list), namesMemory' = [namesMemory EXCEPT ![p] = list]
  PROVE  namesMemory' \in [NamesProcesses -> NamesList \cup {None}] /\ NamesListsExpire'
BY DEF NamesIInv, NamesTypes, NamesListsExpire, NamesExpires

LEMMA NamesTakes ==
  ASSUME NamesIInv, NEW p \in NamesProcesses, NEW load \in NamesLoad \cup {None}, UNCHANGED namesNow,
         load # None => NamesFetched(load),
         \/ namesInflight' = [namesInflight EXCEPT ![p] = load] /\ UNCHANGED namesRefresh
         \/ namesRefresh' = [namesRefresh EXCEPT ![p] = load] /\ UNCHANGED namesInflight
  PROVE  /\ namesInflight' \in [NamesProcesses -> NamesLoad \cup {None}]
         /\ namesRefresh' \in [NamesProcesses -> NamesLoad \cup {None}]
         /\ NamesLoadsFetch'
BY DEF NamesIInv, NamesTypes, NamesLoadsFetch, NamesFetched

LEMMA NamesUnserved ==
  ASSUME NamesIInv, UNCHANGED namesServed
  PROVE  namesServed' \in [NamesProcesses -> NamesServed \cup {None}] /\ NamesServedAreYoung'
BY DEF NamesIInv, NamesTypes, NamesServedAreYoung

LEMMA NamesUnkept ==
  ASSUME NamesIInv, UNCHANGED <<namesMemory, namesNow>>
  PROVE  namesMemory' \in [NamesProcesses -> NamesList \cup {None}] /\ NamesListsExpire'
BY DEF NamesIInv, NamesTypes, NamesListsExpire, NamesExpires

LEMMA NamesNewLoads ==
  ASSUME NamesIInv, NEW stage \in {"redis", "delete"}
  PROVE  Names!NewLoad(stage) \in NamesLoad /\ NamesFetched(Names!NewLoad(stage))
BY DEF Names!NewLoad, NamesLoad, NamesVersion, NamesFetched, NamesIInv, NamesTypes

LEMMA NamesAskSteps ==
  ASSUME NamesIInv, NamesTtl \in Nat \ {0}, NEW p \in NamesProcesses, Names!AskMemory(p) \/ Names!AskLoad(p) \/ Names!JoinLoad(p)
  PROVE  NamesIInv'
<1>1. CASE Names!AskMemory(p)
  <2>1. namesMemory[p] \in NamesList /\ namesNow - namesMemory[p].fetchedAt < NamesTtl /\ namesNow \in Int
    BY <1>1 DEF Names!AskMemory, Names!Live, NamesIInv, NamesTypes, NamesListsExpire, NamesExpires, NamesList
  <2>2. UNCHANGED <<namesNow, namesPublished, namesRedis, namesMemory, namesInflight, namesRefresh>> /\ Names!Serve(p, namesMemory[p], namesNow, namesNow)
    BY <1>1 DEF Names!AskMemory
  <2> QED BY <2>1, <2>2, NamesServes, NamesUnkept DEF NamesIInv, NamesTypes, NamesLoadsFetch, NamesFetched
<1>2. CASE Names!AskLoad(p)
  <2>1. /\ UNCHANGED <<namesNow, namesPublished, namesRedis, namesMemory, namesRefresh, namesServed>>
        /\ namesInflight' = [namesInflight EXCEPT ![p] = Names!NewLoad("redis")]
    BY <1>2 DEF Names!AskLoad
  <2> QED BY <2>1, NamesNewLoads, NamesTakes, NamesUnserved, NamesUnkept DEF NamesIInv, NamesTypes
<1>3. CASE Names!JoinLoad(p)
  <2> DEFINE load == [namesInflight[p] EXCEPT !.asked = namesNow]
  <2>1. /\ UNCHANGED <<namesNow, namesPublished, namesRedis, namesMemory, namesRefresh, namesServed>>
        /\ namesInflight' = [namesInflight EXCEPT ![p] = load] /\ namesInflight[p] # None
    BY <1>3 DEF Names!JoinLoad, NamesIInv, NamesTypes
  <2>2. load \in NamesLoad /\ NamesFetched(load)
    BY <2>1 DEF NamesLoad, NamesFetched, NamesIInv, NamesTypes, NamesLoadsFetch
  <2> HIDE DEF load
  <2> QED BY <2>1, <2>2, NamesTakes, NamesUnserved, NamesUnkept DEF NamesIInv, NamesTypes
<1> QED BY <1>1, <1>2, <1>3

LEMMA NamesLoadRedisStep ==
  ASSUME NamesIInv, NamesTtl \in Nat \ {0}, NEW p \in NamesProcesses, NEW readable \in BOOLEAN, Names!LoadRedis(p, readable)
  PROVE  NamesIInv'
<1>1. UNCHANGED <<namesNow, namesPublished, namesRedis, namesRefresh>> /\ namesInflight[p] \in NamesLoad /\ namesInflight[p] # None
  BY DEF Names!LoadRedis, Names!AtStage, NamesIInv, NamesTypes
<1>2. CASE readable /\ Names!YoungPayload(namesRedis, namesNow)
  <2> DEFINE list == Names!ToMemory(namesRedis, namesNow)
             began == namesInflight[p].began
             asked == namesInflight[p].asked
  <2>1. /\ namesMemory' = [namesMemory EXCEPT ![p] = list] /\ namesInflight' = [namesInflight EXCEPT ![p] = None]
        /\ Names!Serve(p, list, began, asked) /\ began \in Int /\ asked \in Int /\ began <= asked
    BY <1>1, <1>2 DEF Names!LoadRedis, NamesLoad, NamesIInv, NamesLoadsFetch, NamesFetched
  <2>2. namesRedis \in NamesStored /\ namesNow \in Int /\ namesNow - namesRedis.fetchedAt < NamesTtl
    BY <1>2 DEF Names!YoungPayload, NamesIInv, NamesTypes
  <2>3. list \in NamesList /\ namesNow - list.fetchedAt < NamesTtl /\ NamesExpires(list)
    BY <2>2, NamesKeptAge DEF NamesStored, NamesExpires
  <2> HIDE DEF list, began, asked
  <2>4. namesMemory' \in [NamesProcesses -> NamesList \cup {None}] /\ NamesListsExpire'
    BY <1>1, <2>1, <2>3, NamesKeeps
  <2>5. namesServed' \in [NamesProcesses -> NamesServed \cup {None}] /\ NamesServedAreYoung'
    BY <2>1, <2>3, NamesServes
  <2> QED BY <1>1, <2>1, <2>4, <2>5, NamesTakes DEF NamesIInv, NamesTypes
<1>3. CASE ~(readable /\ Names!YoungPayload(namesRedis, namesNow))
  <2> DEFINE load == [namesInflight[p] EXCEPT !.stage = "version"]
  <2>1. UNCHANGED <<namesMemory, namesServed>> /\ namesInflight' = [namesInflight EXCEPT ![p] = load]
    BY <1>1, <1>3 DEF Names!LoadRedis, NamesIInv, NamesTypes
  <2>2. load \in NamesLoad /\ NamesFetched(load)
    BY <1>1 DEF NamesLoad, NamesFetched, NamesIInv, NamesLoadsFetch
  <2> HIDE DEF load
  <2> QED BY <1>1, <2>1, <2>2, NamesTakes, NamesUnserved, NamesUnkept DEF NamesIInv, NamesTypes
<1> QED BY <1>2, <1>3

(* A load that goes on from one stage to the next one.                     *)
LEMMA NamesGoesOn ==
  ASSUME NamesIInv, NEW p \in NamesProcesses, NEW old \in NamesLoad, NamesFetched(old), NEW load,
         \/ load = Names!Asked(old) \/ load = Names!Received(old)
         \/ load = [old EXCEPT !.stage = "version"]
         \/ old.stage = "store" /\ load = [old EXCEPT !.stage = "keep"],
         UNCHANGED <<namesNow, namesPublished, namesMemory, namesServed>>, namesRedis' \in NamesStored \cup {None},
         \/ namesInflight' = [namesInflight EXCEPT ![p] = load] /\ UNCHANGED namesRefresh
         \/ namesRefresh' = [namesRefresh EXCEPT ![p] = load] /\ UNCHANGED namesInflight
  PROVE  NamesIInv'
<1>1. load \in NamesLoad
  BY DEF Names!Asked, Names!Received, NamesLoad, NamesVersion, NamesIInv, NamesTypes
<1>2. NamesFetched(load)
  <2>1. /\ old.began \in Int /\ old.asked \in Int /\ namesNow \in Int
        /\ old.began <= old.asked /\ old.asked <= namesNow /\ old.began <= namesNow
    BY DEF NamesLoad, NamesFetched, NamesIInv, NamesTypes
  <2>2. CASE load = Names!Received(old)
    BY <2>1, <2>2 DEF Names!Received, NamesFetched, NamesLoad
  <2>3. CASE load # Names!Received(old)
    BY <2>1, <2>3 DEF Names!Asked, NamesFetched, NamesLoad
  <2> QED BY <2>2, <2>3
<1> QED BY <1>1, <1>2, NamesTakes, NamesUnserved, NamesUnkept DEF NamesIInv, NamesTypes

LEMMA NamesOldLoads ==
  ASSUME NamesIInv, NEW p \in NamesProcesses
  PROVE  /\ namesInflight[p] # None => namesInflight[p] \in NamesLoad /\ NamesFetched(namesInflight[p])
         /\ namesRefresh[p] # None => namesRefresh[p] \in NamesLoad /\ NamesFetched(namesRefresh[p])
BY DEF NamesIInv, NamesTypes, NamesLoadsFetch

LEMMA NamesNetworkSteps ==
  ASSUME NamesIInv, NEW p \in NamesProcesses,
         Names!LoadVersion(p) \/ Names!LoadFile(p) \/ Names!RefreshVersion(p) \/ Names!RefreshFile(p)
  PROVE  NamesIInv'
<1>1. UNCHANGED <<namesNow, namesPublished, namesMemory, namesServed>> /\ namesRedis' \in NamesStored \cup {None}
  BY DEF Names!LoadVersion, Names!LoadFile, Names!RefreshVersion, Names!RefreshFile, NamesIInv, NamesTypes
<1>2. CASE Names!LoadVersion(p) \/ Names!LoadFile(p)
  <2> DEFINE old == namesInflight[p]
  <2>1. /\ old # None /\ UNCHANGED namesRefresh
        /\ \/ namesInflight' = [namesInflight EXCEPT ![p] = Names!Asked(old)]
           \/ namesInflight' = [namesInflight EXCEPT ![p] = Names!Received(old)]
    BY <1>2 DEF Names!LoadVersion, Names!LoadFile, Names!AtStage, NamesIInv, NamesTypes
  <2> QED BY <1>1, <2>1, NamesOldLoads, NamesGoesOn
<1>3. CASE Names!RefreshVersion(p) \/ Names!RefreshFile(p)
  <2> DEFINE old == namesRefresh[p]
  <2>1. /\ old # None /\ UNCHANGED namesInflight
        /\ \/ namesRefresh' = [namesRefresh EXCEPT ![p] = Names!Asked(old)]
           \/ namesRefresh' = [namesRefresh EXCEPT ![p] = Names!Received(old)]
    BY <1>3 DEF Names!RefreshVersion, Names!RefreshFile, Names!AtStage, NamesIInv, NamesTypes
  <2> QED BY <1>1, <2>1, NamesOldLoads, NamesGoesOn
<1> QED BY <1>2, <1>3

LEMMA NamesStoreSteps ==
  ASSUME NamesIInv, NEW p \in NamesProcesses, NEW works \in BOOLEAN,
         Names!LoadStore(p, works) \/ Names!RefreshStore(p, works) \/ Names!RefreshDelete(p, works)
  PROVE  NamesIInv'
<1>1. UNCHANGED <<namesNow, namesPublished, namesMemory, namesServed>>
  BY DEF Names!LoadStore, Names!RefreshStore, Names!RefreshDelete
<1>2. ASSUME NEW load \in NamesLoad, NamesFetched(load), load.stage = "store", Names!Written(load, works)
      PROVE  namesRedis' \in NamesStored \cup {None}
  BY <1>2 DEF Names!Written, NamesStored, NamesLoad, NamesFetched, NamesIInv, NamesTypes
<1>3. CASE Names!LoadStore(p, works)
  <2> DEFINE old == namesInflight[p]
  <2>1. /\ old # None /\ old.stage = "store" /\ UNCHANGED namesRefresh /\ Names!Written(old, works)
        /\ namesInflight' = [namesInflight EXCEPT ![p] = [old EXCEPT !.stage = "keep"]]
    BY <1>3 DEF Names!LoadStore, Names!AtStage, NamesIInv, NamesTypes
  <2> QED BY <1>1, <1>2, <2>1, NamesOldLoads, NamesGoesOn
<1>4. CASE Names!RefreshStore(p, works)
  <2> DEFINE old == namesRefresh[p]
  <2>1. /\ old # None /\ old.stage = "store" /\ UNCHANGED namesInflight /\ Names!Written(old, works)
        /\ namesRefresh' = [namesRefresh EXCEPT ![p] = [old EXCEPT !.stage = "keep"]]
    BY <1>4 DEF Names!RefreshStore, Names!AtStage, NamesIInv, NamesTypes
  <2> QED BY <1>1, <1>2, <2>1, NamesOldLoads, NamesGoesOn
<1>5. CASE Names!RefreshDelete(p, works)
  <2> DEFINE old == namesRefresh[p]
  <2>1. /\ old # None /\ UNCHANGED namesInflight /\ namesRedis' \in NamesStored \cup {None}
        /\ namesRefresh' = [namesRefresh EXCEPT ![p] = [old EXCEPT !.stage = "version"]]
    BY <1>5 DEF Names!RefreshDelete, Names!AtStage, NamesIInv, NamesTypes
  <2> QED BY <1>1, <2>1, NamesOldLoads, NamesGoesOn
<1> QED BY <1>3, <1>4, <1>5

(* What a load keeps is not live any more when Redis kept it waiting.      *)
LEMMA NamesKeepSteps ==
  ASSUME NamesIInv, NamesTtl \in Nat \ {0}, NEW p \in NamesProcesses, Names!LoadKeep(p) \/ Names!RefreshKeep(p)
  PROVE  NamesIInv'
<1>1. ASSUME NEW load \in NamesLoad, NamesFetched(load), load.stage = "keep"
      PROVE  LET list == Names!ToMemory(Names!Payload(load), namesNow) IN
             list \in NamesList /\ NamesExpires(list) /\ list.fetchedAt >= load.began
  <2>1. /\ Names!Payload(load).version \in NamesVersion /\ Names!Payload(load).fetchedAt \in Int
        /\ Names!Payload(load).fetchedAt >= load.began /\ namesNow \in Int
    BY <1>1 DEF Names!Payload, NamesLoad, NamesFetched, NamesIInv, NamesTypes
  <2> QED BY <2>1, NamesKeptAge DEF NamesExpires
<1>2. UNCHANGED <<namesNow, namesPublished, namesRedis>>
  BY DEF Names!LoadKeep, Names!RefreshKeep
<1>3. CASE Names!LoadKeep(p)
  <2> DEFINE list == Names!ToMemory(Names!Payload(namesInflight[p]), namesNow)
             began == namesInflight[p].began
             asked == namesInflight[p].asked
  <2>1. /\ namesInflight[p] # None /\ namesInflight[p].stage = "keep"
        /\ namesInflight' = [namesInflight EXCEPT ![p] = None] /\ UNCHANGED namesRefresh
        /\ namesMemory' = [namesMemory EXCEPT ![p] = list] /\ Names!Serve(p, list, began, asked)
    BY <1>3 DEF Names!LoadKeep, Names!AtStage
  <2>2. /\ list \in NamesList /\ NamesExpires(list) /\ list.fetchedAt >= began
        /\ began \in Int /\ asked \in Int /\ began <= asked
    BY <1>1, <2>1, NamesOldLoads DEF NamesLoad, NamesFetched
  <2> HIDE DEF list, began, asked
  <2>3. namesMemory' \in [NamesProcesses -> NamesList \cup {None}] /\ NamesListsExpire'
    BY <1>2, <2>1, <2>2, NamesKeeps
  <2>4. namesServed' \in [NamesProcesses -> NamesServed \cup {None}] /\ NamesServedAreYoung'
    BY <2>1, <2>2, NamesServes
  <2> QED BY <1>2, <2>1, <2>3, <2>4, NamesTakes DEF NamesIInv, NamesTypes
<1>4. CASE Names!RefreshKeep(p)
  <2> DEFINE list == Names!ToMemory(Names!Payload(namesRefresh[p]), namesNow)
  <2>1. /\ namesRefresh[p] # None /\ namesRefresh[p].stage = "keep"
        /\ namesRefresh' = [namesRefresh EXCEPT ![p] = None] /\ UNCHANGED <<namesInflight, namesServed>>
        /\ namesMemory' = [namesMemory EXCEPT ![p] = list]
    BY <1>4 DEF Names!RefreshKeep, Names!AtStage
  <2>2. list \in NamesList /\ NamesExpires(list)
    BY <1>1, <2>1, NamesOldLoads
  <2> HIDE DEF list
  <2>3. namesMemory' \in [NamesProcesses -> NamesList \cup {None}] /\ NamesListsExpire'
    BY <1>2, <2>1, <2>2, NamesKeeps
  <2> QED BY <1>2, <2>1, <2>3, NamesTakes, NamesUnserved DEF NamesIInv, NamesTypes
<1> QED BY <1>3, <1>4

LEMMA NamesEndSteps ==
  ASSUME NamesIInv, NamesTtl \in Nat \ {0}, NEW p \in NamesProcesses,
         Names!LoadFails(p) \/ Names!RefreshCache(p) \/ Names!RefreshFails(p) \/ Names!Restart(p)
  PROVE  NamesIInv'
<1>1. UNCHANGED <<namesNow, namesPublished, namesRedis>>
  BY DEF Names!LoadFails, Names!RefreshCache, Names!RefreshFails, Names!Restart
<1>2. CASE Names!LoadFails(p)
  <2>1. /\ namesInflight' = [namesInflight EXCEPT ![p] = None] /\ UNCHANGED <<namesMemory, namesRefresh>>
        /\ Names!Serve(p, None, namesNow, namesNow) /\ namesNow \in Int
    BY <1>2 DEF Names!LoadFails, NamesIInv, NamesTypes
  <2>2. namesServed' \in [NamesProcesses -> NamesServed \cup {None}] /\ NamesServedAreYoung'
    BY <2>1, NamesServes
  <2> QED BY <1>1, <2>1, <2>2, NamesTakes, NamesUnkept DEF NamesIInv, NamesTypes
<1>3. CASE Names!RefreshCache(p)
  <2>1. /\ namesRefresh' = [namesRefresh EXCEPT ![p] = Names!NewLoad("delete")] /\ UNCHANGED <<namesInflight, namesServed>>
        /\ namesMemory' = [namesMemory EXCEPT ![p] = None]
    BY <1>3 DEF Names!RefreshCache
  <2> QED BY <1>1, <2>1, NamesNewLoads, NamesTakes, NamesKeeps, NamesUnserved DEF NamesIInv, NamesTypes
<1>4. CASE Names!RefreshFails(p)
  <2>1. namesRefresh' = [namesRefresh EXCEPT ![p] = None] /\ UNCHANGED <<namesMemory, namesInflight, namesServed>>
    BY <1>4 DEF Names!RefreshFails
  <2> QED BY <1>1, <2>1, NamesTakes, NamesUnkept, NamesUnserved DEF NamesIInv, NamesTypes
<1>5. CASE Names!Restart(p)
  <2>1. /\ namesMemory' = [namesMemory EXCEPT ![p] = None] /\ namesServed' = [namesServed EXCEPT ![p] = None]
        /\ namesInflight' = [namesInflight EXCEPT ![p] = None] /\ namesRefresh' = [namesRefresh EXCEPT ![p] = None]
    BY <1>5 DEF Names!Restart
  <2>2. namesMemory' \in [NamesProcesses -> NamesList \cup {None}] /\ NamesListsExpire'
    BY <1>1, <2>1, NamesKeeps
  <2> QED BY <1>1, <2>1, <2>2 DEF NamesIInv, NamesTypes, NamesLoadsFetch, NamesFetched, NamesServedAreYoung
<1> QED BY <1>2, <1>3, <1>4, <1>5

LEMMA NamesWorldSteps ==
  ASSUME NamesIInv, Names!Publish \/ Names!Tick \/ UNCHANGED Names!vars
  PROVE  NamesIInv'
<1>1. /\ UNCHANGED <<namesMemory, namesInflight, namesRefresh, namesServed>>
      /\ namesPublished' \in {namesPublished, namesPublished + 1} /\ namesNow' \in {namesNow, namesNow + 1}
      /\ namesRedis' \in {namesRedis, None}
  BY DEF Names!Publish, Names!Tick, Names!vars
<1>2. NamesListsExpire'
  BY <1>1 DEF NamesIInv, NamesTypes, NamesListsExpire, NamesExpires, NamesList
<1>3. NamesLoadsFetch'
  BY <1>1 DEF NamesIInv, NamesTypes, NamesLoadsFetch, NamesFetched, NamesLoad
<1> QED BY <1>1, <1>2, <1>3 DEF NamesIInv, NamesTypes, NamesServedAreYoung

LEMMA NamesInitIInv == ASSUME Names!Init PROVE NamesIInv
BY DEF Names!Init, NamesIInv, NamesTypes, NamesListsExpire, NamesLoadsFetch, NamesServedAreYoung

LEMMA NamesNextIInv == ASSUME NamesIInv, Names!ConstantsAssumption, [Names!Next]_(Names!vars) PROVE NamesIInv'
<1>1. NamesTtl \in Nat \ {0}
  BY DEF Names!ConstantsAssumption
<1> QED BY <1>1, NamesAskSteps, NamesLoadRedisStep, NamesNetworkSteps, NamesStoreSteps, NamesKeepSteps, NamesEndSteps, NamesWorldSteps
        DEF Names!Next

LEMMA NamesIInvSuffices == ASSUME NamesIInv, Names!ConstantsAssumption PROVE Names!NamesAreYoung
<1>1. ASSUME NEW p \in NamesProcesses, Names!Live(p)
      PROVE  namesNow - namesMemory[p].fetchedAt < NamesTtl
  BY <1>1 DEF NamesIInv, NamesTypes, NamesListsExpire, NamesExpires, Names!Live, NamesList, Names!ConstantsAssumption
<1>2. ASSUME NEW p \in NamesProcesses, namesServed[p] # None
      PROVE  \/ namesServed[p].at - namesServed[p].fetchedAt < NamesTtl
             \/ namesServed[p].fetchedAt >= namesServed[p].asked
             \/ namesServed[p].asked > namesServed[p].began /\ namesServed[p].fetchedAt >= namesServed[p].began
  BY <1>2 DEF NamesIInv, NamesTypes, NamesServed, NamesServedAreYoung
<1> QED BY <1>1, <1>2 DEF Names!NamesAreYoung

(* The inductive invariant of the names: a list that is live in memory expires
   a time to live after it was fetched, and a load stores what it fetched after
   it began. *)
THEOREM NamesInductive == ASSUME Names!ConstantsAssumption PROVE Names!Spec => []NamesIInv
<1>1. Names!Init => NamesIInv
  BY NamesInitIInv
<1>2. NamesIInv /\ [Names!Next]_(Names!vars) => NamesIInv'
  BY NamesNextIInv
<1> QED BY <1>1, <1>2, PTL DEF Names!Spec

(* A process gives no list from memory or Redis that was fetched a time to live
   ago, for any number of processes, and an older one only if it was fetched after
   the load that its callers began or joined had begun. *)
THEOREM NamesAreYoung == ASSUME Names!ConstantsAssumption PROVE Names!Spec => [](Names!NamesAreYoung)
<1>1. NamesIInv => Names!NamesAreYoung
  BY NamesIInvSuffices
<1> QED BY <1>1, NamesInductive, PTL

HIDE DEF namesNow, namesPublished, namesRedis, namesMemory, namesInflight,
         namesRefresh, namesLoads, namesServed

-----------------------------------------------------------------------------
(***************************************************************************)
(* Refreshing a player.                                                    *)
(***************************************************************************)
USE DEF refreshWork, refreshMeta, refreshLock, refreshCooldown,
        refreshProfile, refreshRequest, refreshRecorded, refreshOverran,
        refreshSearched, refreshRequests, refreshRefreshFaults

(* The finite sets of the instance are those of the library, and so are    *)
(* their cardinalities.                                                    *)
LEMMA RefreshSameFiniteSets ==
  ASSUME NEW S
  PROVE  Refresh!IsFiniteSet(S) <=> IsFiniteSet(S)
BY DEF Refresh!IsFiniteSet, IsFiniteSet

LEMMA RefreshSameCardinality ==
  ASSUME NEW S
  PROVE  Refresh!Cardinality(S) = Cardinality(S)
BY Zenon DEF Refresh!Cardinality, Cardinality

-----------------------------------------------------------------------------
(* How a step preserves it.                                                *)

LEMMA RefreshFaultsGrow ==
  ASSUME RefreshTypes, RefreshMaxFaults \in Nat, Refresh!Works \/ Refresh!Fails
  PROVE  refreshRefreshFaults' \in 0..RefreshMaxFaults /\ refreshRefreshFaults \in Nat /\ refreshRefreshFaults' >= refreshRefreshFaults
BY DEF RefreshTypes, Refresh!Works, Refresh!Fails

\* A client takes a step that leaves it with the request r.
LEMMA RefreshClientMoves ==
  ASSUME RefreshIInv, NEW c \in RefreshClient, NEW r \in RefreshRequestType,
         refreshRequest' = [refreshRequest EXCEPT ![c] = r],
         refreshWork' \in [RefreshMatch -> Refresh!Stage], refreshMeta' \in SUBSET RefreshMatch, refreshRecorded' \in SUBSET RefreshMatch,
         refreshLock' \in RefreshClient \cup {None}, refreshProfile' \in {None} \cup RefreshAnswerType,
         refreshCooldown' \in BOOLEAN, refreshOverran' = refreshOverran, refreshSearched' \in BOOLEAN, refreshSearched => refreshSearched',
         refreshRequests' \in 0..RefreshMaxRequests, refreshRefreshFaults' \in 0..RefreshMaxFaults,
         refreshRefreshFaults' = 0 => refreshRefreshFaults = 0,
         \A m \in RefreshMatch : refreshWork[m] = "linked" => refreshWork'[m] = "linked",
         IsFiniteSet(refreshMeta'), IsFiniteSet(r.own), IsFiniteSet(r.seen),
         RefreshFitsItsKind(r, refreshSearched'),
         r.step \in {"durable", "bull"} =>
           r.linked \subseteq {m \in RefreshListOf(r) : refreshWork'[m] = "linked"},
         r.answer.state = "COMPLETE" =>
           r.answer.list # {} /\ \A m \in r.answer.list : refreshWork'[m] = "linked",
         refreshProfile' # None => RefreshHonest(refreshProfile)',
         ~refreshOverran => /\ Refreshing(r) => refreshLock' = c
                            /\ \A d \in RefreshClient : d # c /\ Refresh!InRefresh(d) => refreshLock' = d,
         ~refreshOverran /\ ~refreshSearched' /\ refreshRefreshFaults' = 0 =>
           /\ refreshMeta' = refreshRecorded'
           /\ RefreshAboutToWriteBack(r) => r.seen = refreshMeta'
           /\ \A d \in RefreshClient : d # c /\ RefreshAboutToWriteBack(refreshRequest[d]) => refreshRequest[d].seen = refreshMeta'
  PROVE  RefreshIInv'
<1>1. /\ refreshRequest \in [RefreshClient -> RefreshRequestType] /\ refreshRequest' \in [RefreshClient -> RefreshRequestType]
      /\ refreshRequest'[c] = r /\ \A d \in RefreshClient : d # c => refreshRequest'[d] = refreshRequest[d]
  BY DEF RefreshIInv, RefreshTypes
<1>2. RefreshTypes'
  BY <1>1 DEF RefreshIInv, RefreshTypes
<1>3. RefreshListsAreFinite'
  BY <1>1 DEF RefreshIInv, RefreshListsAreFinite
<1>4. RefreshKindsKeepToTheirSteps'
  BY <1>1 DEF RefreshIInv, RefreshKindsKeepToTheirSteps, RefreshFitsItsKind
<1>5. RefreshLinkedIsLinked'
  <2> SUFFICES ASSUME NEW d \in RefreshClient, refreshRequest'[d].step \in {"durable", "bull"},
                      NEW m \in refreshRequest'[d].linked
               PROVE  m \in Refresh!List(d)' /\ refreshWork'[m] = "linked"
    BY DEF RefreshLinkedIsLinked
  <2>1. CASE d = c
    BY <1>1, <2>1 DEF Refresh!List, RefreshListOf
  <2>2. CASE d # c
    <3>1. refreshRequest'[d] = refreshRequest[d] /\ refreshRequest[d] \in RefreshRequestType
      BY <1>1, <2>2
    <3>2. m \in Refresh!List(d) /\ refreshWork[m] = "linked"
      BY <3>1 DEF RefreshIInv, RefreshLinkedIsLinked
    <3>3. m \in RefreshMatch
      BY <3>1 DEF RefreshRequestType
    <3> QED BY <3>1, <3>2, <3>3 DEF Refresh!List
  <2> QED BY <2>1, <2>2
<1>6. RefreshAnswersAreHonest'
  <2>1. ASSUME NEW d \in RefreshClient PROVE RefreshHonest(refreshRequest[d].answer)'
    <3>1. CASE d = c
      BY <1>1, <3>1 DEF RefreshHonest
    <3>2. CASE d # c
      <4>1. refreshRequest'[d] = refreshRequest[d] /\ refreshRequest[d].answer.list \subseteq RefreshMatch
        BY <1>1, <3>2 DEF RefreshRequestType, RefreshAnswerType
      <4>2. RefreshHonest(refreshRequest[d].answer)
        BY DEF RefreshIInv, RefreshAnswersAreHonest
      <4> QED BY <4>1, <4>2 DEF RefreshHonest
    <3> QED BY <3>1, <3>2
  <2> QED BY <2>1 DEF RefreshAnswersAreHonest
<1>7. RefreshHoldsLock'
  <2> SUFFICES ASSUME ~refreshOverran, NEW d \in RefreshClient, Refresh!InRefresh(d)' PROVE refreshLock' = d
    BY DEF RefreshHoldsLock
  <2> QED BY <1>1 DEF Refresh!InRefresh, Refreshing
<1>8. RefreshMetaIsRecorded'
  BY <1>1 DEF RefreshMetaIsRecorded, RefreshAboutToWriteBack
<1> QED BY <1>2, <1>3, <1>4, <1>5, <1>6, <1>7, <1>8 DEF RefreshIInv

\* ... and that writes nothing else.
LEMMA RefreshClientOnlyMoves ==
  ASSUME RefreshIInv, RefreshMaxFaults \in Nat, NEW c \in RefreshClient, NEW r \in RefreshRequestType,
         refreshRequest' = [refreshRequest EXCEPT ![c] = r], UNCHANGED <<Refresh!keys, Refresh!world>>, Refresh!Works \/ Refresh!Fails,
         IsFiniteSet(r.own), IsFiniteSet(r.seen), RefreshFitsItsKind(r, refreshSearched),
         r.step \in {"durable", "bull"} => r.linked \subseteq {m \in RefreshListOf(r) : refreshWork[m] = "linked"},
         RefreshHonest(r.answer),
         ~refreshOverran /\ Refreshing(r) => Refresh!InRefresh(c),
         ~refreshOverran /\ ~refreshSearched /\ refreshRefreshFaults' = 0 /\ RefreshAboutToWriteBack(r) => r.seen = refreshMeta
  PROVE  RefreshIInv'
<1>1. refreshRefreshFaults' \in 0..RefreshMaxFaults /\ (refreshRefreshFaults' = 0 => refreshRefreshFaults = 0)
  BY RefreshFaultsGrow DEF RefreshIInv
<1>2. /\ refreshWork' = refreshWork /\ refreshMeta' = refreshMeta /\ refreshRecorded' = refreshRecorded /\ refreshLock' = refreshLock /\ refreshProfile' = refreshProfile
      /\ refreshCooldown' = refreshCooldown /\ refreshOverran' = refreshOverran /\ refreshSearched' = refreshSearched /\ refreshRequests' = refreshRequests
  BY DEF Refresh!keys, Refresh!world
<1>3. RefreshTypes /\ RefreshListsAreFinite /\ RefreshAnswersAreHonest /\ RefreshHoldsLock /\ RefreshMetaIsRecorded
  BY DEF RefreshIInv
<1>4. r.answer.state = "COMPLETE" =>
        r.answer.list # {} /\ \A m \in r.answer.list : refreshWork'[m] = "linked"
  BY <1>2 DEF RefreshHonest
<1>5. refreshProfile' # None => RefreshHonest(refreshProfile)'
  BY <1>2, <1>3 DEF RefreshAnswersAreHonest, RefreshHonest
<1>6. ~refreshOverran => /\ Refreshing(r) => refreshLock' = c
                         /\ \A d \in RefreshClient : d # c /\ Refresh!InRefresh(d) => refreshLock' = d
  BY <1>2, <1>3 DEF RefreshHoldsLock
<1>7. ~refreshOverran /\ ~refreshSearched' /\ refreshRefreshFaults' = 0 =>
           /\ refreshMeta' = refreshRecorded'
           /\ RefreshAboutToWriteBack(r) => r.seen = refreshMeta'
           /\ \A d \in RefreshClient : d # c /\ RefreshAboutToWriteBack(refreshRequest[d]) => refreshRequest[d].seen = refreshMeta'
  BY <1>1, <1>2, <1>3 DEF RefreshMetaIsRecorded, RefreshAboutToWriteBack
<1>8. r.step \in {"durable", "bull"} => r.linked \subseteq {m \in RefreshListOf(r) : refreshWork'[m] = "linked"}
  BY <1>2
<1>9. /\ refreshWork' \in [RefreshMatch -> Refresh!Stage] /\ refreshMeta' \in SUBSET RefreshMatch /\ refreshRecorded' \in SUBSET RefreshMatch
      /\ refreshLock' \in RefreshClient \cup {None} /\ refreshProfile' \in {None} \cup RefreshAnswerType
      /\ refreshCooldown' \in BOOLEAN /\ refreshSearched' \in BOOLEAN /\ refreshRequests' \in 0..RefreshMaxRequests
      /\ IsFiniteSet(refreshMeta') /\ RefreshFitsItsKind(r, refreshSearched')
      /\ \A m \in RefreshMatch : refreshWork[m] = "linked" => refreshWork'[m] = "linked"
  BY <1>2, <1>3 DEF RefreshTypes, RefreshListsAreFinite
<1> HIDE DEF Refresh!keys, Refresh!world
<1> QED BY <1>1, <1>2, <1>4, <1>5, <1>6, <1>7, <1>8, <1>9, RefreshClientMoves

\* What the invariant says of one request.
LEMMA RefreshRequestFacts ==
  ASSUME RefreshIInv, NEW c \in RefreshClient
  PROVE  /\ refreshRequest[c] \in RefreshRequestType /\ IsFiniteSet(refreshRequest[c].own) /\ IsFiniteSet(refreshRequest[c].seen)
         /\ RefreshFitsItsKind(refreshRequest[c], refreshSearched) /\ RefreshHonest(refreshRequest[c].answer)
         /\ refreshRequest[c].step \in {"durable", "bull"} =>
              refreshRequest[c].linked \subseteq {m \in RefreshListOf(refreshRequest[c]) : refreshWork[m] = "linked"}
         /\ Refresh!List(c) = RefreshListOf(refreshRequest[c])
         /\ Refresh!InRefresh(c) <=> Refreshing(refreshRequest[c])
BY DEF RefreshIInv, RefreshTypes, RefreshListsAreFinite, RefreshKindsKeepToTheirSteps, RefreshFitsItsKind, RefreshAnswersAreHonest,
       RefreshLinkedIsLinked, RefreshListOf, Refresh!List, Refresh!InRefresh, Refreshing

\* A request that goes to another step and writes nothing.
LEMMA RefreshGoOnly ==
  ASSUME RefreshIInv, RefreshMaxFaults \in Nat, NEW c \in RefreshClient, NEW step \in Refresh!Step \ {"durable", "bull"},
         Refresh!Go(c, step), UNCHANGED <<Refresh!keys, Refresh!world>>, Refresh!Works \/ Refresh!Fails,
         RefreshFitsItsKind([refreshRequest[c] EXCEPT !.step = step], refreshSearched),
         ~refreshOverran /\ Refreshing([refreshRequest[c] EXCEPT !.step = step]) => Refresh!InRefresh(c),
         ~RefreshAboutToWriteBack([refreshRequest[c] EXCEPT !.step = step])
  PROVE  RefreshIInv'
<1> DEFINE r == [refreshRequest[c] EXCEPT !.step = step]
<1>1. refreshRequest[c] \in RefreshRequestType
  BY RefreshRequestFacts
<1>2. /\ r \in RefreshRequestType /\ r.own = refreshRequest[c].own /\ r.seen = refreshRequest[c].seen
      /\ r.answer = refreshRequest[c].answer /\ r.step = step
  BY <1>1 DEF RefreshRequestType
<1>3. refreshRequest' = [refreshRequest EXCEPT ![c] = r]
  BY DEF Refresh!Go, RefreshIInv, RefreshTypes
<1>4. IsFiniteSet(r.own) /\ IsFiniteSet(r.seen) /\ RefreshHonest(r.answer)
  BY <1>2, RefreshRequestFacts DEF RefreshHonest
<1> HIDE DEF r
<1> QED BY <1>2, <1>3, <1>4, RefreshClientOnlyMoves DEF r

LEMMA RefreshIdleTyped ==
  Refresh!Idle \in RefreshRequestType /\ IsFiniteSet(Refresh!Idle.own) /\ IsFiniteSet(Refresh!Idle.seen)
<1>1. [m \in {} |-> None] \in [{} -> {Refresh!Durable(stage) : stage \in Refresh!Stage}]
  OBVIOUS
<1>2. {} \in SUBSET RefreshMatch
  OBVIOUS
<1>3. [m \in {} |-> None] \in UNION {[S -> {Refresh!Durable(stage) : stage \in Refresh!Stage}] : S \in SUBSET RefreshMatch}
  BY <1>1, <1>2
<1>4. [state |-> None, list |-> {}] \in RefreshAnswerType
  BY DEF RefreshAnswerType, RefreshAnswerState
<1>5. Refresh!Idle \in RefreshRequestType
  BY <1>3, <1>4 DEF Refresh!Idle, RefreshRequestType, Refresh!Step
<1> QED BY <1>5, FS_EmptySet DEF Refresh!Idle

\* A request that is over, with an answer.
LEMMA RefreshFinishOnly ==
  ASSUME RefreshIInv, RefreshMaxFaults \in Nat, NEW c \in RefreshClient, NEW answer \in RefreshAnswerType, RefreshHonest(answer),
         Refresh!Finish(c, answer), UNCHANGED <<Refresh!keys, Refresh!world>>, Refresh!Works \/ Refresh!Fails
  PROVE  RefreshIInv'
<1> DEFINE r == [Refresh!Idle EXCEPT !.kind = refreshRequest[c].kind, !.step = "done", !.answer = answer]
<1>1. refreshRequest[c] \in RefreshRequestType /\ Refresh!Idle \in RefreshRequestType
  BY RefreshRequestFacts, RefreshIdleTyped
<1>2. /\ r \in RefreshRequestType /\ r.own = Refresh!Idle.own /\ r.seen = Refresh!Idle.seen
      /\ r.answer = answer /\ r.step = "done" /\ r.kind = refreshRequest[c].kind
  BY <1>1 DEF RefreshRequestType, Refresh!Step
<1>3. refreshRequest' = [refreshRequest EXCEPT ![c] = r]
  BY DEF Refresh!Finish
<1>4. RefreshFitsItsKind(r, refreshSearched)
  BY <1>2, RefreshRequestFacts DEF RefreshFitsItsKind, RefreshSteps
<1>5. IsFiniteSet(r.own) /\ IsFiniteSet(r.seen)
  BY <1>2, RefreshIdleTyped
<1> HIDE DEF r
<1> QED BY <1>2, <1>3, <1>4, <1>5, RefreshClientOnlyMoves DEF Refreshing, RefreshAboutToWriteBack

LEMMA RefreshRefusalTyped ==
  \A code \in {"REFRESH_COOLDOWN", "REFRESH_IN_PROGRESS", "ERROR"} :
    Refresh!Refusal(code) \in RefreshAnswerType /\ RefreshHonest(Refresh!Refusal(code))
BY DEF Refresh!Refusal, RefreshAnswerType, RefreshAnswerState, RefreshHonest

LEMMA RefreshAssertCooldownStep ==
  ASSUME RefreshIInv, RefreshMaxFaults \in Nat, NEW c \in RefreshClient, Refresh!AssertCooldown(c)
  PROVE  RefreshIInv'
<1>1. UNCHANGED <<Refresh!keys, Refresh!world>> /\ Refresh!At(c, "cooldown") /\ (Refresh!Works \/ Refresh!Fails)
      /\ (Refresh!Finish(c, Refresh!Refusal("REFRESH_COOLDOWN")) \/ Refresh!Go(c, "lock"))
  BY DEF Refresh!AssertCooldown
<1>2. CASE Refresh!Finish(c, Refresh!Refusal("REFRESH_COOLDOWN"))
  <2>1. Refresh!Refusal("REFRESH_COOLDOWN") \in RefreshAnswerType /\ RefreshHonest(Refresh!Refusal("REFRESH_COOLDOWN"))
    BY RefreshRefusalTyped
  <2> QED BY <1>1, <1>2, <2>1, RefreshFinishOnly
<1>3. CASE Refresh!Go(c, "lock")
  <2> DEFINE r == [refreshRequest[c] EXCEPT !.step = "lock"]
  <2>1. refreshRequest[c] \in RefreshRequestType /\ refreshRequest[c].kind = "refresh"
    BY <1>1, RefreshRequestFacts DEF Refresh!At, RefreshFitsItsKind, RefreshSteps
  <2>2. r.step = "lock" /\ r.kind = "refresh"
    BY <2>1 DEF RefreshRequestType
  <2>3. RefreshFitsItsKind(r, refreshSearched) /\ ~Refreshing(r) /\ ~RefreshAboutToWriteBack(r)
    BY <2>2 DEF RefreshFitsItsKind, RefreshSteps, Refreshing, RefreshAboutToWriteBack
  <2> QED BY <1>1, <1>3, <2>3, RefreshGoOnly DEF Refresh!Step
<1> QED BY <1>1, <1>2, <1>3

\* Steps of a request that keep its kind and stay in the refresh.
LEMMA RefreshGoOnFits ==
  ASSUME RefreshIInv, NEW c \in RefreshClient, NEW step \in Refresh!Step,
         step \in RefreshSteps => refreshRequest[c].kind = "refresh",
         step \in {"resolve", "sync", "enqueue", "discoveredRead", "discoveredWrite"} =>
           refreshRequest[c].kind \in {"refresh", "search"}
  PROVE  LET r == [refreshRequest[c] EXCEPT !.step = step] IN
         /\ r \in RefreshRequestType /\ RefreshFitsItsKind(r, refreshSearched)
         /\ r.step = step /\ r.kind = refreshRequest[c].kind /\ r.own = refreshRequest[c].own
         /\ r.seen = refreshRequest[c].seen /\ r.linked = refreshRequest[c].linked
         /\ r.answer = refreshRequest[c].answer
         /\ RefreshListOf(r) = RefreshListOf(refreshRequest[c])
         /\ Refreshing(r) <=> refreshRequest[c].kind = "refresh" /\ step \notin {"idle", "cooldown", "lock", "done"}
         /\ RefreshAboutToWriteBack(r) <=> step \in {"startedWrite", "completedWrite"}
<1>1. refreshRequest[c] \in RefreshRequestType
  BY RefreshRequestFacts
<1>2. LET r == [refreshRequest[c] EXCEPT !.step = step] IN
      /\ r \in RefreshRequestType
      /\ r.step = step /\ r.kind = refreshRequest[c].kind /\ r.own = refreshRequest[c].own
      /\ r.seen = refreshRequest[c].seen /\ r.linked = refreshRequest[c].linked
      /\ r.answer = refreshRequest[c].answer
  BY <1>1 DEF RefreshRequestType
<1>3. refreshRequest[c].kind = "search" => refreshSearched
  BY RefreshRequestFacts DEF RefreshFitsItsKind
<1> QED BY <1>2, <1>3 DEF RefreshFitsItsKind, RefreshListOf, Refreshing, RefreshAboutToWriteBack

\* A request that goes to another step and writes keys or rows.
LEMMA RefreshGoWrites ==
  ASSUME RefreshIInv, RefreshMaxFaults \in Nat, NEW c \in RefreshClient, NEW step \in Refresh!Step \ {"durable", "bull"},
         Refresh!Go(c, step), Refresh!Works \/ Refresh!Fails, UNCHANGED <<refreshOverran, refreshSearched, refreshRequests>>,
         refreshWork' \in [RefreshMatch -> Refresh!Stage], \A m \in RefreshMatch : refreshWork[m] = "linked" => refreshWork'[m] = "linked",
         refreshMeta' \in SUBSET RefreshMatch, IsFiniteSet(refreshMeta'), refreshRecorded' \in SUBSET RefreshMatch,
         refreshLock' \in RefreshClient \cup {None}, refreshProfile' \in {None} \cup RefreshAnswerType, refreshCooldown' \in BOOLEAN,
         step \in RefreshSteps => refreshRequest[c].kind = "refresh",
         step \in {"resolve", "sync", "enqueue", "discoveredRead", "discoveredWrite"} =>
           refreshRequest[c].kind \in {"refresh", "search"},
         refreshProfile' # None => RefreshHonest(refreshProfile'),
         ~refreshOverran => /\ refreshRequest[c].kind = "refresh" /\ step \notin {"idle", "cooldown", "lock", "done"}
                                 => refreshLock' = c
                            /\ \A d \in RefreshClient : d # c /\ Refresh!InRefresh(d) => refreshLock' = d,
         ~refreshOverran /\ ~refreshSearched /\ refreshRefreshFaults' = 0 =>
           /\ refreshMeta' = refreshRecorded' /\ ~(step \in {"startedWrite", "completedWrite"})
           /\ \A d \in RefreshClient : d # c /\ RefreshAboutToWriteBack(refreshRequest[d]) => refreshRequest[d].seen = refreshMeta'
  PROVE  RefreshIInv'
<1> DEFINE r == [refreshRequest[c] EXCEPT !.step = step]
<1>1. /\ r \in RefreshRequestType /\ RefreshFitsItsKind(r, refreshSearched)
      /\ r.step = step /\ r.kind = refreshRequest[c].kind /\ r.own = refreshRequest[c].own
      /\ r.seen = refreshRequest[c].seen /\ r.answer = refreshRequest[c].answer
      /\ Refreshing(r) <=> refreshRequest[c].kind = "refresh" /\ step \notin {"idle", "cooldown", "lock", "done"}
      /\ RefreshAboutToWriteBack(r) <=> step \in {"startedWrite", "completedWrite"}
  BY RefreshGoOnFits
<1>2. refreshRequest' = [refreshRequest EXCEPT ![c] = r]
  BY DEF Refresh!Go, RefreshIInv, RefreshTypes
<1>3. /\ refreshRefreshFaults' \in 0..RefreshMaxFaults /\ (refreshRefreshFaults' = 0 => refreshRefreshFaults = 0)
      /\ refreshSearched \in BOOLEAN /\ refreshOverran \in BOOLEAN /\ refreshRequests \in 0..RefreshMaxRequests
  BY RefreshFaultsGrow DEF RefreshIInv, RefreshTypes
<1>4. IsFiniteSet(r.own) /\ IsFiniteSet(r.seen)
  BY <1>1, RefreshRequestFacts
<1>5. refreshRequest[c].answer.list \subseteq RefreshMatch /\ RefreshHonest(refreshRequest[c].answer)
  BY RefreshRequestFacts DEF RefreshRequestType, RefreshAnswerType
<1>6. r.answer.state = "COMPLETE" =>
        r.answer.list # {} /\ \A m \in r.answer.list : refreshWork'[m] = "linked"
  BY <1>1, <1>5 DEF RefreshHonest
<1>7. refreshProfile' # None => RefreshHonest(refreshProfile)'
  <2>1. refreshProfile' # None => refreshProfile'.list \subseteq RefreshMatch
    BY DEF RefreshAnswerType
  <2> QED BY <2>1 DEF RefreshHonest
<1>8. refreshSearched' = refreshSearched /\ refreshOverran' = refreshOverran /\ refreshRequests' = refreshRequests
  OBVIOUS
<1> HIDE DEF r
<1>9. RefreshFitsItsKind(r, refreshSearched')
  BY <1>1, <1>8
<1>10. ~refreshOverran => /\ Refreshing(r) => refreshLock' = c
                          /\ \A d \in RefreshClient : d # c /\ Refresh!InRefresh(d) => refreshLock' = d
  BY <1>1
<1>11. ~refreshOverran /\ ~refreshSearched' /\ refreshRefreshFaults' = 0 =>
           /\ refreshMeta' = refreshRecorded'
           /\ RefreshAboutToWriteBack(r) => r.seen = refreshMeta'
           /\ \A d \in RefreshClient : d # c /\ RefreshAboutToWriteBack(refreshRequest[d]) => refreshRequest[d].seen = refreshMeta'
  BY <1>1, <1>8
<1>12. r.step \in {"durable", "bull"} => r.linked \subseteq {m \in RefreshListOf(r) : refreshWork'[m] = "linked"}
  BY <1>1
<1>13. /\ r \in RefreshRequestType /\ refreshOverran' = refreshOverran /\ refreshSearched' \in BOOLEAN /\ (refreshSearched => refreshSearched')
       /\ refreshRequests' \in 0..RefreshMaxRequests
  BY <1>1, <1>3, <1>8
<1> QED BY <1>2, <1>3, <1>4, <1>6, <1>7, <1>9, <1>10, <1>11, <1>12, <1>13, RefreshClientMoves

\* What the invariant says of the keys and the rows.
LEMMA RefreshWorldFacts ==
  ASSUME RefreshIInv
  PROVE  /\ refreshWork \in [RefreshMatch -> Refresh!Stage] /\ refreshMeta \in SUBSET RefreshMatch /\ refreshRecorded \in SUBSET RefreshMatch
         /\ refreshLock \in RefreshClient \cup {None} /\ refreshProfile \in {None} \cup RefreshAnswerType /\ refreshCooldown \in BOOLEAN
         /\ IsFiniteSet(refreshMeta) /\ (refreshProfile # None => RefreshHonest(refreshProfile))
         /\ ~refreshOverran => \A d \in RefreshClient : Refresh!InRefresh(d) => refreshLock = d
         /\ \A d \in RefreshClient : Refresh!InRefresh(d) <=> Refreshing(refreshRequest[d])
         /\ ~refreshOverran /\ ~refreshSearched /\ refreshRefreshFaults = 0 =>
              /\ refreshMeta = refreshRecorded
              /\ \A d \in RefreshClient : RefreshAboutToWriteBack(refreshRequest[d]) => refreshRequest[d].seen = refreshMeta
BY RefreshRequestFacts DEF RefreshIInv, RefreshTypes, RefreshListsAreFinite, RefreshAnswersAreHonest, RefreshHoldsLock, RefreshMetaIsRecorded,
                    RefreshAboutToWriteBack

LEMMA RefreshTryAcquireLockStep ==
  ASSUME RefreshIInv, RefreshMaxFaults \in Nat, None \notin RefreshClient, NEW c \in RefreshClient, Refresh!TryAcquireLock(c)
  PROVE  RefreshIInv'
<1>1. /\ Refresh!At(c, "lock") /\ (Refresh!Works \/ Refresh!Fails) /\ UNCHANGED <<refreshMeta, refreshCooldown, refreshProfile, Refresh!world>>
      /\ refreshRequest[c].kind = "refresh"
  BY RefreshRequestFacts DEF Refresh!TryAcquireLock, Refresh!At, RefreshFitsItsKind, RefreshSteps
<1>2. CASE refreshLock = None /\ refreshLock' = c /\ Refresh!Go(c, "startedRead")
  <2>1. /\ refreshWork' = refreshWork /\ refreshRecorded' = refreshRecorded
        /\ UNCHANGED <<refreshOverran, refreshSearched, refreshRequests>>
    BY <1>1 DEF Refresh!world
  <2>2. refreshMeta' = refreshMeta /\ refreshProfile' = refreshProfile /\ refreshCooldown' = refreshCooldown /\ refreshLock' = c
    BY <1>1, <1>2
  <2>3. "startedRead" \in Refresh!Step \ {"durable", "bull"}
    BY DEF Refresh!Step
  <2>4. refreshRefreshFaults' = 0 => refreshRefreshFaults = 0
    BY <1>1, RefreshFaultsGrow DEF RefreshIInv
  <2>5. ~refreshOverran => \A d \in RefreshClient : d # c /\ Refresh!InRefresh(d) => refreshLock' = d
    BY <1>2, RefreshWorldFacts
  <2>6. ~refreshOverran /\ ~refreshSearched /\ refreshRefreshFaults' = 0 =>
           /\ refreshMeta' = refreshRecorded'
           /\ \A d \in RefreshClient : d # c /\ RefreshAboutToWriteBack(refreshRequest[d]) => refreshRequest[d].seen = refreshMeta'
    BY <2>1, <2>2, <2>4, RefreshWorldFacts
  <2> QED BY <1>1, <1>2, <2>1, <2>2, <2>3, <2>5, <2>6, RefreshWorldFacts, RefreshGoWrites
<1>3. CASE UNCHANGED refreshLock /\ Refresh!Finish(c, Refresh!Refusal("REFRESH_IN_PROGRESS"))
  <2>1. Refresh!Refusal("REFRESH_IN_PROGRESS") \in RefreshAnswerType /\ RefreshHonest(Refresh!Refusal("REFRESH_IN_PROGRESS"))
    BY RefreshRefusalTyped
  <2>2. UNCHANGED <<Refresh!keys, Refresh!world>>
    BY <1>1, <1>3 DEF Refresh!keys
  <2> QED BY <1>1, <1>3, <2>1, <2>2, RefreshFinishOnly
<1> QED BY <1>2, <1>3 DEF Refresh!TryAcquireLock, Refresh!LockFree

LEMMA RefreshReleaseLockStep ==
  ASSUME RefreshIInv, RefreshMaxFaults \in Nat, NEW c \in RefreshClient, Refresh!ReleaseLock(c)
  PROVE  RefreshIInv'
<1>1. /\ Refresh!At(c, "release") /\ (Refresh!Works \/ Refresh!Fails) /\ UNCHANGED <<refreshMeta, refreshCooldown, refreshProfile, Refresh!world>>
      /\ refreshRequest[c].kind = "refresh" /\ Refresh!Go(c, "done") /\ refreshLock' \in {refreshLock, None}
  BY RefreshRequestFacts DEF Refresh!ReleaseLock, Refresh!At, RefreshFitsItsKind, RefreshSteps
<1>2. /\ refreshWork' = refreshWork /\ refreshRecorded' = refreshRecorded /\ UNCHANGED <<refreshOverran, refreshSearched, refreshRequests>>
      /\ refreshMeta' = refreshMeta /\ refreshProfile' = refreshProfile /\ refreshCooldown' = refreshCooldown
      /\ refreshLock' \in RefreshClient \cup {None}
  BY <1>1, RefreshWorldFacts DEF Refresh!world
<1>3. "done" \in Refresh!Step \ {"durable", "bull"} /\ "done" \notin RefreshSteps
  BY DEF Refresh!Step, RefreshSteps
<1>4. refreshRefreshFaults' = 0 => refreshRefreshFaults = 0
  BY <1>1, RefreshFaultsGrow DEF RefreshIInv
<1>5. ~refreshOverran => \A d \in RefreshClient : d # c /\ Refresh!InRefresh(d) => refreshLock' = d
  <2>1. Refreshing(refreshRequest[c])
    BY <1>1 DEF Refreshing, Refresh!At
  <2>2. ~refreshOverran => refreshLock = c
    BY <2>1, RefreshWorldFacts
  <2> QED BY <2>2, RefreshWorldFacts
<1>6. ~refreshOverran /\ ~refreshSearched /\ refreshRefreshFaults' = 0 =>
           /\ refreshMeta' = refreshRecorded'
           /\ \A d \in RefreshClient : d # c /\ RefreshAboutToWriteBack(refreshRequest[d]) => refreshRequest[d].seen = refreshMeta'
  BY <1>2, <1>4, RefreshWorldFacts
<1> QED BY <1>1, <1>2, <1>3, <1>5, <1>6, RefreshWorldFacts, RefreshGoWrites

LEMMA RefreshSetCooldownStep ==
  ASSUME RefreshIInv, RefreshMaxFaults \in Nat, NEW c \in RefreshClient, Refresh!SetCooldown(c)
  PROVE  RefreshIInv'
<1>1. /\ Refresh!At(c, "setCooldown") /\ (Refresh!Works \/ Refresh!Fails) /\ UNCHANGED <<refreshMeta, refreshLock, refreshProfile, Refresh!world>>
      /\ refreshRequest[c].kind = "refresh" /\ Refresh!Go(c, "release") /\ refreshCooldown' \in {refreshCooldown, TRUE}
  BY RefreshRequestFacts DEF Refresh!SetCooldown, Refresh!At, RefreshFitsItsKind, RefreshSteps
<1>2. /\ refreshWork' = refreshWork /\ refreshRecorded' = refreshRecorded /\ UNCHANGED <<refreshOverran, refreshSearched, refreshRequests>>
      /\ refreshMeta' = refreshMeta /\ refreshProfile' = refreshProfile /\ refreshLock' = refreshLock /\ refreshCooldown' \in BOOLEAN
  BY <1>1, RefreshWorldFacts DEF Refresh!world
<1>3. "release" \in Refresh!Step \ {"durable", "bull"}
  BY DEF Refresh!Step
<1>4. refreshRefreshFaults' = 0 => refreshRefreshFaults = 0
  BY <1>1, RefreshFaultsGrow DEF RefreshIInv
<1>5. ~refreshOverran => refreshLock' = c /\ \A d \in RefreshClient : d # c /\ Refresh!InRefresh(d) => refreshLock' = d
  <2>1. Refreshing(refreshRequest[c])
    BY <1>1 DEF Refreshing, Refresh!At
  <2> QED BY <1>2, <2>1, RefreshWorldFacts
<1>6. ~refreshOverran /\ ~refreshSearched /\ refreshRefreshFaults' = 0 =>
           /\ refreshMeta' = refreshRecorded'
           /\ \A d \in RefreshClient : d # c /\ RefreshAboutToWriteBack(refreshRequest[d]) => refreshRequest[d].seen = refreshMeta'
  BY <1>2, <1>4, RefreshWorldFacts
<1> QED BY <1>1, <1>2, <1>3, <1>5, <1>6, RefreshWorldFacts, RefreshGoWrites

-----------------------------------------------------------------------------
(* The meta value.                                                         *)

LEMMA RefreshReadMetaStep ==
  ASSUME RefreshIInv, RefreshMaxFaults \in Nat, NEW c \in RefreshClient,
         NEW from \in Refresh!Step \ {"idle", "cooldown", "lock", "done"},
         NEW to \in Refresh!Step \ {"durable", "bull"}, Refresh!ReadMeta(c, from, to),
         to \in RefreshSteps => refreshRequest[c].kind = "refresh",
         to \in {"resolve", "sync", "enqueue", "discoveredRead", "discoveredWrite"} =>
           refreshRequest[c].kind \in {"refresh", "search"}
  PROVE  RefreshIInv'
<1> DEFINE r(seen) == [refreshRequest[c] EXCEPT !.step = to, !.seen = seen]
<1>1. UNCHANGED <<Refresh!keys, Refresh!world>> /\ refreshRequest[c].step = from /\ refreshRequest[c] \in RefreshRequestType
  BY RefreshRequestFacts DEF Refresh!ReadMeta, Refresh!At
<1>2. PICK seen \in {refreshMeta, {}} : /\ refreshRequest' = [refreshRequest EXCEPT ![c] = r(seen)]
                                        /\ (Refresh!Works /\ seen = refreshMeta) \/ Refresh!Fails
  <2>1. CASE Refresh!Works /\ refreshRequest' = [refreshRequest EXCEPT ![c].step = to, ![c].seen = refreshMeta]
    <3>1. refreshRequest' = [refreshRequest EXCEPT ![c] = r(refreshMeta)]
      BY <1>1, <2>1 DEF RefreshIInv, RefreshTypes
    <3> QED BY <2>1, <3>1
  <2>2. CASE Refresh!Fails /\ refreshRequest' = [refreshRequest EXCEPT ![c].step = to, ![c].seen = {}]
    <3>1. refreshRequest' = [refreshRequest EXCEPT ![c] = r({})]
      BY <1>1, <2>2 DEF RefreshIInv, RefreshTypes
    <3> QED BY <2>2, <3>1
  <2> QED BY <2>1, <2>2 DEF Refresh!ReadMeta
<1>3. seen \in SUBSET RefreshMatch /\ IsFiniteSet(seen)
  BY RefreshWorldFacts, FS_EmptySet
<1>4. /\ r(seen) \in RefreshRequestType /\ r(seen).step = to /\ r(seen).kind = refreshRequest[c].kind
      /\ r(seen).own = refreshRequest[c].own /\ r(seen).seen = seen /\ r(seen).answer = refreshRequest[c].answer
  BY <1>1, <1>3 DEF RefreshRequestType
<1>5. RefreshFitsItsKind(r(seen), refreshSearched)
  BY <1>4, RefreshRequestFacts DEF RefreshFitsItsKind
<1>6. Refresh!Fails => refreshRefreshFaults' # 0
  BY RefreshFaultsGrow DEF Refresh!Fails, RefreshIInv, RefreshTypes
<1>7. ~refreshOverran /\ Refreshing(r(seen)) => Refresh!InRefresh(c)
  BY <1>1, <1>4 DEF Refreshing, Refresh!InRefresh
<1>8. IsFiniteSet(r(seen).own) /\ IsFiniteSet(r(seen).seen) /\ RefreshHonest(r(seen).answer)
  BY <1>3, <1>4, RefreshRequestFacts
<1>9. ~refreshOverran /\ ~refreshSearched /\ refreshRefreshFaults' = 0 /\ RefreshAboutToWriteBack(r(seen)) => r(seen).seen = refreshMeta
  BY <1>2, <1>4, <1>6
<1>10. r(seen).step \in {"durable", "bull"} =>
         r(seen).linked \subseteq {m \in RefreshListOf(r(seen)) : refreshWork[m] = "linked"}
  BY <1>4
<1> HIDE DEF r
<1> QED BY <1>1, <1>2, <1>4, <1>5, <1>7, <1>8, <1>9, <1>10, RefreshClientOnlyMoves

LEMMA RefreshWriteMetaStep ==
  ASSUME RefreshIInv, RefreshMaxFaults \in Nat, NEW c \in RefreshClient,
         \/ Refresh!WriteMeta(c, "startedWrite", "resolve")
         \/ Refresh!WriteMeta(c, "completedWrite", "setCooldown")
  PROVE  RefreshIInv'
<1>1. PICK to \in {"resolve", "setCooldown"} :
        /\ Refresh!Go(c, to) /\ refreshRequest[c].step \in {"startedWrite", "completedWrite"}
        /\ \/ Refresh!Works /\ refreshMeta' = refreshRequest[c].seen
           \/ Refresh!Fails /\ UNCHANGED refreshMeta
        /\ UNCHANGED <<refreshLock, refreshCooldown, refreshProfile, Refresh!world>>
  BY DEF Refresh!WriteMeta, Refresh!At
<1>2. refreshRequest[c].kind = "refresh" /\ refreshRequest[c] \in RefreshRequestType /\ IsFiniteSet(refreshRequest[c].seen)
  BY <1>1, RefreshRequestFacts DEF RefreshFitsItsKind, RefreshSteps
<1>3. /\ refreshWork' = refreshWork /\ refreshRecorded' = refreshRecorded /\ UNCHANGED <<refreshOverran, refreshSearched, refreshRequests>>
      /\ refreshProfile' = refreshProfile /\ refreshLock' = refreshLock /\ refreshCooldown' = refreshCooldown
  BY <1>1 DEF Refresh!world
<1>4. to \in Refresh!Step \ {"durable", "bull"}
  BY DEF Refresh!Step
<1>5. refreshRefreshFaults' = 0 => refreshRefreshFaults = 0
  BY <1>1, RefreshFaultsGrow DEF RefreshIInv
<1>6. Refreshing(refreshRequest[c]) /\ RefreshAboutToWriteBack(refreshRequest[c])
  BY <1>1, <1>2 DEF Refreshing, RefreshAboutToWriteBack
<1>7. ~refreshOverran => refreshLock' = c /\ \A d \in RefreshClient : d # c /\ Refresh!InRefresh(d) => refreshLock' = d
  BY <1>3, <1>6, RefreshWorldFacts
<1>8. ~refreshOverran /\ ~refreshSearched /\ refreshRefreshFaults' = 0 => refreshMeta' = refreshMeta
  BY <1>1, <1>5, <1>6, RefreshWorldFacts
<1>9. ~refreshOverran /\ ~refreshSearched /\ refreshRefreshFaults' = 0 =>
           /\ refreshMeta' = refreshRecorded'
           /\ \A d \in RefreshClient : d # c /\ RefreshAboutToWriteBack(refreshRequest[d]) => refreshRequest[d].seen = refreshMeta'
  BY <1>3, <1>5, <1>8, RefreshWorldFacts
<1>10. refreshMeta' \in SUBSET RefreshMatch /\ IsFiniteSet(refreshMeta')
  BY <1>1, <1>2, RefreshWorldFacts DEF RefreshRequestType
<1> QED BY <1>1, <1>2, <1>3, <1>4, <1>7, <1>9, <1>10, RefreshWorldFacts, RefreshGoWrites

\* A list is recorded while nobody else is between reading and writing back.
LEMMA RefreshWriteDiscoveredStep ==
  ASSUME RefreshIInv, RefreshMaxFaults \in Nat, NEW c \in RefreshClient, Refresh!WriteDiscovered(c)
  PROVE  RefreshIInv'
<1>1. /\ Refresh!Go(c, "meta") /\ refreshRequest[c].step = "discoveredWrite"
      /\ \/ Refresh!Works /\ refreshMeta' = refreshRequest[c].own /\ refreshRecorded' = refreshRequest[c].own
         \/ Refresh!Fails /\ UNCHANGED <<refreshMeta, refreshRecorded>>
      /\ UNCHANGED <<refreshLock, refreshCooldown, refreshProfile, refreshWork, refreshOverran, refreshSearched, refreshRequests>>
  BY DEF Refresh!WriteDiscovered, Refresh!At
<1>2. /\ refreshRequest[c].kind \in {"refresh", "search"} /\ refreshRequest[c] \in RefreshRequestType
      /\ IsFiniteSet(refreshRequest[c].own) /\ (refreshRequest[c].kind = "search" => refreshSearched)
  BY <1>1, RefreshRequestFacts DEF RefreshFitsItsKind
<1>3. "meta" \in Refresh!Step \ {"durable", "bull"} /\ "meta" \notin RefreshSteps
  BY DEF Refresh!Step, RefreshSteps
<1>4. refreshRefreshFaults' = 0 => refreshRefreshFaults = 0 /\ ~Refresh!Fails
  BY <1>1, RefreshFaultsGrow DEF RefreshIInv, Refresh!Fails, RefreshTypes
<1>5. ~refreshOverran => /\ refreshRequest[c].kind = "refresh" => refreshLock' = c
                         /\ \A d \in RefreshClient : d # c /\ Refresh!InRefresh(d) => refreshLock' = d
  BY <1>1, RefreshWorldFacts DEF Refreshing
<1>6. ~refreshOverran /\ ~refreshSearched => \A d \in RefreshClient : d # c => ~RefreshAboutToWriteBack(refreshRequest[d])
  <2> SUFFICES ASSUME ~refreshOverran, ~refreshSearched, NEW d \in RefreshClient, d # c, RefreshAboutToWriteBack(refreshRequest[d])
               PROVE  FALSE
    OBVIOUS
  <2>1. Refreshing(refreshRequest[d])
    BY RefreshRequestFacts DEF RefreshAboutToWriteBack, RefreshFitsItsKind, RefreshSteps, Refreshing
  <2>2. Refreshing(refreshRequest[c])
    BY <1>1, <1>2 DEF Refreshing
  <2> QED BY <2>1, <2>2, RefreshWorldFacts
<1>7. ~refreshOverran /\ ~refreshSearched /\ refreshRefreshFaults' = 0 =>
           /\ refreshMeta' = refreshRecorded'
           /\ \A d \in RefreshClient : d # c /\ RefreshAboutToWriteBack(refreshRequest[d]) => refreshRequest[d].seen = refreshMeta'
  BY <1>1, <1>4, <1>6
<1>8. refreshMeta' \in SUBSET RefreshMatch /\ IsFiniteSet(refreshMeta') /\ refreshRecorded' \in SUBSET RefreshMatch
  BY <1>1, <1>2, RefreshWorldFacts DEF RefreshRequestType
<1> QED BY <1>1, <1>2, <1>3, <1>5, <1>7, <1>8, RefreshWorldFacts, RefreshGoWrites

LEMMA RefreshMetaSteps ==
  ASSUME RefreshIInv, RefreshMaxFaults \in Nat, NEW c \in RefreshClient,
         \/ Refresh!RecordRefreshStarted(c) \/ Refresh!RecordRefreshCompleted(c)
         \/ Refresh!RecordDiscoveredMatches(c) \/ Refresh!ReadDiscovered(c)
  PROVE  RefreshIInv'
<1>1. CASE Refresh!ReadMeta(c, "startedRead", "startedWrite") \/ Refresh!ReadMeta(c, "completedRead", "completedWrite")
  <2>1. refreshRequest[c].kind = "refresh"
    BY <1>1, RefreshRequestFacts DEF Refresh!ReadMeta, Refresh!At, RefreshFitsItsKind, RefreshSteps
  <2> QED BY <1>1, <2>1, RefreshReadMetaStep DEF Refresh!Step
<1>2. CASE Refresh!ReadMeta(c, "discoveredRead", "discoveredWrite")
  <2>1. refreshRequest[c].kind \in {"refresh", "search"} /\ "discoveredWrite" \notin RefreshSteps
    BY <1>2, RefreshRequestFacts DEF Refresh!ReadMeta, Refresh!At, RefreshFitsItsKind, RefreshSteps
  <2> QED BY <1>2, <2>1, RefreshReadMetaStep DEF Refresh!Step
<1>3. CASE Refresh!ReadMeta(c, "meta", "linked")
  <2>1. "linked" \notin RefreshSteps
    BY DEF RefreshSteps
  <2> QED BY <1>3, <2>1, RefreshReadMetaStep DEF Refresh!Step
<1>4. CASE Refresh!WriteMeta(c, "startedWrite", "resolve") \/ Refresh!WriteMeta(c, "completedWrite", "setCooldown")
  BY <1>4, RefreshWriteMetaStep
<1>5. CASE Refresh!WriteDiscovered(c)
  BY <1>5, RefreshWriteDiscoveredStep
<1> QED BY <1>1, <1>2, <1>3, <1>4, <1>5
     DEF Refresh!RecordRefreshStarted, Refresh!RecordRefreshCompleted, Refresh!RecordDiscoveredMatches, Refresh!ReadDiscovered

-----------------------------------------------------------------------------
(* Account, list and links.                                                *)

LEMMA RefreshResolveStep ==
  ASSUME RefreshIInv, RefreshMaxFaults \in Nat, NEW c \in RefreshClient, Refresh!Resolve(c)
  PROVE  RefreshIInv'
<1>1. /\ refreshRequest[c].step = "resolve" /\ UNCHANGED <<Refresh!keys, Refresh!world>> /\ refreshRequest[c] \in RefreshRequestType
      /\ refreshRequest[c].kind \in {"refresh", "search"} /\ refreshRequest \in [RefreshClient -> RefreshRequestType]
  BY RefreshRequestFacts DEF Refresh!Resolve, Refresh!At, RefreshFitsItsKind, RefreshIInv, RefreshTypes
<1>2. CASE Refresh!Works /\ Refresh!Go(c, "sync")
  <2> DEFINE r == [refreshRequest[c] EXCEPT !.step = "sync"]
  <2>0. r.step = "sync" /\ r.kind = refreshRequest[c].kind
    BY <1>1 DEF RefreshRequestType
  <2>1. /\ RefreshFitsItsKind(r, refreshSearched) /\ ~RefreshAboutToWriteBack(r)
        /\ Refreshing(r) => refreshRequest[c].kind = "refresh"
    BY <1>1, <2>0, RefreshRequestFacts DEF RefreshFitsItsKind, RefreshSteps, RefreshAboutToWriteBack, Refreshing
  <2>2. refreshRequest[c].kind = "refresh" => Refresh!InRefresh(c)
    BY <1>1 DEF Refresh!InRefresh
  <2> QED BY <1>1, <1>2, <2>1, <2>2, RefreshGoOnly DEF Refresh!Step
<1>3. CASE Refresh!Fails /\ refreshRequest[c].kind = "refresh"
           /\ refreshRequest' = [refreshRequest EXCEPT ![c].step = "release", ![c].answer = Refresh!Refusal("ERROR")]
  <2> DEFINE r == [refreshRequest[c] EXCEPT !.step = "release", !.answer = Refresh!Refusal("ERROR")]
  <2>1. Refresh!Refusal("ERROR") \in RefreshAnswerType /\ RefreshHonest(Refresh!Refusal("ERROR"))
    BY RefreshRefusalTyped
  <2>2. refreshRequest' = [refreshRequest EXCEPT ![c] = r]
    BY <1>1, <1>3
  <2>3. /\ r \in RefreshRequestType /\ r.step = "release" /\ r.kind = "refresh" /\ r.own = refreshRequest[c].own
        /\ r.seen = refreshRequest[c].seen /\ r.answer = Refresh!Refusal("ERROR")
    BY <1>1, <1>3, <2>1 DEF RefreshRequestType, Refresh!Step
  <2>4. RefreshFitsItsKind(r, refreshSearched) /\ Refresh!InRefresh(c) /\ ~RefreshAboutToWriteBack(r)
    BY <1>1, <1>3, <2>3 DEF RefreshFitsItsKind, Refresh!InRefresh, RefreshAboutToWriteBack
  <2>5. IsFiniteSet(r.own) /\ IsFiniteSet(r.seen) /\ RefreshHonest(r.answer)
    BY <2>1, <2>3, RefreshRequestFacts
  <2> HIDE DEF r
  <2> QED BY <1>1, <1>3, <2>2, <2>3, <2>4, <2>5, RefreshClientOnlyMoves
<1>4. CASE Refresh!Fails /\ Refresh!Finish(c, Refresh!Refusal("ERROR"))
  BY <1>1, <1>4, RefreshRefusalTyped, RefreshFinishOnly
<1> QED BY <1>2, <1>3, <1>4 DEF Refresh!Resolve

LEMMA RefreshSyncPlayerDataStep ==
  ASSUME RefreshIInv, Refresh!ConstantsAssumption, NEW c \in RefreshClient, Refresh!SyncPlayerData(c)
  PROVE  RefreshIInv'
<1>1. /\ refreshRequest[c].step = "sync" /\ UNCHANGED <<Refresh!keys, Refresh!world>> /\ refreshRequest[c] \in RefreshRequestType
      /\ refreshRequest[c].kind \in {"refresh", "search"} /\ refreshRequest \in [RefreshClient -> RefreshRequestType]
      /\ (refreshRequest[c].kind = "search" => refreshSearched) /\ (Refresh!Works \/ Refresh!Fails) /\ RefreshMaxFaults \in Nat
  BY RefreshRequestFacts DEF Refresh!SyncPlayerData, Refresh!At, RefreshFitsItsKind, RefreshIInv, RefreshTypes, Refresh!ConstantsAssumption
<1> SUFFICES ASSUME NEW r \in RefreshRequestType, refreshRequest' = [refreshRequest EXCEPT ![c] = r],
                    r.step = "enqueue", r.kind = refreshRequest[c].kind, IsFiniteSet(r.own),
                    r.seen = refreshRequest[c].seen, r.answer = refreshRequest[c].answer
             PROVE  RefreshIInv'
  <2>1. CASE \E list \in RefreshDiscoveries :
               refreshRequest' = [refreshRequest EXCEPT ![c].step = "enqueue", ![c].own = list]
    <3>1. PICK list \in RefreshDiscoveries :
            refreshRequest' = [refreshRequest EXCEPT ![c].step = "enqueue", ![c].own = list]
      BY <2>1
    <3> DEFINE r == [refreshRequest[c] EXCEPT !.step = "enqueue", !.own = list]
    <3>2. list \in SUBSET RefreshMatch /\ IsFiniteSet(list)
      BY RefreshSameFiniteSets DEF Refresh!ConstantsAssumption
    <3>3. /\ r \in RefreshRequestType /\ r.step = "enqueue" /\ r.kind = refreshRequest[c].kind /\ r.own = list
          /\ r.seen = refreshRequest[c].seen /\ r.answer = refreshRequest[c].answer
      BY <1>1, <3>2 DEF RefreshRequestType, Refresh!Step
    <3>4. refreshRequest' = [refreshRequest EXCEPT ![c] = r]
      BY <1>1, <3>1
    <3> HIDE DEF r
    <3> QED BY <3>2, <3>3, <3>4
  <2>2. CASE \E limited \in BOOLEAN :
               refreshRequest' = [refreshRequest EXCEPT ![c].step = "enqueue", ![c].limited = limited]
    <3>1. PICK limited \in BOOLEAN :
            refreshRequest' = [refreshRequest EXCEPT ![c].step = "enqueue", ![c].limited = limited]
      BY <2>2
    <3> DEFINE r == [refreshRequest[c] EXCEPT !.step = "enqueue", !.limited = limited]
    <3>2. /\ r \in RefreshRequestType /\ r.step = "enqueue" /\ r.kind = refreshRequest[c].kind
          /\ r.own = refreshRequest[c].own /\ r.seen = refreshRequest[c].seen /\ r.answer = refreshRequest[c].answer
      BY <1>1 DEF RefreshRequestType, Refresh!Step
    <3>3. refreshRequest' = [refreshRequest EXCEPT ![c] = r] /\ IsFiniteSet(refreshRequest[c].own)
      BY <1>1, <3>1, RefreshRequestFacts
    <3> HIDE DEF r
    <3> QED BY <3>2, <3>3
  <2> QED BY <2>1, <2>2 DEF Refresh!SyncPlayerData
<1>2. /\ RefreshFitsItsKind(r, refreshSearched) /\ ~RefreshAboutToWriteBack(r)
      /\ Refreshing(r) => Refresh!InRefresh(c)
  BY <1>1 DEF RefreshFitsItsKind, RefreshSteps, RefreshAboutToWriteBack, Refreshing, Refresh!InRefresh
<1>3. IsFiniteSet(r.own) /\ IsFiniteSet(r.seen) /\ RefreshHonest(r.answer)
  BY RefreshRequestFacts
<1> QED BY <1>1, <1>2, <1>3, RefreshClientOnlyMoves

\* Links that were repaired make the cached profile go, and break no link.
LEMMA RefreshEnqueueDiscoveredStep ==
  ASSUME RefreshIInv, RefreshMaxFaults \in Nat, NEW c \in RefreshClient, Refresh!EnqueueDiscovered(c)
  PROVE  RefreshIInv'
<1>1. /\ refreshRequest[c].step = "enqueue" /\ refreshRequest[c] \in RefreshRequestType /\ Refresh!Go(c, "discoveredRead")
      /\ refreshRequest[c].kind \in {"refresh", "search"}
      /\ UNCHANGED <<refreshMeta, refreshLock, refreshCooldown, refreshRecorded, refreshOverran, refreshSearched, refreshRequests>>
  BY RefreshRequestFacts DEF Refresh!EnqueueDiscovered, Refresh!At, RefreshFitsItsKind
<1>2. refreshProfile' \in {refreshProfile, None} /\ (Refresh!Works \/ Refresh!Fails)
  BY DEF Refresh!EnqueueDiscovered
<1>3. PICK repaired \in SUBSET {m \in RefreshMatch : refreshWork[m] = "unlinked"},
           publish \in SUBSET {m \in RefreshMatch : refreshWork[m] \in {"unknown", "pending", "failed"}},
           published \in BOOLEAN :
        refreshWork' = [m \in RefreshMatch |-> CASE m \in repaired -> "linked"
                                   [] m \in publish /\ published -> "waiting"
                                   [] m \in publish /\ refreshWork[m] = "unknown" -> "pending"
                                   [] OTHER -> refreshWork[m]]
  <2> DEFINE own == refreshRequest[c].own
             repaired == IF own = {} THEN {} ELSE {m \in RefreshMatch : refreshWork[m] = "unlinked"}
             publish == {m \in own : refreshWork[m] \in {"unknown", "pending", "failed"}}
  <2>1. PICK published \in BOOLEAN :
          refreshWork' = [m \in RefreshMatch |-> CASE m \in repaired -> "linked"
                                     [] m \in publish /\ published -> "waiting"
                                     [] m \in publish /\ refreshWork[m] = "unknown" -> "pending"
                                     [] OTHER -> refreshWork[m]]
    BY DEF Refresh!EnqueueDiscovered
  <2>2. /\ repaired \in SUBSET {m \in RefreshMatch : refreshWork[m] = "unlinked"}
        /\ publish \in SUBSET {m \in RefreshMatch : refreshWork[m] \in {"unknown", "pending", "failed"}}
    BY <1>1 DEF RefreshRequestType
  <2> HIDE DEF repaired, publish
  <2> QED BY <2>1, <2>2
<1>4. \A m \in RefreshMatch : /\ refreshWork'[m] \in Refresh!Stage
                              /\ refreshWork[m] = "linked" => refreshWork'[m] = "linked"
  <2> SUFFICES ASSUME NEW m \in RefreshMatch
               PROVE  refreshWork'[m] \in Refresh!Stage /\ (refreshWork[m] = "linked" => refreshWork'[m] = "linked")
    OBVIOUS
  <2>1. refreshWork[m] \in Refresh!Stage
    BY RefreshWorldFacts
  <2>2. CASE m \in repaired
    BY <1>3, <2>2 DEF Refresh!Stage
  <2>3. CASE m \notin repaired /\ m \in publish
    BY <1>3, <2>1, <2>3 DEF Refresh!Stage
  <2>4. CASE m \notin repaired /\ m \notin publish
    BY <1>3, <2>1, <2>4 DEF Refresh!Stage
  <2> QED BY <2>2, <2>3, <2>4
<1>5. refreshWork' \in [RefreshMatch -> Refresh!Stage]
  BY <1>3, <1>4
<1>6. refreshRefreshFaults' = 0 => refreshRefreshFaults = 0
  BY <1>2, RefreshFaultsGrow DEF RefreshIInv
<1>7. "discoveredRead" \in Refresh!Step \ {"durable", "bull"} /\ "discoveredRead" \notin RefreshSteps
  BY DEF Refresh!Step, RefreshSteps
<1>8. refreshProfile' # None => refreshProfile' = refreshProfile /\ RefreshHonest(refreshProfile)
  BY <1>2, RefreshWorldFacts
<1>9. ~refreshOverran => /\ refreshRequest[c].kind = "refresh" => refreshLock' = c
                         /\ \A d \in RefreshClient : d # c /\ Refresh!InRefresh(d) => refreshLock' = d
  BY <1>1, RefreshWorldFacts DEF Refreshing
<1>10. ~refreshOverran /\ ~refreshSearched /\ refreshRefreshFaults' = 0 =>
           /\ refreshMeta' = refreshRecorded'
           /\ \A d \in RefreshClient : d # c /\ RefreshAboutToWriteBack(refreshRequest[d]) => refreshRequest[d].seen = refreshMeta'
  BY <1>1, <1>6, RefreshWorldFacts
<1>11. /\ refreshMeta' \in SUBSET RefreshMatch /\ IsFiniteSet(refreshMeta') /\ refreshRecorded' \in SUBSET RefreshMatch
       /\ refreshLock' \in RefreshClient \cup {None} /\ refreshProfile' \in {None} \cup RefreshAnswerType /\ refreshCooldown' \in BOOLEAN
       /\ (refreshProfile' # None => RefreshHonest(refreshProfile'))
  BY <1>1, <1>2, <1>8, RefreshWorldFacts
<1>12. UNCHANGED <<refreshOverran, refreshSearched, refreshRequests>>
  BY <1>1
<1> QED BY <1>1, <1>2, <1>4, <1>5, <1>7, <1>9, <1>10, <1>11, <1>12, RefreshGoWrites

-----------------------------------------------------------------------------
(* The status that is computed.                                            *)

LEMMA RefreshReadLinkedStep ==
  ASSUME RefreshIInv, RefreshMaxFaults \in Nat, NEW c \in RefreshClient, Refresh!ReadLinked(c)
  PROVE  RefreshIInv'
<1> DEFINE found == {m \in Refresh!List(c) : Refresh!LinkedNow(m)}
           r == [refreshRequest[c] EXCEPT !.step = "durable", !.linked = found]
<1>1. /\ refreshRequest[c].step = "linked" /\ UNCHANGED <<Refresh!keys, Refresh!world>> /\ Refresh!Works
      /\ refreshRequest[c] \in RefreshRequestType /\ refreshRequest \in [RefreshClient -> RefreshRequestType]
      /\ refreshRequest' = [refreshRequest EXCEPT ![c].step = "durable", ![c].linked = found]
  BY RefreshRequestFacts DEF Refresh!ReadLinked, Refresh!At, RefreshIInv, RefreshTypes
<1>2. found \in SUBSET RefreshMatch /\ found = {m \in RefreshListOf(refreshRequest[c]) : refreshWork[m] = "linked"}
  BY <1>1, RefreshRequestFacts DEF RefreshListOf, RefreshRequestType, Refresh!LinkedNow
<1>3. refreshRequest' = [refreshRequest EXCEPT ![c] = r]
  BY <1>1
<1>4. /\ r \in RefreshRequestType /\ r.step = "durable" /\ r.kind = refreshRequest[c].kind /\ r.linked = found
      /\ r.own = refreshRequest[c].own /\ r.seen = refreshRequest[c].seen /\ r.answer = refreshRequest[c].answer
  BY <1>1, <1>2 DEF RefreshRequestType, Refresh!Step
<1>5. r.linked \subseteq {m \in RefreshListOf(r) : refreshWork[m] = "linked"}
  BY <1>2, <1>4 DEF RefreshListOf
<1>6. /\ RefreshFitsItsKind(r, refreshSearched) /\ ~RefreshAboutToWriteBack(r) /\ (Refreshing(r) => Refresh!InRefresh(c))
  BY <1>1, <1>4, RefreshRequestFacts DEF RefreshFitsItsKind, RefreshSteps, RefreshAboutToWriteBack, Refreshing, Refresh!InRefresh
<1>7. IsFiniteSet(r.own) /\ IsFiniteSet(r.seen) /\ RefreshHonest(r.answer)
  BY <1>4, RefreshRequestFacts
<1> HIDE DEF r, found
<1> QED BY <1>1, <1>3, <1>4, <1>5, <1>6, <1>7, RefreshClientOnlyMoves

LEMMA RefreshReadDurableStep ==
  ASSUME RefreshIInv, RefreshMaxFaults \in Nat, NEW c \in RefreshClient, Refresh!ReadDurable(c)
  PROVE  RefreshIInv'
<1> DEFINE read == [m \in Refresh!List(c) \ refreshRequest[c].linked |-> Refresh!Durable(refreshWork[m])]
           r == [refreshRequest[c] EXCEPT !.step = "bull", !.durable = read]
<1>1. /\ refreshRequest[c].step = "durable" /\ UNCHANGED <<Refresh!keys, Refresh!world>> /\ Refresh!Works
      /\ refreshRequest[c] \in RefreshRequestType /\ refreshRequest \in [RefreshClient -> RefreshRequestType]
      /\ refreshRequest' = [refreshRequest EXCEPT ![c].step = "bull", ![c].durable = read]
  BY RefreshRequestFacts DEF Refresh!ReadDurable, Refresh!At, RefreshIInv, RefreshTypes
<1>2. Refresh!List(c) \subseteq RefreshMatch /\ refreshWork \in [RefreshMatch -> Refresh!Stage]
  BY <1>1, RefreshWorldFacts DEF Refresh!List, RefreshRequestType
<1>3. read \in [Refresh!List(c) \ refreshRequest[c].linked -> {Refresh!Durable(stage) : stage \in Refresh!Stage}]
  BY <1>2
<1>4. read \in UNION {[S -> {Refresh!Durable(stage) : stage \in Refresh!Stage}] : S \in SUBSET RefreshMatch}
  BY <1>2, <1>3
<1>5. refreshRequest' = [refreshRequest EXCEPT ![c] = r]
  BY <1>1
<1> HIDE DEF read
<1>6. /\ r \in RefreshRequestType /\ r.step = "bull" /\ r.kind = refreshRequest[c].kind /\ r.linked = refreshRequest[c].linked
      /\ r.own = refreshRequest[c].own /\ r.seen = refreshRequest[c].seen /\ r.answer = refreshRequest[c].answer
  BY <1>1, <1>4 DEF RefreshRequestType, Refresh!Step
<1>7. r.linked \subseteq {m \in RefreshListOf(r) : refreshWork[m] = "linked"}
  BY <1>1, <1>6, RefreshRequestFacts DEF RefreshListOf
<1>8. /\ RefreshFitsItsKind(r, refreshSearched) /\ ~RefreshAboutToWriteBack(r) /\ (Refreshing(r) => Refresh!InRefresh(c))
  BY <1>1, <1>6, RefreshRequestFacts DEF RefreshFitsItsKind, RefreshSteps, RefreshAboutToWriteBack, Refreshing, Refresh!InRefresh
<1>9. IsFiniteSet(r.own) /\ IsFiniteSet(r.seen) /\ RefreshHonest(r.answer)
  BY <1>6, RefreshRequestFacts
<1> HIDE DEF r
<1> QED BY <1>1, <1>5, <1>6, <1>7, <1>8, <1>9, RefreshClientOnlyMoves

\* COMPLETE is said of a list that is not empty and was found linked, all of it.
LEMMA RefreshResolveStateFacts ==
  ASSUME NEW found \in Nat, NEW done, NEW busy, NEW delayed, NEW failed, NEW unresolved,
         NEW limited, NEW stale
  PROVE  LET state == Refresh!ResolveState(found, done, busy, delayed, failed, unresolved, limited, stale) IN
         /\ state \in RefreshAnswerState
         /\ state = "COMPLETE" => found # 0 /\ done >= found
<1> DEFINE slow == limited /\ delayed > 0 /\ busy = 0
<1>1. CASE found = 0
  BY <1>1 DEF Refresh!ResolveState, RefreshAnswerState
<1>2. CASE found > 0 /\ slow
  BY <1>2 DEF Refresh!ResolveState, RefreshAnswerState
<1>3. CASE found > 0 /\ ~slow
  BY <1>3 DEF Refresh!ResolveState, RefreshAnswerState
<1> QED BY <1>1, <1>2, <1>3

LEMMA RefreshComputeStep ==
  ASSUME RefreshIInv, RefreshMaxFaults \in Nat, NEW c \in RefreshClient, Refresh!Compute(c)
  PROVE  RefreshIInv'
<1>1. /\ refreshRequest[c].step = "bull" /\ UNCHANGED <<Refresh!keys, Refresh!world>> /\ (Refresh!Works \/ Refresh!Fails)
      /\ refreshRequest[c] \in RefreshRequestType /\ refreshRequest \in [RefreshClient -> RefreshRequestType]
  BY RefreshRequestFacts DEF Refresh!Compute, Refresh!At, RefreshIInv, RefreshTypes
<1>2. PICK bull \in {[m \in RefreshMatch |-> Refresh!Bull(refreshWork[m])], [m \in RefreshMatch |-> None]}, stale \in BOOLEAN :
        refreshRequest' = [refreshRequest EXCEPT ![c] = [Refresh!Idle EXCEPT !.kind = refreshRequest[c].kind,
              !.step = Refresh!After(refreshRequest[c].kind),
              !.answer = [state |-> Refresh!State(c, bull, stale), list |-> Refresh!List(c)]]]
  BY DEF Refresh!Compute
<1> DEFINE answer == [state |-> Refresh!State(c, bull, stale), list |-> Refresh!List(c)]
           r == [Refresh!Idle EXCEPT !.kind = refreshRequest[c].kind, !.step = Refresh!After(refreshRequest[c].kind), !.answer = answer]
<1>3. /\ Refresh!List(c) = RefreshListOf(refreshRequest[c]) /\ Refresh!List(c) \in SUBSET RefreshMatch /\ IsFiniteSet(Refresh!List(c))
      /\ refreshRequest[c].linked \in SUBSET Refresh!List(c) /\ \A m \in refreshRequest[c].linked : refreshWork[m] = "linked"
  BY <1>1, RefreshRequestFacts DEF RefreshListOf, RefreshRequestType
<1>4. Cardinality(Refresh!List(c)) \in Nat
  BY <1>3, FS_CardinalityType
<1>5. /\ Refresh!State(c, bull, stale) \in RefreshAnswerState
      /\ Refresh!State(c, bull, stale) = "COMPLETE" =>
           Cardinality(Refresh!List(c)) # 0 /\ Cardinality(refreshRequest[c].linked) >= Cardinality(Refresh!List(c))
  BY <1>4, RefreshResolveStateFacts, RefreshSameCardinality DEF Refresh!State
<1>6. answer \in RefreshAnswerType
  BY <1>3, <1>5 DEF RefreshAnswerType
<1>7. RefreshHonest(answer)
  <2> SUFFICES ASSUME Refresh!State(c, bull, stale) = "COMPLETE"
               PROVE  Refresh!List(c) # {} /\ \A m \in Refresh!List(c) : refreshWork[m] = "linked"
    BY DEF RefreshHonest
  <2>1. Cardinality(Refresh!List(c)) # 0 /\ Cardinality(refreshRequest[c].linked) >= Cardinality(Refresh!List(c))
    BY <1>5
  <2>2. /\ Cardinality(refreshRequest[c].linked) <= Cardinality(Refresh!List(c))
        /\ Cardinality(Refresh!List(c)) = Cardinality(refreshRequest[c].linked) => Refresh!List(c) = refreshRequest[c].linked
        /\ IsFiniteSet(refreshRequest[c].linked)
    BY <1>3, FS_Subset
  <2>3. Cardinality(refreshRequest[c].linked) \in Nat
    BY <2>2, FS_CardinalityType
  <2>4. Refresh!List(c) = refreshRequest[c].linked
    BY <1>4, <2>1, <2>2, <2>3
  <2>5. Refresh!List(c) # {}
    BY <2>1, FS_EmptySet
  <2> QED BY <1>3, <2>4, <2>5
<1>8. Refresh!After(refreshRequest[c].kind) \in {"invalidate", "done", "store"}
      /\ (Refresh!After(refreshRequest[c].kind) = "invalidate" => refreshRequest[c].kind = "refresh")
  BY DEF Refresh!After
<1> HIDE DEF answer
<1>9. refreshRequest' = [refreshRequest EXCEPT ![c] = r]
  BY <1>2 DEF answer
<1>10. /\ r \in RefreshRequestType /\ r.step = Refresh!After(refreshRequest[c].kind) /\ r.kind = refreshRequest[c].kind
       /\ r.own = Refresh!Idle.own /\ r.seen = Refresh!Idle.seen /\ r.answer = answer
  BY <1>1, <1>6, <1>8, RefreshIdleTyped DEF RefreshRequestType, Refresh!Step
<1>11. RefreshFitsItsKind(r, refreshSearched) /\ ~RefreshAboutToWriteBack(r) /\ (Refreshing(r) => Refresh!InRefresh(c))
  BY <1>1, <1>8, <1>10, RefreshRequestFacts DEF RefreshFitsItsKind, RefreshSteps, RefreshAboutToWriteBack, Refreshing, Refresh!InRefresh
<1>12. IsFiniteSet(r.own) /\ IsFiniteSet(r.seen) /\ RefreshHonest(r.answer)
  BY <1>7, <1>10, RefreshIdleTyped
<1>13. r.step \notin {"durable", "bull"}
  BY <1>8, <1>10
<1> HIDE DEF r
<1> QED BY <1>1, <1>9, <1>10, <1>11, <1>12, <1>13, RefreshClientOnlyMoves

-----------------------------------------------------------------------------
(* The cached profile, and new requests.                                   *)

LEMMA RefreshProfileWrites ==
  ASSUME RefreshIInv, RefreshMaxFaults \in Nat, NEW c \in RefreshClient, Refresh!InvalidateProfile(c) \/ Refresh!SetProfile(c)
  PROVE  RefreshIInv'
<1>1. PICK step \in {"store", "completedRead", "done"} :
        /\ Refresh!Go(c, step) /\ (Refresh!Works \/ Refresh!Fails) /\ UNCHANGED <<refreshMeta, refreshLock, refreshCooldown, Refresh!world>>
        /\ step \in {"store", "completedRead"} => refreshRequest[c].kind = "refresh"
        /\ refreshRequest[c].step \in {"invalidate", "store"}
        /\ refreshProfile' \in {None, refreshProfile, refreshRequest[c].answer}
  <2>1. CASE Refresh!InvalidateProfile(c)
    <3>1. refreshRequest[c].kind = "refresh"
      BY <2>1, RefreshRequestFacts DEF Refresh!InvalidateProfile, Refresh!At, RefreshFitsItsKind, RefreshSteps
    <3> QED BY <2>1, <3>1 DEF Refresh!InvalidateProfile, Refresh!At
  <2>2. CASE Refresh!SetProfile(c)
    <3>1. CASE refreshRequest[c].kind = "refresh"
      BY <2>2, <3>1 DEF Refresh!SetProfile, Refresh!At
    <3>2. CASE refreshRequest[c].kind # "refresh"
      BY <2>2, <3>2 DEF Refresh!SetProfile, Refresh!At
    <3> QED BY <3>1, <3>2
  <2> QED BY <2>1, <2>2
<1>2. /\ refreshWork' = refreshWork /\ refreshRecorded' = refreshRecorded /\ UNCHANGED <<refreshOverran, refreshSearched, refreshRequests>>
      /\ refreshMeta' = refreshMeta /\ refreshLock' = refreshLock /\ refreshCooldown' = refreshCooldown
  BY <1>1 DEF Refresh!world
<1>3. /\ refreshRequest[c].answer \in RefreshAnswerType /\ RefreshHonest(refreshRequest[c].answer)
  BY RefreshRequestFacts DEF RefreshRequestType
<1>4. refreshProfile' \in {None} \cup RefreshAnswerType /\ (refreshProfile' # None => RefreshHonest(refreshProfile'))
  BY <1>1, <1>3, RefreshWorldFacts
<1>5. /\ step \in Refresh!Step \ {"durable", "bull"}
      /\ step \notin {"resolve", "sync", "enqueue", "discoveredRead", "discoveredWrite"}
      /\ step \notin {"startedWrite", "completedWrite"}
      /\ step \in RefreshSteps => refreshRequest[c].kind = "refresh"
  BY <1>1 DEF Refresh!Step, RefreshSteps
<1>6. refreshRefreshFaults' = 0 => refreshRefreshFaults = 0
  BY <1>1, RefreshFaultsGrow DEF RefreshIInv
<1>7. ~refreshOverran => /\ refreshRequest[c].kind = "refresh" => refreshLock' = c
                         /\ \A d \in RefreshClient : d # c /\ Refresh!InRefresh(d) => refreshLock' = d
  BY <1>1, <1>2, RefreshWorldFacts DEF Refreshing
<1>8. ~refreshOverran /\ ~refreshSearched /\ refreshRefreshFaults' = 0 =>
           /\ refreshMeta' = refreshRecorded'
           /\ \A d \in RefreshClient : d # c /\ RefreshAboutToWriteBack(refreshRequest[d]) => refreshRequest[d].seen = refreshMeta'
  BY <1>2, <1>6, RefreshWorldFacts
<1> QED BY <1>1, <1>2, <1>4, <1>5, <1>7, <1>8, RefreshWorldFacts, RefreshGoWrites

LEMMA RefreshGetProfileStep ==
  ASSUME RefreshIInv, RefreshMaxFaults \in Nat, NEW c \in RefreshClient, Refresh!GetProfile(c)
  PROVE  RefreshIInv'
<1>1. /\ refreshRequest[c].step = "cached" /\ UNCHANGED <<Refresh!keys, Refresh!world>> /\ (Refresh!Works \/ Refresh!Fails)
      /\ (refreshProfile # None /\ Refresh!Finish(c, refreshProfile)) \/ Refresh!Go(c, "meta")
  BY DEF Refresh!GetProfile, Refresh!At
<1>2. CASE refreshProfile # None /\ Refresh!Finish(c, refreshProfile)
  <2>1. refreshProfile \in RefreshAnswerType /\ RefreshHonest(refreshProfile)
    BY <1>2, RefreshWorldFacts
  <2> QED BY <1>1, <1>2, <2>1, RefreshFinishOnly
<1>3. CASE Refresh!Go(c, "meta")
  <2> DEFINE r == [refreshRequest[c] EXCEPT !.step = "meta"]
  <2>1. r.step = "meta" /\ r.kind = refreshRequest[c].kind
    BY RefreshRequestFacts DEF RefreshRequestType
  <2>2. /\ RefreshFitsItsKind(r, refreshSearched) /\ ~RefreshAboutToWriteBack(r)
        /\ Refreshing(r) => Refresh!InRefresh(c)
    BY <1>1, <2>1, RefreshRequestFacts
       DEF RefreshFitsItsKind, RefreshSteps, RefreshAboutToWriteBack, Refreshing, Refresh!InRefresh
  <2> QED BY <1>1, <1>3, <2>2, RefreshGoOnly DEF Refresh!Step
<1> QED BY <1>1, <1>2, <1>3

LEMMA RefreshAskStep ==
  ASSUME RefreshIInv, Refresh!ConstantsAssumption, NEW c \in RefreshClient, NEW kind \in Refresh!Kind, Refresh!Ask(c, kind)
  PROVE  RefreshIInv'
<1> DEFINE step == CASE kind = "refresh" -> "cooldown" [] kind = "search" -> "resolve"
                     [] kind = "status" -> "meta" [] OTHER -> "cached"
           r == [Refresh!Idle EXCEPT !.kind = kind, !.step = step]
<1>1. /\ UNCHANGED <<refreshWork, Refresh!keys, refreshRecorded, refreshOverran, refreshRefreshFaults>> /\ refreshRequests' = refreshRequests + 1
      /\ refreshRequests < RefreshMaxRequests /\ refreshSearched' = (refreshSearched \/ kind = "search")
      /\ refreshRequest' = [refreshRequest EXCEPT ![c] = r]
  BY DEF Refresh!Ask
<1>2. /\ step \in Refresh!Step \ {"durable", "bull"} /\ step \notin {"startedWrite", "completedWrite"}
      /\ kind = "refresh" => step = "cooldown"
      /\ kind = "search" => step = "resolve"
      /\ kind \notin {"refresh", "search"} => step \in {"meta", "cached"}
  BY DEF Refresh!Step, Refresh!Kind
<1> HIDE DEF step
<1>3. /\ r \in RefreshRequestType /\ r.step = step /\ r.kind = kind /\ r.own = Refresh!Idle.own
      /\ r.seen = Refresh!Idle.seen /\ r.answer = Refresh!Idle.answer
  BY <1>2, RefreshIdleTyped DEF RefreshRequestType
<1>4. /\ refreshWork' = refreshWork /\ refreshRecorded' = refreshRecorded /\ refreshOverran' = refreshOverran /\ refreshRefreshFaults' = refreshRefreshFaults
      /\ refreshMeta' = refreshMeta /\ refreshLock' = refreshLock /\ refreshProfile' = refreshProfile /\ refreshCooldown' = refreshCooldown
  BY <1>1 DEF Refresh!keys
<1>5. /\ refreshRequests' \in 0..RefreshMaxRequests /\ refreshSearched' \in BOOLEAN /\ (refreshSearched => refreshSearched')
      /\ refreshRefreshFaults' \in 0..RefreshMaxFaults /\ (~refreshSearched' => ~refreshSearched)
  BY <1>1, <1>4 DEF RefreshIInv, RefreshTypes, Refresh!ConstantsAssumption
<1>6. /\ RefreshFitsItsKind(r, refreshSearched') /\ ~RefreshAboutToWriteBack(r) /\ ~Refreshing(r)
  BY <1>1, <1>2, <1>3 DEF RefreshFitsItsKind, RefreshAboutToWriteBack, Refreshing, RefreshSteps, Refresh!Kind
<1>7. IsFiniteSet(r.own) /\ IsFiniteSet(r.seen)
  BY <1>3, RefreshIdleTyped
<1>8. r.answer.state # "COMPLETE"
  BY <1>3 DEF Refresh!Idle, Refresh!ConstantsAssumption
<1>9. refreshProfile' # None => RefreshHonest(refreshProfile)'
  <2>1. refreshProfile # None => RefreshHonest(refreshProfile)
    BY RefreshWorldFacts
  <2> QED BY <1>4, <2>1 DEF RefreshHonest
<1>10. ~refreshOverran => /\ Refreshing(r) => refreshLock' = c
                          /\ \A d \in RefreshClient : d # c /\ Refresh!InRefresh(d) => refreshLock' = d
  BY <1>4, <1>6, RefreshWorldFacts
<1>11. ~refreshOverran /\ ~refreshSearched' /\ refreshRefreshFaults' = 0 =>
           /\ refreshMeta' = refreshRecorded'
           /\ RefreshAboutToWriteBack(r) => r.seen = refreshMeta'
           /\ \A d \in RefreshClient : d # c /\ RefreshAboutToWriteBack(refreshRequest[d]) => refreshRequest[d].seen = refreshMeta'
  BY <1>4, <1>5, <1>6, RefreshWorldFacts
<1>12. /\ refreshWork' \in [RefreshMatch -> Refresh!Stage] /\ refreshMeta' \in SUBSET RefreshMatch /\ refreshRecorded' \in SUBSET RefreshMatch
       /\ refreshLock' \in RefreshClient \cup {None} /\ refreshProfile' \in {None} \cup RefreshAnswerType
       /\ refreshCooldown' \in BOOLEAN /\ IsFiniteSet(refreshMeta')
       /\ \A m \in RefreshMatch : refreshWork[m] = "linked" => refreshWork'[m] = "linked"
       /\ refreshRefreshFaults' = 0 => refreshRefreshFaults = 0
  BY <1>4, RefreshWorldFacts
<1>13. r.step \notin {"durable", "bull"}
  BY <1>2, <1>3
<1> HIDE DEF r
<1> QED BY <1>1, <1>3, <1>4, <1>5, <1>6, <1>7, <1>8, <1>9, <1>10, <1>11, <1>12, <1>13, RefreshClientMoves

-----------------------------------------------------------------------------
(* The worker, and the passage of time.                                    *)

LEMMA RefreshWorldMoves ==
  ASSUME RefreshIInv, RefreshMaxFaults \in Nat, UNCHANGED <<refreshRequest, refreshRecorded, refreshSearched, refreshRequests>>, Refresh!Works \/ Refresh!Fails,
         refreshWork' \in [RefreshMatch -> Refresh!Stage], \A m \in RefreshMatch : refreshWork[m] = "linked" => refreshWork'[m] = "linked",
         refreshMeta' = refreshMeta \/ (Refresh!Fails /\ refreshMeta' = {}), refreshCooldown' \in BOOLEAN, refreshProfile' \in {refreshProfile, None},
         (refreshLock' = refreshLock /\ refreshOverran' = refreshOverran) \/ (refreshLock' = None /\ refreshOverran' = TRUE)
  PROVE  RefreshIInv'
<1>1. refreshRefreshFaults' \in 0..RefreshMaxFaults /\ (refreshRefreshFaults' = 0 => refreshRefreshFaults = 0 /\ ~Refresh!Fails)
  BY RefreshFaultsGrow DEF RefreshIInv, Refresh!Fails, RefreshTypes
<1>2. RefreshTypes'
  BY <1>1 DEF RefreshIInv, RefreshTypes
<1>3. RefreshListsAreFinite'
  BY FS_EmptySet DEF RefreshIInv, RefreshListsAreFinite
<1>4. RefreshKindsKeepToTheirSteps'
  BY DEF RefreshIInv, RefreshKindsKeepToTheirSteps
<1>5. \A c \in RefreshClient : refreshRequest[c] \in RefreshRequestType
  BY RefreshRequestFacts
<1>6. RefreshLinkedIsLinked'
  BY <1>5 DEF RefreshIInv, RefreshLinkedIsLinked, Refresh!List, RefreshRequestType
<1>7. RefreshAnswersAreHonest'
  <2>1. ASSUME NEW answer \in RefreshAnswerType, RefreshHonest(answer) PROVE RefreshHonest(answer)'
    BY <2>1 DEF RefreshHonest, RefreshAnswerType
  <2>2. \A c \in RefreshClient : RefreshHonest(refreshRequest[c].answer)'
    BY <2>1, <1>5, RefreshRequestFacts DEF RefreshRequestType, RefreshHonest
  <2>3. refreshProfile' # None => RefreshHonest(refreshProfile)'
    <3> SUFFICES ASSUME refreshProfile' # None PROVE RefreshHonest(refreshProfile)'
      OBVIOUS
    <3>1. refreshProfile' = refreshProfile /\ refreshProfile \in RefreshAnswerType /\ RefreshHonest(refreshProfile)
      BY RefreshWorldFacts
    <3> QED BY <3>1 DEF RefreshHonest, RefreshAnswerType
  <2> QED BY <2>2, <2>3 DEF RefreshAnswersAreHonest
<1>8. RefreshHoldsLock'
  BY DEF RefreshIInv, RefreshHoldsLock, Refresh!InRefresh
<1>9. RefreshMetaIsRecorded'
  <2> SUFFICES ASSUME ~refreshOverran', ~refreshSearched', refreshRefreshFaults' = 0
               PROVE  /\ refreshMeta' = refreshRecorded'
                      /\ \A c \in RefreshClient : refreshRequest'[c].step \in {"startedWrite", "completedWrite"} =>
                           refreshRequest'[c].seen = refreshMeta'
    BY DEF RefreshMetaIsRecorded
  <2>1. ~refreshOverran /\ ~refreshSearched /\ refreshRefreshFaults = 0 /\ refreshMeta' = refreshMeta
    BY <1>1
  <2> QED BY <2>1 DEF RefreshIInv, RefreshMetaIsRecorded
<1> QED BY <1>2, <1>3, <1>4, <1>6, <1>7, <1>8, <1>9 DEF RefreshIInv

LEMMA RefreshIngestStep ==
  ASSUME RefreshIInv, RefreshMaxFaults \in Nat, NEW m \in RefreshMatch, Refresh!Ingest(m)
  PROVE  RefreshIInv'
<1>1. /\ UNCHANGED <<Refresh!keys, refreshRequest, refreshRecorded, refreshOverran, refreshSearched, refreshRequests>> /\ (Refresh!Works \/ Refresh!Fails)
      /\ refreshWork[m] # "linked" /\ \E to \in Refresh!Stage : refreshWork' = [refreshWork EXCEPT ![m] = to]
  BY DEF Refresh!Ingest
<1>2. refreshWork' \in [RefreshMatch -> Refresh!Stage] /\ \A n \in RefreshMatch : refreshWork[n] = "linked" => refreshWork'[n] = "linked"
  BY <1>1, RefreshWorldFacts
<1>3. refreshMeta' = refreshMeta /\ refreshLock' = refreshLock /\ refreshCooldown' = refreshCooldown /\ refreshProfile' = refreshProfile
  BY <1>1 DEF Refresh!keys
<1> QED BY <1>1, <1>2, <1>3, RefreshWorldFacts, RefreshWorldMoves

LEMMA RefreshExpirySteps ==
  ASSUME RefreshIInv, RefreshMaxFaults \in Nat, Refresh!LockExpires \/ Refresh!CooldownExpires \/ Refresh!MetaExpires \/ Refresh!ProfileExpires
  PROVE  RefreshIInv'
<1>1. /\ UNCHANGED <<refreshRequest, refreshRecorded, refreshSearched, refreshRequests>> /\ refreshWork' = refreshWork
      /\ Refresh!Fails /\ refreshCooldown' \in {refreshCooldown, FALSE} /\ refreshProfile' \in {refreshProfile, None} /\ refreshMeta' \in {refreshMeta, {}}
      /\ (refreshLock' = refreshLock /\ refreshOverran' = refreshOverran) \/ (refreshLock' = None /\ refreshOverran' = TRUE)
  BY DEF Refresh!LockExpires, Refresh!CooldownExpires, Refresh!MetaExpires, Refresh!ProfileExpires, Refresh!world
<1>2. /\ refreshMeta' = refreshMeta \/ (Refresh!Fails /\ refreshMeta' = {})
      /\ refreshCooldown' \in BOOLEAN /\ refreshWork' \in [RefreshMatch -> Refresh!Stage]
      /\ \A m \in RefreshMatch : refreshWork[m] = "linked" => refreshWork'[m] = "linked"
  BY <1>1, RefreshWorldFacts
<1> QED BY <1>1, <1>2, RefreshWorldMoves

-----------------------------------------------------------------------------
LEMMA RefreshInitIInv == ASSUME Refresh!ConstantsAssumption, Refresh!Init PROVE RefreshIInv
<1>1. /\ refreshWork = [m \in RefreshMatch |-> "unknown"] /\ refreshMeta = {} /\ refreshRecorded = {}
      /\ refreshLock = None /\ refreshCooldown = FALSE /\ refreshProfile = None
      /\ refreshRequest = [c \in RefreshClient |-> Refresh!Idle] /\ refreshOverran = FALSE /\ refreshSearched = FALSE
      /\ refreshRequests = 0 /\ refreshRefreshFaults = 0
  BY DEF Refresh!Init
<1>2. RefreshTypes
  <2>1. refreshWork \in [RefreshMatch -> Refresh!Stage]
    BY <1>1 DEF Refresh!Stage
  <2>2. refreshRequest \in [RefreshClient -> RefreshRequestType]
    BY <1>1, RefreshIdleTyped
  <2>3. refreshRequests \in 0..RefreshMaxRequests /\ refreshRefreshFaults \in 0..RefreshMaxFaults
    BY <1>1 DEF Refresh!ConstantsAssumption
  <2> QED BY <1>1, <2>1, <2>2, <2>3 DEF RefreshTypes
<1>3. RefreshListsAreFinite
  BY <1>1, RefreshIdleTyped, FS_EmptySet DEF RefreshListsAreFinite
<1>4. \A c \in RefreshClient : refreshRequest[c].step = "idle" /\ refreshRequest[c].kind = None
                        /\ refreshRequest[c].answer.state = None
  BY <1>1 DEF Refresh!Idle
<1>5. RefreshKindsKeepToTheirSteps
  BY <1>4 DEF RefreshKindsKeepToTheirSteps, RefreshSteps, Refresh!ConstantsAssumption
<1>6. RefreshLinkedIsLinked /\ RefreshHoldsLock
  BY <1>4 DEF RefreshLinkedIsLinked, RefreshHoldsLock, Refresh!InRefresh
<1>7. RefreshAnswersAreHonest
  BY <1>1, <1>4 DEF RefreshAnswersAreHonest, RefreshHonest, Refresh!ConstantsAssumption
<1>8. RefreshMetaIsRecorded
  BY <1>1, <1>4 DEF RefreshMetaIsRecorded
<1> QED BY <1>2, <1>3, <1>5, <1>6, <1>7, <1>8 DEF RefreshIInv

LEMMA RefreshNextIInv == ASSUME RefreshIInv, Refresh!ConstantsAssumption, [Refresh!Next]_(Refresh!vars) PROVE RefreshIInv'
<1>1. RefreshMaxFaults \in Nat /\ None \notin RefreshClient
  BY DEF Refresh!ConstantsAssumption
<1>2. CASE UNCHANGED Refresh!vars
  <2>1. /\ UNCHANGED <<refreshRequest, refreshRecorded, refreshSearched, refreshRequests, refreshWork, refreshMeta, refreshCooldown, refreshProfile, refreshLock, refreshOverran>>
        /\ Refresh!Works
    BY <1>2 DEF Refresh!vars, Refresh!Works
  <2> QED BY <2>1, <1>1, RefreshWorldFacts, RefreshWorldMoves
<1>3. ASSUME NEW c \in RefreshClient, Refresh!ClientStep(c) PROVE RefreshIInv'
  <2>1. ASSUME NEW kind \in Refresh!Kind, Refresh!Ask(c, kind) PROVE RefreshIInv'
    BY <2>1, RefreshAskStep
  <2>2. CASE Refresh!AssertCooldown(c)
    BY <2>2, <1>1, RefreshAssertCooldownStep
  <2>3. CASE Refresh!TryAcquireLock(c)
    BY <2>3, <1>1, RefreshTryAcquireLockStep
  <2>4. CASE \/ Refresh!RecordRefreshStarted(c) \/ Refresh!RecordRefreshCompleted(c)
             \/ Refresh!RecordDiscoveredMatches(c) \/ Refresh!ReadDiscovered(c)
    BY <2>4, <1>1, RefreshMetaSteps
  <2>5. CASE Refresh!Resolve(c)
    BY <2>5, <1>1, RefreshResolveStep
  <2>6. CASE Refresh!SyncPlayerData(c)
    BY <2>6, RefreshSyncPlayerDataStep
  <2>7. CASE Refresh!EnqueueDiscovered(c)
    BY <2>7, <1>1, RefreshEnqueueDiscoveredStep
  <2>8. CASE Refresh!ReadLinked(c) \/ Refresh!ReadDurable(c)
    BY <2>8, <1>1, RefreshReadLinkedStep, RefreshReadDurableStep
  <2>9. CASE Refresh!Compute(c)
    BY <2>9, <1>1, RefreshComputeStep
  <2>10. CASE Refresh!InvalidateProfile(c) \/ Refresh!SetProfile(c)
    BY <2>10, <1>1, RefreshProfileWrites
  <2>11. CASE Refresh!GetProfile(c)
    BY <2>11, <1>1, RefreshGetProfileStep
  <2>12. CASE Refresh!SetCooldown(c) \/ Refresh!ReleaseLock(c)
    BY <2>12, <1>1, RefreshSetCooldownStep, RefreshReleaseLockStep
  <2> QED BY <1>3, <2>1, <2>2, <2>3, <2>4, <2>5, <2>6, <2>7, <2>8, <2>9, <2>10, <2>11, <2>12 DEF Refresh!ClientStep
<1>4. ASSUME NEW m \in RefreshMatch, Refresh!Ingest(m) PROVE RefreshIInv'
  BY <1>1, <1>4, RefreshIngestStep
<1>5. CASE Refresh!LockExpires \/ Refresh!CooldownExpires \/ Refresh!MetaExpires \/ Refresh!ProfileExpires
  BY <1>1, <1>5, RefreshExpirySteps
<1> QED BY <1>2, <1>3, <1>4, <1>5 DEF Refresh!Next

LEMMA RefreshIInvSuffices == ASSUME RefreshIInv PROVE Refresh!CompleteIsHonest /\ Refresh!RefreshesExcludeEachOther
<1>1. Refresh!CompleteIsHonest
  BY DEF RefreshIInv, RefreshAnswersAreHonest, RefreshHonest, Refresh!CompleteIsHonest
<1>2. Refresh!RefreshesExcludeEachOther
  BY DEF RefreshIInv, RefreshHoldsLock, RefreshMetaIsRecorded, Refresh!RefreshesExcludeEachOther
<1> QED BY <1>1, <1>2

(* The inductive invariant of a refresh: the holder of the lock is the one
   refresh under way unless a refresh outlived its lock, what was recorded is
   what the durable copies say, and an answer counts what is linked. *)
THEOREM RefreshInductive == ASSUME Refresh!ConstantsAssumption PROVE Refresh!Spec => []RefreshIInv
<1>1. Refresh!Init => RefreshIInv
  BY RefreshInitIInv
<1>2. RefreshIInv /\ [Refresh!Next]_(Refresh!vars) => RefreshIInv'
  BY RefreshNextIInv
<1> QED BY <1>1, <1>2, PTL DEF Refresh!Spec

(* A refresh that is reported complete has its matches linked, and two
   refreshes of one player run together only after one outlived its lock:
   for any number of clients, matches, requests and faults. *)
THEOREM RefreshIsHonest == ASSUME Refresh!ConstantsAssumption PROVE Refresh!Spec => [](Refresh!CompleteIsHonest /\ Refresh!RefreshesExcludeEachOther)
<1>1. RefreshIInv => Refresh!CompleteIsHonest /\ Refresh!RefreshesExcludeEachOther
  BY RefreshIInvSuffices
<1> QED BY <1>1, RefreshInductive, PTL

HIDE DEF refreshWork, refreshMeta, refreshLock, refreshCooldown,
         refreshProfile, refreshRequest, refreshRecorded, refreshOverran,
         refreshSearched, refreshRequests, refreshRefreshFaults

-----------------------------------------------------------------------------
(***************************************************************************)
(* The queue of the AI insights.                                           *)
(***************************************************************************)
USE DEF insightRow, insightReader, insightJob, insightRun, insightExhausted,
        insightLost

-----------------------------------------------------------------------------
(* The steps of a request: where it goes next, and what that leaves of     *)
(* what the row was promised.                                              *)
LEMMA InsightRequestSteps ==
  ASSUME InsightIInv, NEW g \in InsightReaders,
         \/ Insight!Get(g) \/ Insight!Upsert(g) \/ Insight!Look(g) \/ Insight!RemoveOld(g) \/ Insight!Add(g)
         \/ Insight!QueueFails(g) \/ Insight!Unpublished(g) \/ Insight!Dies(g)
  PROVE  InsightIInv'
<1>1. /\ \A to : insightReader' = [insightReader EXCEPT ![g] = to] =>
            insightReader'[g] = to /\ \A h \in InsightReaders : h # g => insightReader'[h] = insightReader[h]
      /\ \A to \in {"idle", "upsert", "look", "remove", "add", "unpublished"} :
            [insightReader EXCEPT ![g] = to] \in [InsightReaders -> {"idle", "upsert", "look", "remove", "add", "unpublished"}]
  BY DEF InsightIInv, InsightTypes
<1>2. CASE Insight!Get(g)
  BY <1>1, <1>2 DEF Insight!Get, Insight!Answered, InsightIInv, InsightTypes, InsightEndsAreEnds, InsightOneOwner, InsightPursued, InsightPublishing, InsightReadyHasText
<1>3. CASE Insight!Upsert(g)
  <2>1. InsightTypes' /\ InsightEndsAreEnds' /\ InsightOneOwner' /\ InsightReadyHasText'
    BY <1>1, <1>3 DEF Insight!Upsert, Insight!Row, InsightIInv, InsightTypes, InsightEndsAreEnds, InsightOneOwner, InsightReadyHasText
  <2>2. InsightPublishing(g)'
    BY <1>1, <1>3 DEF Insight!Upsert, InsightPublishing
  <2> QED BY <2>1, <2>2 DEF InsightIInv, InsightPursued
<1>4. CASE Insight!Look(g)
  <2>1. UNCHANGED <<insightRow, insightJob, insightRun, insightExhausted>>
    BY <1>4 DEF Insight!Look
  <2>2. InsightTypes' /\ InsightEndsAreEnds' /\ InsightOneOwner' /\ InsightReadyHasText'
    <3>1. insightReader' \in [InsightReaders -> {"idle", "upsert", "look", "remove", "add", "unpublished"}] /\ insightLost' \in BOOLEAN
      <4>1. CASE insightJob.state \in Insight!CountsAsPublished
        BY <1>1, <1>4, <4>1 DEF Insight!Look, InsightIInv, InsightTypes
      <4>2. CASE insightJob.state \notin Insight!CountsAsPublished
        BY <1>1, <1>4, <4>2 DEF Insight!Look, InsightIInv, InsightTypes
      <4> QED BY <4>1, <4>2
    <3> QED BY <2>1, <3>1 DEF InsightIInv, InsightTypes, InsightEndsAreEnds, InsightOneOwner, InsightReadyHasText
  <2>3. InsightPublishing(g)' \/ (insightLost' = (insightJob.state = "active") /\ insightJob.state \in Insight!LiveStates)
    BY <1>1, <1>4 DEF Insight!Look, Insight!CountsAsPublished, InsightPublishing
  <2>4. InsightPursued'
    BY <2>1, <2>3 DEF InsightIInv, InsightOneOwner, InsightPursued
  <2> QED BY <2>2, <2>4 DEF InsightIInv
<1>5. CASE Insight!RemoveOld(g)
  <2>1. InsightPublishing(g)'
    BY <1>1, <1>5 DEF Insight!RemoveOld, InsightPublishing
  <2>2. InsightTypes' /\ InsightEndsAreEnds' /\ InsightReadyHasText'
    BY <1>1, <1>5 DEF Insight!RemoveOld, InsightIInv, InsightTypes, InsightEndsAreEnds, InsightReadyHasText, Insight!LiveStates
  <2>3. InsightOneOwner'
    BY <1>5 DEF Insight!RemoveOld, InsightIInv, InsightOneOwner
  <2> QED BY <2>1, <2>2, <2>3 DEF InsightIInv, InsightPursued
<1>6. CASE Insight!Add(g)
  <2>1. /\ UNCHANGED <<insightRow, insightRun, insightExhausted>> /\ insightLost' = (insightJob'.state \notin {"waiting", "delayed"})
        /\ insightJob' = IF insightJob.state = "none" THEN [state |-> "waiting", attempts |-> 0] ELSE insightJob
        /\ insightReader' = [insightReader EXCEPT ![g] = "idle"]
    BY <1>6 DEF Insight!Add
  <2>2. InsightTypes' /\ InsightEndsAreEnds' /\ InsightReadyHasText'
    BY <1>1, <2>1 DEF InsightIInv, InsightTypes, InsightEndsAreEnds, InsightReadyHasText, Insight!LiveStates
  <2>3. InsightOneOwner'
    BY <2>1 DEF InsightIInv, InsightOneOwner
  <2>4. InsightPursued'
    BY <2>1, <2>3 DEF InsightOneOwner, InsightPursued, Insight!LiveStates
  <2> QED BY <2>2, <2>3, <2>4 DEF InsightIInv
<1>7. CASE Insight!QueueFails(g)
  <2>1. InsightTypes' /\ InsightEndsAreEnds' /\ InsightOneOwner' /\ InsightReadyHasText'
    BY <1>1, <1>7 DEF Insight!QueueFails, InsightIInv, InsightTypes, InsightEndsAreEnds, InsightOneOwner, InsightReadyHasText
  <2>2. InsightPublishing(g)'
    BY <1>1, <1>7 DEF Insight!QueueFails, InsightPublishing
  <2> QED BY <2>1, <2>2 DEF InsightIInv, InsightPursued
<1>8. CASE Insight!Unpublished(g)
  BY <1>1, <1>8 DEF Insight!Unpublished, Insight!Row, InsightIInv, InsightTypes, InsightEndsAreEnds, InsightOneOwner, InsightPursued, InsightReadyHasText
<1>9. CASE Insight!Dies(g)
  BY <1>1, <1>9 DEF Insight!Dies, InsightIInv, InsightTypes, InsightEndsAreEnds, InsightOneOwner, InsightPursued, InsightReadyHasText
<1> QED BY <1>2, <1>3, <1>4, <1>5, <1>6, <1>7, <1>8, <1>9

(* The steps of a run of the job.                                          *)
LEMMA InsightRunSteps ==
  ASSUME InsightIInv, NEW w \in InsightWorkers,
         Insight!Begin(w) \/ Insight!MarkReady(w) \/ Insight!MarkFailed(w) \/ Insight!Retryable(w) \/ Insight!End(w) \/ Insight!Stall(w)
  PROVE  InsightIInv'
<1>1. /\ insightRun[w] \in InsightRunType
      /\ \A to : insightRun' = [insightRun EXCEPT ![w] = to] =>
            insightRun'[w] = to /\ \A v \in InsightWorkers : v # w => insightRun'[v] = insightRun[v]
      /\ \A to \in InsightRunType : [insightRun EXCEPT ![w] = to] \in [InsightWorkers -> InsightRunType]
  BY DEF InsightIInv, InsightTypes
<1>2. CASE Insight!Begin(w)
  <2> DEFINE r == IF insightRow.status = "READY" THEN [pc |-> "end", owner |-> TRUE, to |-> "completed"]
                  ELSE [pc |-> "generate", owner |-> TRUE, to |-> None]
  <2>1. /\ UNCHANGED <<insightRow, insightReader, insightExhausted, insightLost>> /\ insightJob.state = "waiting"
        /\ insightJob' = [insightJob EXCEPT !.state = "active"] /\ insightRun' = [insightRun EXCEPT ![w] = r]
        /\ insightJob'.state = "active"
    BY <1>2 DEF Insight!Begin, InsightIInv, InsightTypes
  <2>2. r \in InsightRunType /\ r.owner /\ r.pc # "idle" /\ (r.pc = "end" => r.to \in InsightEnds)
        /\ (insightRow.status = "PENDING" => r.pc = "generate")
    BY DEF InsightRunType, InsightEnds
  <2> HIDE DEF r
  <2>3. InsightTypes' /\ InsightEndsAreEnds' /\ InsightReadyHasText'
    BY <1>1, <2>1, <2>2 DEF InsightIInv, InsightTypes, InsightEndsAreEnds, InsightReadyHasText, Insight!LiveStates
  <2>4. InsightOneOwner'
    BY <1>1, <2>1, <2>2 DEF InsightIInv, InsightOneOwner
  <2>5. InsightPursued'
    BY <1>1, <2>1, <2>2 DEF InsightIInv, InsightOneOwner, InsightPursued, InsightPublishing, Insight!LiveStates
  <2> QED BY <2>3, <2>4, <2>5 DEF InsightIInv
<1>3. CASE Insight!MarkReady(w) \/ Insight!MarkFailed(w)
  <2>1. PICK to \in {"completed", "failed"} :
          insightRun' = [insightRun EXCEPT ![w] = [insightRun[w] EXCEPT !.pc = "end", !.to = to]]
    BY <1>1, <1>3 DEF Insight!MarkReady, Insight!MarkFailed, InsightIInv, InsightTypes
  <2>2. /\ UNCHANGED <<insightReader, insightJob, insightExhausted, insightLost>> /\ insightRun[w].pc = "generate"
        /\ insightRow' \in {Insight!Row("READY", TRUE), Insight!Row("FAILED", insightRow.result)}
    BY <1>3 DEF Insight!MarkReady, Insight!MarkFailed
  <2> DEFINE r == [insightRun[w] EXCEPT !.pc = "end", !.to = to]
  <2>3. r \in InsightRunType /\ r.owner = insightRun[w].owner /\ r.pc = "end" /\ r.to \in InsightEnds
    BY <1>1 DEF InsightRunType, InsightEnds
  <2>4. /\ insightRow'.status \in {"READY", "FAILED"} /\ (insightRow'.status = "READY" => insightRow'.result)
        /\ insightRow' \in [status : {"none", "PENDING", "READY", "FAILED"}, result : BOOLEAN, old : BOOLEAN]
    <3>1. insightRow.result \in BOOLEAN
      BY DEF InsightIInv, InsightTypes
    <3>2. CASE insightRow' = Insight!Row("READY", TRUE)
      BY <3>2 DEF Insight!Row
    <3>3. CASE insightRow' = Insight!Row("FAILED", insightRow.result)
      BY <3>1, <3>3 DEF Insight!Row
    <3> QED BY <2>2, <3>2, <3>3
  <2> HIDE DEF r
  <2>5. InsightTypes' /\ InsightEndsAreEnds' /\ InsightReadyHasText'
    BY <1>1, <2>1, <2>2, <2>3, <2>4 DEF r, InsightIInv, InsightTypes, InsightEndsAreEnds, InsightReadyHasText
  <2>6. InsightOneOwner'
    BY <1>1, <2>1, <2>2, <2>3 DEF r, InsightIInv, InsightOneOwner
  <2> QED BY <2>4, <2>5, <2>6 DEF InsightIInv, InsightPursued
<1>4. CASE Insight!Retryable(w)
  <2>1. PICK to \in {"delayed", "exhausted"} :
          insightRun' = [insightRun EXCEPT ![w] = [insightRun[w] EXCEPT !.pc = "end", !.to = to]]
    BY <1>1, <1>4 DEF Insight!Retryable, InsightIInv, InsightTypes
  <2>2. UNCHANGED <<insightRow, insightReader, insightJob, insightExhausted, insightLost>> /\ insightRun[w].pc = "generate"
    BY <1>4 DEF Insight!Retryable
  <2> DEFINE r == [insightRun[w] EXCEPT !.pc = "end", !.to = to]
  <2>3. r \in InsightRunType /\ r.owner = insightRun[w].owner /\ r.pc = "end" /\ r.to \in {"delayed", "exhausted"}
    BY <1>1 DEF InsightRunType, InsightEnds
  <2> HIDE DEF r
  <2>4. InsightTypes' /\ InsightEndsAreEnds' /\ InsightReadyHasText'
    BY <1>1, <2>1, <2>2, <2>3 DEF r, InsightIInv, InsightTypes, InsightEndsAreEnds, InsightReadyHasText, InsightEnds
  <2>5. InsightOneOwner'
    BY <1>1, <2>1, <2>2, <2>3 DEF r, InsightIInv, InsightOneOwner
  <2>6. InsightPursued'
    BY <1>1, <2>1, <2>2, <2>3 DEF r, InsightIInv, InsightPursued, InsightPublishing
  <2> QED BY <2>4, <2>5, <2>6 DEF InsightIInv
<1>5. CASE Insight!End(w)
  <2>1. /\ UNCHANGED <<insightRow, insightReader, insightLost>> /\ insightRun[w].pc = "end" /\ insightRun[w].to \in InsightEnds
        /\ insightRun' = [insightRun EXCEPT ![w] = Insight!Idle]
        /\ insightRun'[w] = Insight!Idle /\ \A v \in InsightWorkers : v # w => insightRun'[v] = insightRun[v]
    BY <1>1, <1>5 DEF Insight!End, InsightIInv, InsightEndsAreEnds
  <2>2. Insight!Idle \in InsightRunType /\ ~Insight!Idle.owner /\ Insight!Idle.pc = "idle"
    BY DEF Insight!Idle, InsightRunType
  <2>3. CASE Insight!Holds(w)
    <3>1. /\ insightJob'.state = IF insightRun[w].to = "exhausted" THEN "failed" ELSE insightRun[w].to
          /\ insightJob'.attempts \in Nat
          /\ insightJob' = [state |-> insightJob'.state, attempts |-> insightJob'.attempts]
          /\ insightExhausted' = IF insightRun[w].to = "exhausted" THEN 1 ELSE insightExhausted
      BY <1>5, <2>3 DEF Insight!End, InsightIInv, InsightTypes
    <3>2. insightJob'.state \in {"completed", "failed", "delayed"}
      BY <2>1, <3>1 DEF InsightEnds
    <3>3. InsightTypes' /\ InsightEndsAreEnds' /\ InsightReadyHasText'
      BY <1>1, <2>1, <2>2, <3>1, <3>2 DEF InsightIInv, InsightTypes, InsightEndsAreEnds, InsightReadyHasText, Insight!LiveStates
    <3>4. InsightOneOwner'
      BY <2>1, <2>2, <2>3, <3>2 DEF Insight!Holds, InsightIInv, InsightOneOwner
    <3>5. InsightPursued'
      <4> SUFFICES ASSUME insightRow.status = "PENDING", ~insightLost, insightExhausted' = 0, \A g \in InsightReaders : ~InsightPublishing(g)
                   PROVE  insightJob'.state \in Insight!LiveStates
        BY <2>1, <3>2, <3>4 DEF InsightPursued, InsightPublishing, InsightOneOwner
      <4>1. insightExhausted = 0 /\ insightRun[w].to # "exhausted"
        BY <3>1
      <4>2. insightRun[w].to = "delayed"
        BY <2>1, <2>3, <4>1 DEF Insight!Holds, InsightIInv, InsightPursued
      <4> QED BY <3>1, <4>2 DEF Insight!LiveStates
    <3> QED BY <3>3, <3>4, <3>5 DEF InsightIInv
  <2>4. CASE ~Insight!Holds(w)
    <3>1. insightJob' = insightJob /\ insightExhausted' = insightExhausted
      BY <1>5, <2>4 DEF Insight!End
    <3>2. ~insightRun[w].owner
      BY <2>4 DEF Insight!Holds, InsightIInv, InsightOneOwner
    <3>3. InsightTypes' /\ InsightEndsAreEnds' /\ InsightReadyHasText'
      BY <1>1, <2>1, <2>2, <3>1 DEF InsightIInv, InsightTypes, InsightEndsAreEnds, InsightReadyHasText
    <3>4. InsightOneOwner' /\ InsightPursued'
      BY <2>1, <2>2, <3>1, <3>2 DEF InsightIInv, InsightOneOwner, InsightPursued, InsightPublishing
    <3> QED BY <3>3, <3>4 DEF InsightIInv
  <2> QED BY <2>3, <2>4
<1>6. CASE Insight!Stall(w)
  <2>1. /\ UNCHANGED <<insightRow, insightReader, insightExhausted>> /\ insightRun[w].owner /\ insightJob.state = "active"
        /\ \/ insightJob' = [insightJob EXCEPT !.state = "waiting"] /\ insightLost' = insightLost
           \/ insightJob' = [insightJob EXCEPT !.state = "failed"] /\ insightLost' = TRUE
    BY <1>6 DEF Insight!Stall, Insight!Holds
  <2>2. PICK r \in {Insight!Idle, [insightRun[w] EXCEPT !.owner = FALSE]} : insightRun' = [insightRun EXCEPT ![w] = r]
    BY <1>1, <1>6 DEF Insight!Stall, InsightIInv, InsightTypes
  <2>3. /\ r \in InsightRunType /\ ~r.owner /\ (r.pc = "end" => r.to \in InsightEnds)
        /\ insightRun'[w] = r /\ \A v \in InsightWorkers : v # w => insightRun'[v] = insightRun[v]
    <3>1. CASE r = Insight!Idle
      BY <1>1, <2>2, <3>1 DEF Insight!Idle, InsightRunType
    <3>2. CASE r = [insightRun[w] EXCEPT !.owner = FALSE]
      BY <1>1, <2>2, <3>2 DEF InsightRunType, InsightIInv, InsightEndsAreEnds
    <3> QED BY <2>2, <3>1, <3>2
  <2>4. /\ insightJob'.state \in {"waiting", "failed"} /\ (insightJob'.state = "failed" => insightLost')
        /\ insightJob' \in [state : {"none", "completed", "failed"} \cup Insight!LiveStates, attempts : Nat]
        /\ (insightLost => insightLost') /\ insightLost' \in BOOLEAN
    <3>1. insightLost \in BOOLEAN /\ insightLost' \in {insightLost, TRUE}
      BY <2>1 DEF InsightIInv, InsightTypes
    <3>2. insightJob \in [state : {"none", "completed", "failed"} \cup Insight!LiveStates, attempts : Nat]
      BY DEF InsightIInv, InsightTypes
    <3>3. insightJob'.state \in {"waiting", "failed"} /\ (insightJob'.state = "failed" => insightLost')
      BY <2>1, <3>2
    <3> QED BY <2>1, <3>1, <3>2, <3>3 DEF Insight!LiveStates
  <2>5. InsightTypes' /\ InsightEndsAreEnds' /\ InsightReadyHasText'
    BY <1>1, <2>1, <2>2, <2>3, <2>4 DEF InsightIInv, InsightTypes, InsightEndsAreEnds, InsightReadyHasText
  <2>6. \A v \in InsightWorkers : ~insightRun'[v].owner
    BY <2>1, <2>3 DEF InsightIInv, InsightOneOwner
  <2>7. InsightOneOwner' /\ InsightPursued'
    BY <2>4, <2>6 DEF InsightOneOwner, InsightPursued, Insight!LiveStates
  <2> QED BY <2>5, <2>7 DEF InsightIInv
<1> QED BY <1>2, <1>3, <1>4, <1>5, <1>6

(* The handler of failed jobs, and the passage of time.                    *)
LEMMA InsightOtherSteps ==
  ASSUME InsightIInv, Insight!RetryExhausted \/ Insight!Promote \/ Insight!GrowOld \/ UNCHANGED Insight!vars
  PROVE  InsightIInv'
<1>1. CASE Insight!RetryExhausted
  BY <1>1 DEF Insight!RetryExhausted, Insight!Row, InsightIInv, InsightTypes, InsightEndsAreEnds, InsightOneOwner, InsightPursued, InsightReadyHasText
<1>2. CASE Insight!Promote
  BY <1>2 DEF Insight!Promote, Insight!LiveStates, InsightIInv, InsightTypes, InsightEndsAreEnds, InsightOneOwner, InsightPursued, InsightPublishing, InsightReadyHasText
<1>3. CASE Insight!GrowOld
  BY <1>3 DEF Insight!GrowOld, InsightIInv, InsightTypes, InsightEndsAreEnds, InsightOneOwner, InsightPursued, InsightPublishing, InsightReadyHasText
<1>4. CASE UNCHANGED Insight!vars
  BY <1>4 DEF Insight!vars, InsightIInv, InsightTypes, InsightEndsAreEnds, InsightOneOwner, InsightPursued, InsightPublishing, InsightReadyHasText
<1> QED BY <1>1, <1>2, <1>3, <1>4

LEMMA InsightInitIInv == ASSUME Insight!Init PROVE InsightIInv
BY DEF Insight!Init, Insight!Idle, InsightRunType, Insight!LiveStates, InsightEnds, InsightIInv, InsightTypes, InsightEndsAreEnds, InsightOneOwner, InsightPursued, InsightReadyHasText

LEMMA InsightNextIInv == ASSUME InsightIInv, [Insight!Next]_(Insight!vars) PROVE InsightIInv'
BY InsightRequestSteps, InsightRunSteps, InsightOtherSteps DEF Insight!Next

LEMMA InsightIInvSuffices == ASSUME InsightIInv PROVE Insight!PendingIsPursued
BY DEF InsightIInv, InsightTypes, InsightPursued, InsightReadyHasText, InsightPublishing, Insight!PendingIsPursued

(* The inductive invariant of the insight queue: a pending row has a job that
   will end it, or a request that will notice, or lost its job in Redis. *)
THEOREM InsightInductive == Insight!Spec => []InsightIInv
<1>1. Insight!Init => InsightIInv
  BY InsightInitIInv
<1>2. InsightIInv /\ [Insight!Next]_(Insight!vars) => InsightIInv'
  BY InsightNextIInv
<1> QED BY <1>1, <1>2, PTL DEF Insight!Spec

(* A pending insight is pursued, for any number of readers, workers and
   attempts. *)
THEOREM InsightIsPursued == Insight!Spec => [](Insight!PendingIsPursued)
<1>1. InsightIInv => Insight!PendingIsPursued
  BY InsightIInvSuffices
<1> QED BY <1>1, InsightInductive, PTL

HIDE DEF insightRow, insightReader, insightJob, insightRun, insightExhausted,
         insightLost

-----------------------------------------------------------------------------
(***************************************************************************)
(* The directory of the champions.                                         *)
(***************************************************************************)
USE DEF directoryFilters, directoryUrl, directoryReady, directoryTail,
        directorySyncing, directoryRanking, directoryDirectory,
        directoryRequests, directoryPatches

-----------------------------------------------------------------------------
LEMMA DirectoryRequestFacts ==
  ASSUME NEW r \in DirectoryRequestType
  PROVE  /\ r.of \in {"ranking", "directory"} /\ r.id \in Nat
         /\ r.of = "ranking" => r.asked \in DirectoryTable
         /\ r.of = "directory" => r.asked \in DirectoryTexts \cup {None}
BY DEF DirectoryRequestType

(* A patch changes the list or the ranking, never both.                    *)
LEMMA DirectoryPatchedFacts ==
  ASSUME DirectoryDefaultAgg \in DirectoryAggs, NEW f \in Directory!Filters, NEW p \in Directory!Patches
  PROVE  /\ Directory!Patched(f, p) \in Directory!Filters
         /\ Directory!Directory(p) => Directory!TableOf(Directory!Patched(f, p)) = Directory!TableOf(f)
         /\ ~Directory!Directory(p) => Directory!Patched(f, p).text = f.text
<1>1. /\ f.agg \in DirectoryAggs /\ f.position \in DirectoryPositions \cup {None} /\ f.text \in DirectoryTexts \cup {None}
      /\ DOMAIN f = {"agg", "position", "text"}
  BY DEF Directory!Filters
<1> DEFINE g == Directory!Patched(f, p)
<1>2. g = [agg |-> g.agg, position |-> g.position, text |-> g.text]
  BY <1>1 DEF Directory!Patched
<1>3. /\ g.agg = IF "agg" \in DOMAIN p THEN p.agg ELSE f.agg
      /\ g.position = IF "position" \in DOMAIN p THEN p.position ELSE f.position
      /\ g.text = IF "text" \in DOMAIN p THEN p.text ELSE f.text
  BY <1>1 DEF Directory!Patched
<1>4. /\ "agg" \in DOMAIN p => p.agg \in DirectoryAggs
      /\ "position" \in DOMAIN p => p.position \in DirectoryPositions \cup {None}
      /\ "text" \in DOMAIN p => p.text \in DirectoryTexts \cup {None} /\ "agg" \notin DOMAIN p /\ "position" \notin DOMAIN p
  BY DEF Directory!Patches
<1> HIDE DEF g
<1>5. g \in Directory!Filters
  BY <1>1, <1>2, <1>3, <1>4 DEF Directory!Filters
<1>6. Directory!Directory(p) => Directory!TableOf(g) = Directory!TableOf(f)
  BY <1>3, <1>4 DEF Directory!Directory, Directory!TableOf
<1>7. ~Directory!Directory(p) => g.text = f.text
  BY <1>3 DEF Directory!Directory
<1> QED BY <1>5, <1>6, <1>7 DEF g

LEMMA DirectoryQueue ==
  ASSUME NEW t \in Seq(Directory!Patches)
  PROVE  /\ t # <<>> => Head(t) \in Directory!Patches /\ Tail(t) \in Seq(Directory!Patches)
         /\ \A p \in Directory!Patches : /\ Append(t, p) \in Seq(Directory!Patches) /\ Append(t, p) # <<>>
                                         /\ t # <<>> => Head(Append(t, p)) = Head(t)
<1>1. t # <<>> => Head(t) \in Directory!Patches /\ Tail(t) \in Seq(Directory!Patches)
  BY HeadTailProperties
<1>2. ASSUME NEW p \in Directory!Patches
      PROVE  /\ Append(t, p) \in Seq(Directory!Patches) /\ Append(t, p) # <<>>
             /\ t # <<>> => Head(Append(t, p)) = Head(t)
  <2>1. /\ Append(t, p) \in Seq(Directory!Patches) /\ Append(t, p) # <<>> /\ Len(Append(t, p)) = Len(t) + 1
        /\ \A i \in 1 .. Len(t) : Append(t, p)[i] = t[i]
    BY AppendProperties
  <2>2. ASSUME t # <<>> PROVE Head(Append(t, p)) = Head(t)
    <3>1. 1 \in 1 .. Len(t)
      BY <2>2, EmptySeq
    <3>2. Append(t, p)[1] = t[1]
      BY <2>1, <3>1
    <3>3. Head(t) = t[1]
      BY <2>2
    <3>4. Head(Append(t, p)) = Append(t, p)[1]
      BY <2>1
    <3> QED BY <3>2, <3>3, <3>4
  <2> QED BY <2>1, <2>2
<1> QED BY <1>1, <1>2

LEMMA DirectoryLoads ==
  ASSUME DirectoryIInv, NEW f \in Directory!Filters
  PROVE  /\ Directory!DirectoryAsked(f) \in DirectoryType /\ Directory!DirectoryAsked(f).pending
         /\ Directory!DirectoryAsked(f).id = directoryDirectory.id + 1
         /\ Directory!RankingAsked(f) \in DirectoryRankingType /\ Directory!RankingAsked(f).pending
         /\ Directory!RankingAsked(f).id = directoryRanking.id + 1
         /\ Directory!RankingCleared \in DirectoryRankingType /\ Directory!RankingCleared.id = directoryRanking.id + 1
         /\ ~Directory!RankingCleared.pending /\ ~Directory!RankingCleared.updating /\ ~Directory!RankingCleared.error
         /\ Directory!RankingCleared.wanted = None /\ Directory!RankingCleared.shown = None
         /\ Directory!DirectoryRequest(f) = [of |-> "directory", id |-> directoryDirectory.id + 1, asked |-> f.text]
         /\ Directory!RankingRequest(f) = [of |-> "ranking", id |-> directoryRanking.id + 1, asked |-> Directory!TableOf(f)]
         /\ Directory!DirectoryRequest(f) \in DirectoryRequestType /\ Directory!RankingRequest(f) \in DirectoryRequestType
<1>1. Directory!TableOf(f) \in DirectoryTable /\ f.text \in DirectoryTexts \cup {None}
  BY DEF Directory!TableOf, DirectoryTable, Directory!Filters
<1>2. directoryDirectory \in DirectoryType /\ directoryRanking \in DirectoryRankingType
  BY DEF DirectoryIInv, DirectoryTypes
<1>3. directoryDirectory.id + 1 \in Nat /\ directoryRanking.id + 1 \in Nat
  BY <1>2 DEF DirectoryType, DirectoryRankingType
<1>4. /\ Directory!DirectoryRequest(f) = [of |-> "directory", id |-> directoryDirectory.id + 1, asked |-> f.text]
      /\ Directory!RankingRequest(f) = [of |-> "ranking", id |-> directoryRanking.id + 1, asked |-> Directory!TableOf(f)]
      /\ Directory!DirectoryRequest(f) \in DirectoryRequestType /\ Directory!RankingRequest(f) \in DirectoryRequestType
  BY <1>1, <1>3 DEF Directory!DirectoryRequest, Directory!RankingRequest, DirectoryRequestType
<1>5. Directory!DirectoryAsked(f) = [shown |-> directoryDirectory.shown, pending |-> TRUE, error |-> FALSE, id |-> directoryDirectory.id + 1]
  <2> DEFINE d == Directory!DirectoryAsked(f)
  <2>1. /\ DOMAIN d = {"shown", "pending", "error", "id"} /\ d.shown = directoryDirectory.shown
        /\ d.pending = TRUE /\ d.error = FALSE /\ d.id = directoryDirectory.id + 1
    BY <1>2, Zenon DEF Directory!DirectoryAsked, DirectoryType
  <2>2. d = [x \in DOMAIN d |-> d[x]]
    BY DEF Directory!DirectoryAsked
  <2> QED BY <2>1, <2>2
<1>6. Directory!RankingAsked(f) = [shown |-> directoryRanking.shown, wanted |-> Directory!TableOf(f), updating |-> (directoryRanking.shown # None),
                         pending |-> TRUE, error |-> FALSE, id |-> directoryRanking.id + 1]
  <2> DEFINE d == Directory!RankingAsked(f)
  <2>1. /\ DOMAIN d = {"shown", "wanted", "updating", "pending", "error", "id"} /\ d.shown = directoryRanking.shown
        /\ d.wanted = Directory!TableOf(f) /\ d.updating = (directoryRanking.shown # None)
        /\ d.pending = TRUE /\ d.error = FALSE /\ d.id = directoryRanking.id + 1
    BY <1>2, Zenon DEF Directory!RankingAsked, DirectoryRankingType
  <2>2. d = [x \in DOMAIN d |-> d[x]]
    BY DEF Directory!RankingAsked
  <2> QED BY <2>1, <2>2
<1>7. Directory!RankingCleared = [shown |-> None, wanted |-> None, updating |-> FALSE,
                        pending |-> FALSE, error |-> FALSE, id |-> directoryRanking.id + 1]
  <2> DEFINE d == Directory!RankingCleared
  <2>1. /\ DOMAIN d = {"shown", "wanted", "updating", "pending", "error", "id"} /\ d.shown = None
        /\ d.wanted = None /\ d.updating = FALSE
        /\ d.pending = FALSE /\ d.error = FALSE /\ d.id = directoryRanking.id + 1
    BY <1>2, Zenon DEF Directory!RankingCleared, DirectoryRankingType
  <2>2. d = [x \in DOMAIN d |-> d[x]]
    BY DEF Directory!RankingCleared
  <2> QED BY <2>1, <2>2
<1>8. Directory!DirectoryAsked(f) \in DirectoryType /\ Directory!DirectoryAsked(f).pending /\ Directory!DirectoryAsked(f).id = directoryDirectory.id + 1
  BY <1>2, <1>3, <1>5 DEF DirectoryType
<1>9. Directory!RankingAsked(f) \in DirectoryRankingType /\ Directory!RankingAsked(f).pending /\ Directory!RankingAsked(f).id = directoryRanking.id + 1
  BY <1>1, <1>2, <1>3, <1>6 DEF DirectoryRankingType
<1>10. /\ Directory!RankingCleared \in DirectoryRankingType /\ Directory!RankingCleared.id = directoryRanking.id + 1
       /\ ~Directory!RankingCleared.pending /\ ~Directory!RankingCleared.updating /\ ~Directory!RankingCleared.error
       /\ Directory!RankingCleared.wanted = None /\ Directory!RankingCleared.shown = None
  BY <1>3, <1>7 DEF DirectoryRankingType
<1> QED BY <1>4, <1>8, <1>9, <1>10

(* An answer arrives.                                                      *)
LEMMA DirectoryRankingArrivesStep ==
  ASSUME DirectoryIInv, NEW r \in directoryRequests, Directory!RankingArrives(r)
  PROVE  DirectoryIInv'
<1>1. /\ r.of = "ranking" /\ directoryRequests' = directoryRequests \ {r}
      /\ UNCHANGED <<directoryFilters, directoryUrl, directoryReady, directoryTail, directorySyncing, directoryDirectory, directoryPatches>>
      /\ r \in DirectoryRequestType /\ r.asked \in DirectoryTable
  BY DirectoryRequestFacts DEF Directory!RankingArrives, DirectoryIInv, DirectoryTypes
<1>2. DirectoryPatchesInTurn /\ directoryReady
  BY DEF DirectoryIInv, DirectoryPatchesInTurn
<1>3. DirectoryIsOfUrl'
  BY <1>1 DEF DirectoryIInv, DirectoryIsOfUrl
<1>4. CASE ~Directory!RankingLatest(r)
  <2>1. directoryRanking' = directoryRanking
    BY <1>4 DEF Directory!RankingArrives
  <2>2. DirectoryTypes' /\ DirectoryPatchesInTurn'
    BY <1>1, <1>2, <2>1 DEF DirectoryIInv, DirectoryTypes, DirectoryPatchesInTurn
  <2>3. DirectoryRankingIsOfUrl'
    BY <1>1, <1>4, <2>1 DEF DirectoryIInv, DirectoryRankingIsOfUrl, Directory!RankingLatest
  <2> QED BY <1>3, <2>2, <2>3 DEF DirectoryIInv
<1>5. CASE Directory!RankingLatest(r)
  <2>1. PICK answered \in BOOLEAN :
          directoryRanking' = [directoryRanking EXCEPT !.shown = IF answered THEN r.asked ELSE directoryRanking.shown,
                        !.error = ~answered, !.wanted = None, !.updating = FALSE, !.pending = FALSE]
    BY <1>5 DEF Directory!RankingArrives
  <2>2. Directory!Rankable(directoryUrl) /\ r.asked = Directory!TableOf(directoryUrl)
    BY <1>1, <1>2, <1>5 DEF DirectoryIInv, DirectoryRankingIsOfUrl, Directory!RankingLatest
  <2>3. /\ directoryRanking' = [shown |-> IF answered THEN r.asked ELSE directoryRanking.shown, wanted |-> None,
                       updating |-> FALSE, pending |-> FALSE, error |-> ~answered, id |-> directoryRanking.id]
    <3>1. directoryRanking \in DirectoryRankingType
      BY DEF DirectoryIInv, DirectoryTypes
    <3>2. /\ DOMAIN directoryRanking' = {"shown", "wanted", "updating", "pending", "error", "id"}
          /\ directoryRanking'.shown = (IF answered THEN r.asked ELSE directoryRanking.shown)
          /\ directoryRanking'.wanted = None /\ directoryRanking'.updating = FALSE
          /\ directoryRanking'.pending = FALSE /\ directoryRanking'.error = ~answered /\ directoryRanking'.id = directoryRanking.id
      BY <2>1, <3>1, Zenon DEF DirectoryRankingType
    <3>3. directoryRanking' = [x \in DOMAIN directoryRanking' |-> directoryRanking'[x]]
      BY <2>1
    <3> QED BY <3>2, <3>3
  <2>4. /\ directoryRanking' \in DirectoryRankingType /\ directoryRanking'.id = directoryRanking.id
        /\ ~directoryRanking'.pending /\ ~directoryRanking'.updating /\ directoryRanking'.wanted = None
        /\ directoryRanking'.error \/ directoryRanking'.shown = Directory!TableOf(directoryUrl)
    BY <1>1, <2>2, <2>3 DEF DirectoryIInv, DirectoryTypes, DirectoryRankingType
  <2>5. DirectoryTypes' /\ DirectoryPatchesInTurn'
    BY <1>1, <1>2, <2>4 DEF DirectoryIInv, DirectoryTypes, DirectoryPatchesInTurn
  <2>6. DirectoryRankingIsOfUrl'
    BY <1>1, <1>2, <2>2, <2>4 DEF DirectoryIInv, DirectoryRankingIsOfUrl
  <2> QED BY <1>3, <2>5, <2>6 DEF DirectoryIInv
<1> QED BY <1>4, <1>5

LEMMA DirectoryArrivesStep ==
  ASSUME DirectoryIInv, NEW r \in directoryRequests, Directory!DirectoryArrives(r)
  PROVE  DirectoryIInv'
<1>1. /\ r.of = "directory" /\ directoryRequests' = directoryRequests \ {r}
      /\ UNCHANGED <<directoryFilters, directoryUrl, directoryReady, directoryTail, directorySyncing, directoryRanking, directoryPatches>>
      /\ r \in DirectoryRequestType /\ r.asked \in DirectoryTexts \cup {None}
  BY DirectoryRequestFacts DEF Directory!DirectoryArrives, DirectoryIInv, DirectoryTypes
<1>2. DirectoryPatchesInTurn /\ directoryReady
  BY DEF DirectoryIInv, DirectoryPatchesInTurn
<1>3. DirectoryRankingIsOfUrl'
  BY <1>1 DEF DirectoryIInv, DirectoryRankingIsOfUrl
<1>4. CASE r.id # directoryDirectory.id
  <2>1. directoryDirectory' = directoryDirectory
    BY <1>4 DEF Directory!DirectoryArrives
  <2>2. DirectoryTypes' /\ DirectoryPatchesInTurn'
    BY <1>1, <1>2, <2>1 DEF DirectoryIInv, DirectoryTypes, DirectoryPatchesInTurn
  <2>3. DirectoryIsOfUrl'
    BY <1>1, <1>4, <2>1 DEF DirectoryIInv, DirectoryIsOfUrl
  <2> QED BY <1>3, <2>2, <2>3 DEF DirectoryIInv
<1>5. CASE r.id = directoryDirectory.id
  <2>1. PICK answered \in BOOLEAN :
          directoryDirectory' = [directoryDirectory EXCEPT !.shown = IF answered THEN [text |-> r.asked] ELSE directoryDirectory.shown,
                          !.error = ~answered, !.pending = FALSE]
    BY <1>5 DEF Directory!DirectoryArrives
  <2>2. r.asked = directoryUrl.text
    BY <1>1, <1>2, <1>5 DEF DirectoryIInv, DirectoryIsOfUrl
  <2>3. directoryDirectory' = [shown |-> IF answered THEN [text |-> r.asked] ELSE directoryDirectory.shown,
                      pending |-> FALSE, error |-> ~answered, id |-> directoryDirectory.id]
    <3>1. directoryDirectory \in DirectoryType
      BY DEF DirectoryIInv, DirectoryTypes
    <3>2. /\ DOMAIN directoryDirectory' = {"shown", "pending", "error", "id"}
          /\ directoryDirectory'.shown = (IF answered THEN [text |-> r.asked] ELSE directoryDirectory.shown)
          /\ directoryDirectory'.pending = FALSE /\ directoryDirectory'.error = ~answered /\ directoryDirectory'.id = directoryDirectory.id
      BY <2>1, <3>1, Zenon DEF DirectoryType
    <3>3. directoryDirectory' = [x \in DOMAIN directoryDirectory' |-> directoryDirectory'[x]]
      BY <2>1
    <3> QED BY <3>2, <3>3
  <2>4. /\ directoryDirectory' \in DirectoryType /\ directoryDirectory'.id = directoryDirectory.id /\ ~directoryDirectory'.pending
        /\ directoryDirectory'.error \/ directoryDirectory'.shown = [text |-> directoryUrl.text]
    BY <1>1, <2>2, <2>3 DEF DirectoryIInv, DirectoryTypes, DirectoryType, DirectoryList
  <2>5. DirectoryTypes' /\ DirectoryPatchesInTurn'
    BY <1>1, <1>2, <2>4 DEF DirectoryIInv, DirectoryTypes, DirectoryPatchesInTurn
  <2>6. DirectoryIsOfUrl'
    BY <1>1, <1>2, <2>2, <2>4 DEF DirectoryIInv, DirectoryIsOfUrl
  <2> QED BY <1>3, <2>5, <2>6 DEF DirectoryIInv
<1> QED BY <1>4, <1>5

(* The page opens, and a patch is queued, assigned and written to the URL. *)
LEMMA DirectoryInitializeStep ==
  ASSUME DirectoryIInv, DirectoryDefaultAgg \in DirectoryAggs, Directory!Initialize
  PROVE  DirectoryIInv'
<1>1. PICK supported \in BOOLEAN :
        LET f == IF supported THEN directoryUrl ELSE [directoryUrl EXCEPT !.agg = DirectoryDefaultAgg, !.position = None] IN
        /\ directoryFilters' = f /\ directoryUrl' = f /\ directoryDirectory' = Directory!DirectoryAsked(f)
        /\ IF Directory!Rankable(f) THEN directoryRanking' = Directory!RankingAsked(f) /\ directoryRequests' = {Directory!DirectoryRequest(f), Directory!RankingRequest(f)}
           ELSE directoryRanking' = directoryRanking /\ directoryRequests' = {Directory!DirectoryRequest(f)}
  BY DEF Directory!Initialize
<1> DEFINE f == IF supported THEN directoryUrl ELSE [directoryUrl EXCEPT !.agg = DirectoryDefaultAgg, !.position = None]
<1>2. f \in Directory!Filters
  BY DEF DirectoryIInv, DirectoryTypes, Directory!Filters
<1> HIDE DEF f
<1>3. /\ directoryFilters' = f /\ directoryUrl' = f /\ directoryDirectory' = Directory!DirectoryAsked(f)
      /\ IF Directory!Rankable(f) THEN directoryRanking' = Directory!RankingAsked(f) /\ directoryRequests' = {Directory!DirectoryRequest(f), Directory!RankingRequest(f)}
         ELSE directoryRanking' = directoryRanking /\ directoryRequests' = {Directory!DirectoryRequest(f)}
      /\ directoryReady' = TRUE /\ UNCHANGED <<directoryTail, directorySyncing, directoryPatches>> /\ ~directoryReady
  BY <1>1 DEF Directory!Initialize, f
<1>4. /\ directoryTail = <<>> /\ ~directorySyncing /\ directoryRanking.id = 0 /\ directoryDirectory.id = 0 /\ ~directoryRanking.pending
      /\ ~directoryRanking.updating /\ directoryRanking.wanted = None /\ directoryRanking.shown = None
  BY <1>3 DEF DirectoryIInv, DirectoryPatchesInTurn
<1>5. DirectoryTypes'
  BY <1>2, <1>3, DirectoryLoads DEF DirectoryIInv, DirectoryTypes
<1>6. DirectoryPatchesInTurn'
  BY <1>2, <1>3, <1>4 DEF DirectoryPatchesInTurn
<1>7. Directory!DirectoryRequest(f) \in directoryRequests' /\ \A r \in directoryRequests' : r \in {Directory!DirectoryRequest(f), Directory!RankingRequest(f)}
  BY <1>3
<1>8. DirectoryIsOfUrl'
  BY <1>2, <1>3, <1>4, <1>7, DirectoryLoads DEF DirectoryIsOfUrl
<1>9. DirectoryRankingIsOfUrl'
  <2>1. CASE Directory!Rankable(f)
    BY <1>2, <1>3, <1>4, <2>1, DirectoryLoads DEF DirectoryRankingIsOfUrl
  <2>2. CASE ~Directory!Rankable(f)
    BY <1>2, <1>3, <1>4, <2>2, DirectoryLoads DEF DirectoryRankingIsOfUrl
  <2> QED BY <2>1, <2>2
<1> QED BY <1>5, <1>6, <1>8, <1>9 DEF DirectoryIInv

LEMMA DirectoryAskStep ==
  ASSUME DirectoryIInv, NEW p \in Directory!Patches, Directory!Ask(p)
  PROVE  DirectoryIInv'
<1>1. /\ directoryTail' = Append(directoryTail, p) /\ directoryPatches' = directoryPatches + 1 /\ directoryReady
      /\ UNCHANGED <<directoryFilters, directoryUrl, directoryReady, directorySyncing, directoryRanking, directoryDirectory, directoryRequests>>
  BY DEF Directory!Ask
<1>2. /\ directoryTail' \in Seq(Directory!Patches) /\ directoryTail' # <<>> /\ (directoryTail # <<>> => Head(directoryTail') = Head(directoryTail))
      /\ directorySyncing => directoryTail # <<>>
  BY <1>1, DirectoryQueue DEF DirectoryIInv, DirectoryTypes, DirectoryPatchesInTurn
<1>3. DirectoryTypes' /\ DirectoryPatchesInTurn'
  BY <1>1, <1>2 DEF DirectoryIInv, DirectoryTypes, DirectoryPatchesInTurn
<1>4. DirectoryRankingIsOfUrl'
  BY <1>1, <1>2 DEF DirectoryIInv, DirectoryRankingIsOfUrl
<1>5. DirectoryIsOfUrl'
  BY <1>1 DEF DirectoryIInv, DirectoryIsOfUrl
<1> QED BY <1>3, <1>4, <1>5 DEF DirectoryIInv

LEMMA DirectoryAssignStep ==
  ASSUME DirectoryIInv, DirectoryDefaultAgg \in DirectoryAggs, Directory!Assign
  PROVE  DirectoryIInv'
<1> DEFINE next == Directory!Patched(directoryFilters, Head(directoryTail))
<1>1. /\ directoryTail # <<>> /\ ~directorySyncing /\ directoryReady /\ directoryUrl = directoryFilters /\ directoryFilters \in Directory!Filters
      /\ UNCHANGED <<directoryUrl, directoryReady, directoryDirectory, directoryRequests, directoryPatches>>
  BY DEF Directory!Assign, DirectoryIInv, DirectoryPatchesInTurn
<1>2. Head(directoryTail) \in Directory!Patches /\ Tail(directoryTail) \in Seq(Directory!Patches)
  BY <1>1, DirectoryQueue DEF DirectoryIInv, DirectoryTypes
<1>3. next \in Directory!Filters
  BY <1>1, <1>2, DirectoryPatchedFacts
<1>4. DirectoryIsOfUrl'
  BY <1>1 DEF DirectoryIInv, DirectoryIsOfUrl
<1>5. CASE next = directoryFilters
  <2>1. directoryTail' = Tail(directoryTail) /\ UNCHANGED <<directoryFilters, directorySyncing, directoryRanking>>
    BY <1>5 DEF Directory!Assign
  <2>2. DirectoryTypes' /\ DirectoryPatchesInTurn'
    BY <1>1, <1>2, <2>1 DEF DirectoryIInv, DirectoryTypes, DirectoryPatchesInTurn
  <2>3. DirectoryRankingIsOfUrl'
    BY <1>1, <2>1 DEF DirectoryIInv, DirectoryRankingIsOfUrl
  <2> QED BY <1>4, <2>2, <2>3 DEF DirectoryIInv
<1>6. CASE next # directoryFilters
  <2>1. /\ directoryFilters' = next /\ directorySyncing' = TRUE /\ directoryTail' = directoryTail
        /\ directoryRanking' = IF ~Directory!Directory(Head(directoryTail)) /\ Directory!Rankable(next) /\ directoryRanking.shown # None
                      THEN [directoryRanking EXCEPT !.wanted = Directory!TableOf(next), !.updating = TRUE]
                      ELSE directoryRanking
    BY <1>6 DEF Directory!Assign
  <2> HIDE DEF next
  <2>2. /\ directoryRanking' \in DirectoryRankingType /\ directoryRanking'.id = directoryRanking.id /\ directoryRanking'.pending = directoryRanking.pending
        /\ directoryRanking'.error = directoryRanking.error /\ directoryRanking'.shown = directoryRanking.shown
        /\ Directory!Directory(Head(directoryTail)) \/ directoryRanking.shown = None =>
             directoryRanking'.updating = directoryRanking.updating /\ directoryRanking'.wanted = directoryRanking.wanted
    <3>1. directoryRanking \in DirectoryRankingType /\ Directory!TableOf(next) \in DirectoryTable
      BY <1>3 DEF DirectoryIInv, DirectoryTypes, Directory!TableOf, DirectoryTable, Directory!Filters
    <3>2. CASE ~Directory!Directory(Head(directoryTail)) /\ Directory!Rankable(next) /\ directoryRanking.shown # None
      <4>1. directoryRanking' = [directoryRanking EXCEPT !.wanted = Directory!TableOf(next), !.updating = TRUE]
        BY <2>1, <3>2
      <4> QED BY <3>1, <3>2, <4>1 DEF DirectoryRankingType
    <3>3. CASE ~(~Directory!Directory(Head(directoryTail)) /\ Directory!Rankable(next) /\ directoryRanking.shown # None)
      BY <2>1, <3>1, <3>3
    <3> QED BY <3>2, <3>3
  <2>3. DirectoryTypes'
    BY <1>1, <1>3, <2>1, <2>2 DEF DirectoryIInv, DirectoryTypes
  <2>4. DirectoryPatchesInTurn'
    BY <1>1, <1>3, <2>1 DEF DirectoryPatchesInTurn, next
  <2>5. DirectoryRankingIsOfUrl'
    <3>1. CASE Directory!Rankable(directoryUrl)
      BY <1>1, <2>1, <2>2, <3>1 DEF DirectoryIInv, DirectoryRankingIsOfUrl
    <3>2. CASE ~Directory!Rankable(directoryUrl)
      BY <1>1, <2>1, <2>2, <3>2 DEF DirectoryIInv, DirectoryRankingIsOfUrl
    <3> QED BY <3>1, <3>2
  <2> QED BY <1>4, <2>3, <2>4, <2>5 DEF DirectoryIInv
<1> QED BY <1>5, <1>6

LEMMA DirectorySyncedStep ==
  ASSUME DirectoryIInv, DirectoryDefaultAgg \in DirectoryAggs, Directory!Synced
  PROVE  DirectoryIInv'
<1>1. /\ directorySyncing /\ directorySyncing' = FALSE /\ directoryTail' = Tail(directoryTail) /\ directoryUrl' = directoryFilters
      /\ UNCHANGED <<directoryFilters, directoryReady, directoryPatches>>
  BY DEF Directory!Synced
<1>2. directoryReady /\ directoryTail # <<>> /\ directoryFilters \in Directory!Filters /\ directoryFilters = Directory!Patched(directoryUrl, Head(directoryTail)) /\ directoryUrl \in Directory!Filters
  BY <1>1 DEF DirectoryIInv, DirectoryTypes, DirectoryPatchesInTurn
<1>3. Head(directoryTail) \in Directory!Patches /\ Tail(directoryTail) \in Seq(Directory!Patches)
  BY <1>2, DirectoryQueue DEF DirectoryIInv, DirectoryTypes
<1>4. /\ Directory!Directory(Head(directoryTail)) => Directory!TableOf(directoryFilters) = Directory!TableOf(directoryUrl) /\ (Directory!Rankable(directoryFilters) <=> Directory!Rankable(directoryUrl))
      /\ ~Directory!Directory(Head(directoryTail)) => directoryFilters.text = directoryUrl.text
  BY <1>2, <1>3, DirectoryPatchedFacts DEF Directory!TableOf, Directory!Rankable
<1>5. /\ DirectoryPatchesInTurn'
      /\ directoryFilters' \in Directory!Filters /\ directoryUrl' \in Directory!Filters /\ directoryTail' \in Seq(Directory!Patches) /\ directorySyncing' \in BOOLEAN
  BY <1>1, <1>2, <1>3 DEF DirectoryPatchesInTurn
<1>6. \A r \in directoryRequests : r \in DirectoryRequestType
  BY DEF DirectoryIInv, DirectoryTypes
<1>7. CASE Directory!Directory(Head(directoryTail))
  <2> DEFINE request == Directory!DirectoryRequest(directoryFilters)
  <2>1. directoryDirectory' = Directory!DirectoryAsked(directoryFilters) /\ directoryRequests' = directoryRequests \cup {request} /\ directoryRanking' = directoryRanking
    BY <1>7 DEF Directory!Synced
  <2>2. /\ directoryDirectory' \in DirectoryType /\ directoryDirectory'.pending /\ directoryDirectory'.id = directoryDirectory.id + 1
        /\ request \in DirectoryRequestType /\ request.of = "directory" /\ request.id = directoryDirectory'.id
        /\ request.asked = directoryFilters.text
    BY <1>2, <2>1, DirectoryLoads
  <2> HIDE DEF request
  <2>3. DirectoryTypes'
    BY <1>1, <1>5, <2>1, <2>2 DEF DirectoryIInv, DirectoryTypes
  <2>4. DirectoryIsOfUrl'
    <3>1. \A r \in directoryRequests : r.of = "directory" => r.id \in Nat /\ directoryDirectory.id \in Nat /\ r.id <= directoryDirectory.id
      BY <1>6, DirectoryRequestFacts DEF DirectoryIInv, DirectoryTypes, DirectoryIsOfUrl, DirectoryType
    <3> QED BY <1>1, <2>1, <2>2, <3>1 DEF DirectoryIsOfUrl, DirectoryType
  <2>5. DirectoryRankingIsOfUrl'
    <3>1. \A r \in directoryRequests' : r.of = "ranking" => r \in directoryRequests
      BY <2>1, <2>2
    <3>2. \A r \in directoryRequests : r \in directoryRequests'
      BY <2>1
    <3>3. Directory!Rankable(directoryUrl)' <=> Directory!Rankable(directoryUrl)
      BY <1>1, <1>4, <1>7 DEF Directory!Rankable
    <3>4. Directory!TableOf(directoryUrl)' = Directory!TableOf(directoryUrl)
      BY <1>1, <1>4, <1>7 DEF Directory!TableOf
    <3>5. CASE Directory!Rankable(directoryUrl)
      BY <1>1, <1>2, <1>7, <2>1, <3>1, <3>2, <3>3, <3>4, <3>5 DEF DirectoryIInv, DirectoryRankingIsOfUrl
    <3>6. CASE ~Directory!Rankable(directoryUrl)
      BY <1>1, <1>2, <1>7, <2>1, <3>1, <3>2, <3>3, <3>4, <3>6 DEF DirectoryIInv, DirectoryRankingIsOfUrl
    <3> QED BY <3>5, <3>6
  <2> QED BY <1>5, <2>3, <2>4, <2>5 DEF DirectoryIInv
<1>8. CASE ~Directory!Directory(Head(directoryTail))
  <2>1. /\ directoryDirectory' = directoryDirectory
        /\ IF Directory!Rankable(directoryFilters)
           THEN directoryRanking' = Directory!RankingAsked(directoryFilters) /\ directoryRequests' = directoryRequests \cup {Directory!RankingRequest(directoryFilters)}
           ELSE directoryRanking' = Directory!RankingCleared /\ directoryRequests' = directoryRequests
    BY <1>8 DEF Directory!Synced
  <2>2. /\ Directory!RankingRequest(directoryFilters) \in DirectoryRequestType /\ directoryRanking' \in DirectoryRankingType
        /\ Directory!RankingRequest(directoryFilters).of = "ranking" /\ Directory!RankingRequest(directoryFilters).id = directoryRanking'.id
        /\ Directory!RankingRequest(directoryFilters).asked = Directory!TableOf(directoryFilters) /\ directoryRanking'.id = directoryRanking.id + 1
        /\ (Directory!Rankable(directoryFilters) => directoryRanking'.pending)
        /\ (~Directory!Rankable(directoryFilters) => /\ ~directoryRanking'.pending /\ ~directoryRanking'.updating
                                                     /\ directoryRanking'.wanted = None /\ directoryRanking'.shown = None)
    BY <1>2, <2>1, DirectoryLoads
  <2>3. DirectoryTypes'
    BY <1>1, <1>5, <2>1, <2>2 DEF DirectoryIInv, DirectoryTypes
  <2>4. DirectoryIsOfUrl'
    <3>1. /\ \A r \in directoryRequests' : r.of = "directory" => r \in directoryRequests
          /\ \A r \in directoryRequests : r \in directoryRequests'
      BY <2>1, <2>2
    <3> QED BY <1>1, <1>2, <1>4, <1>8, <2>1, <3>1 DEF DirectoryIInv, DirectoryIsOfUrl
  <2>5. DirectoryRankingIsOfUrl'
    <3>1. /\ \A r \in directoryRequests : r.of = "ranking" => r.id \in Nat /\ r.id <= directoryRanking.id
          /\ directoryRanking.id \in Nat /\ Directory!TableOf(directoryUrl)' = Directory!TableOf(directoryFilters) /\ (Directory!Rankable(directoryUrl)' <=> Directory!Rankable(directoryFilters))
      BY <1>1, <1>6, DirectoryRequestFacts DEF DirectoryIInv, DirectoryTypes, DirectoryRankingIsOfUrl, DirectoryRankingType, Directory!TableOf, Directory!Rankable
    <3>2. CASE Directory!Rankable(directoryFilters)
      BY <1>1, <2>1, <2>2, <3>1, <3>2 DEF DirectoryRankingIsOfUrl
    <3>3. CASE ~Directory!Rankable(directoryFilters)
      BY <1>1, <2>1, <2>2, <3>1, <3>3 DEF DirectoryRankingIsOfUrl
    <3> QED BY <3>2, <3>3
  <2> QED BY <1>5, <2>3, <2>4, <2>5 DEF DirectoryIInv
<1> QED BY <1>7, <1>8

LEMMA DirectoryInitIInv == ASSUME Directory!Init PROVE DirectoryIInv
<1>1. /\ directoryFilters = None /\ directoryUrl \in Directory!Filters /\ directoryReady = FALSE /\ directoryTail = <<>> /\ directorySyncing = FALSE
      /\ directoryRanking = [shown |-> None, wanted |-> None, updating |-> FALSE, pending |-> FALSE,
                    error |-> FALSE, id |-> 0]
      /\ directoryDirectory = [shown |-> None, pending |-> FALSE, error |-> FALSE, id |-> 0]
      /\ directoryRequests = {} /\ directoryPatches = 0
  BY DEF Directory!Init
<1>2. DirectoryTypes
  <2>1. directoryRanking \in DirectoryRankingType /\ directoryDirectory \in DirectoryType
    BY <1>1 DEF DirectoryRankingType, DirectoryType
  <2>2. directoryTail \in Seq(Directory!Patches)
    BY <1>1, EmptySeq
  <2> QED BY <1>1, <2>1, <2>2 DEF DirectoryTypes
<1>3. DirectoryPatchesInTurn
  BY <1>1 DEF DirectoryPatchesInTurn
<1> QED BY <1>1, <1>2, <1>3 DEF DirectoryIInv, DirectoryRankingIsOfUrl, DirectoryIsOfUrl

LEMMA DirectoryNextIInv == ASSUME DirectoryIInv, Directory!ConstantsAssumption, [Directory!Next]_(Directory!vars) PROVE DirectoryIInv'
<1>1. CASE UNCHANGED Directory!vars
  BY <1>1 DEF Directory!vars, DirectoryIInv, DirectoryTypes, DirectoryPatchesInTurn, DirectoryRankingIsOfUrl, DirectoryIsOfUrl
<1>2. CASE Directory!Next
  BY <1>2, DirectoryRankingArrivesStep, DirectoryArrivesStep, DirectoryInitializeStep, DirectoryAskStep, DirectoryAssignStep, DirectorySyncedStep
     DEF Directory!Next, Directory!ConstantsAssumption
<1> QED BY <1>1, <1>2

LEMMA DirectoryIInvSuffices == ASSUME DirectoryIInv PROVE Directory!SettledDirectoryIsConsistent
<1> SUFFICES ASSUME directoryReady, directoryTail = <<>>, directoryRequests = {}
             PROVE /\ directoryUrl = directoryFilters
                   /\ ~directoryRanking.pending /\ ~directoryRanking.updating /\ directoryRanking.wanted = None
                   /\ directoryRanking.error \/ directoryRanking.shown = (IF Directory!Rankable(directoryFilters) THEN Directory!TableOf(directoryFilters) ELSE None)
                   /\ ~Directory!Rankable(directoryFilters) => directoryRanking.shown = None
                   /\ ~directoryDirectory.pending
                   /\ directoryDirectory.error \/ directoryDirectory.shown = [text |-> directoryFilters.text]
  BY DEF Directory!SettledDirectoryIsConsistent
<1>1. ~directorySyncing /\ directoryUrl = directoryFilters
  BY DEF DirectoryIInv, DirectoryPatchesInTurn
<1>2. ~directoryDirectory.pending /\ (directoryDirectory.error \/ directoryDirectory.shown = [text |-> directoryFilters.text])
  BY <1>1 DEF DirectoryIInv, DirectoryIsOfUrl
<1> QED BY <1>1, <1>2 DEF DirectoryIInv, DirectoryRankingIsOfUrl

(* The inductive invariant of the directory: the latest requests are about the
   filters of the URL, and the patches of the URL are applied in turn. *)
THEOREM DirectoryInductive == ASSUME Directory!ConstantsAssumption PROVE Directory!Spec => []DirectoryIInv
<1>1. Directory!Init => DirectoryIInv
  BY DirectoryInitIInv
<1>2. DirectoryIInv /\ [Directory!Next]_(Directory!vars) => DirectoryIInv'
  BY DirectoryNextIInv
<1> QED BY <1>1, <1>2, PTL DEF Directory!Spec

(* A directory at rest shows what its filters and its URL ask, for any number
   of filters and patches. *)
THEOREM DirectorySettles == ASSUME Directory!ConstantsAssumption PROVE Directory!Spec => [](Directory!SettledDirectoryIsConsistent)
<1>1. DirectoryIInv => Directory!SettledDirectoryIsConsistent
  BY DirectoryIInvSuffices
<1> QED BY <1>1, DirectoryInductive, PTL

HIDE DEF directoryFilters, directoryUrl, directoryReady, directoryTail,
         directorySyncing, directoryRanking, directoryDirectory,
         directoryRequests, directoryPatches

-----------------------------------------------------------------------------
(***************************************************************************)
(* The page of a player.                                                   *)
(***************************************************************************)
USE DEF playerRoute, playerMounted, playerProfile, playerMatches,
        playerWorking, playerPolling, playerRefreshing, playerPlaystyle,
        playerPlaystylePending, playerPlaystyleId, playerFailed, playerTimers,
        playerCalls, playerActions, playerPolls, playerAnswers

(* The cardinalities of the instance are those of the library.             *)
LEMMA PlayerSameCardinality ==
  ASSUME NEW S
  PROVE  Player!Cardinality(S) = Cardinality(S)
BY Zenon DEF Player!Cardinality, Cardinality

LEMMA PlayerAskedIs ==
  /\ PlayerAsked.step = "playstyle" /\ PlayerAsked.id = playerPlaystyleId /\ PlayerAsked.player = playerRoute
  /\ \A then : Player!MatchesCall(then).step # "playstyle"
  /\ \A step, id, then : Player!Call(step, id, then).step = step
BY DEF PlayerAsked, Player!Call, Player!MatchesCall

\* A step of the rest of the page.
LEMMA PlayerOthersKeep ==
  ASSUME PlayerIInv, UNCHANGED <<playerRoute, playerPlaystyle, playerPlaystylePending, playerPlaystyleId, playerFailed>>, playerMounted' => playerMounted,
         playerTimers' = playerTimers \/ (playerTimers' = {} /\ ~playerMounted'),
         \A c : c.step = "playstyle" => (c \in playerCalls' <=> c \in playerCalls)
  PROVE  PlayerIInv'
<1>1. PlayerAsked' = PlayerAsked /\ (PlayerAsked \in playerCalls' <=> PlayerAsked \in playerCalls)
  BY PlayerAskedIs DEF PlayerAsked, Player!Call
<1>2. PlayerRequests'
  BY <1>1 DEF PlayerIInv, PlayerRequests
<1> QED BY <1>1, <1>2 DEF PlayerIInv

\* A load of the playstyle.
LEMMA PlayerLoadsStart ==
  ASSUME PlayerIInv, NEW rest, Player!LoadPlaystyle(rest), UNCHANGED playerRoute, rest \subseteq playerCalls
  PROVE  PlayerIInv'
<1>1. /\ playerTimers' = {} /\ playerPlaystyleId' = playerPlaystyleId + 1 /\ playerPlaystyle' = None
      /\ playerCalls' = rest \cup {PlayerAsked'} /\ playerPlaystyleId \in Nat
  BY DEF Player!LoadPlaystyle, PlayerAsked, Player!Call, PlayerIInv
<1>2. PlayerAsked'.id = playerPlaystyleId'
  BY PlayerAskedIs DEF PlayerAsked, Player!Call
<1>3. PlayerRequests'
  BY <1>1, <1>2 DEF PlayerIInv, PlayerRequests
<1> QED BY <1>1, <1>3 DEF PlayerIInv

LEMMA PlayerArrives ==
  ASSUME PlayerIInv, NEW c \in playerCalls, Player!PlaystyleArrives(c)
  PROVE  PlayerIInv'
<1>1. /\ c.step = "playstyle" /\ playerCalls' = playerCalls \ {c} /\ UNCHANGED <<playerRoute, playerMounted, playerPlaystyleId>>
      /\ PlayerAsked' = PlayerAsked
  BY DEF Player!PlaystyleArrives, Player!pageVars, Player!styleVars, PlayerAsked, Player!Call
<1>2. PlayerRequests'
  BY <1>1 DEF PlayerIInv, PlayerRequests
<1>3. CASE ~Player!PlaystyleLatest(c)
  <2>1. UNCHANGED Player!styleVars
    BY <1>3 DEF Player!PlaystyleArrives
  <2>2. PlayerAsked # c
    BY <1>3, PlayerAskedIs DEF Player!PlaystyleLatest
  <2> QED BY <1>1, <1>2, <2>1, <2>2 DEF PlayerIInv, Player!styleVars
<1>4. CASE Player!PlaystyleLatest(c)
  <2>1. c = PlayerAsked /\ c.player = playerRoute /\ playerTimers = {}
    BY <1>1, <1>4, PlayerAskedIs DEF PlayerIInv, PlayerRequests, Player!PlaystyleLatest
  <2>2. c.id = playerPlaystyleId /\ playerPlaystylePending' = FALSE
    BY <1>4 DEF Player!PlaystyleArrives, Player!PlaystyleLatest
  <2>3. CASE /\ playerPlaystyle' = [player |-> c.player, status |-> "PENDING"]
             /\ playerTimers' = playerTimers \cup {c.id}
    BY <1>1, <1>2, <2>1, <2>2, <2>3 DEF PlayerIInv
  <2>4. CASE /\ \E status \in {"READY", "UNAVAILABLE"} : playerPlaystyle' = [player |-> c.player, status |-> status]
             /\ UNCHANGED playerTimers
    BY <1>1, <1>2, <2>1, <2>2, <2>4 DEF PlayerIInv
  <2>5. CASE playerFailed' = TRUE /\ UNCHANGED <<playerPlaystyle, playerTimers>>
    BY <1>1, <1>2, <2>1, <2>2, <2>5 DEF PlayerIInv
  <2> QED BY <1>4, <2>3, <2>4, <2>5 DEF Player!PlaystyleArrives
<1> QED BY <1>3, <1>4

LEMMA PlayerFires ==
  ASSUME PlayerIInv, NEW id \in playerTimers, Player!TimerFires(id)
  PROVE  PlayerIInv'
<1>1. id = playerPlaystyleId /\ playerCalls' = playerCalls \cup {PlayerAsked} /\ playerTimers' = {} /\ PlayerAsked' = PlayerAsked
  BY DEF Player!TimerFires, PlayerIInv, PlayerAsked, Player!Call, Player!pageVars
<1>2. UNCHANGED <<playerRoute, playerMounted, playerPlaystyle, playerPlaystylePending, playerPlaystyleId, playerFailed>>
  BY DEF Player!TimerFires, Player!pageVars
<1>3. PlayerRequests'
  BY <1>1, <1>2, PlayerAskedIs DEF PlayerIInv, PlayerRequests
<1> QED BY <1>1, <1>2, <1>3 DEF PlayerIInv

LEMMA PlayerVisits ==
  ASSUME PlayerIInv, NEW p \in PlayerPlayers, Player!Visit(p)
  PROVE  PlayerIInv'
<1> DEFINE other == [Player!Call("profile", 0, "load") EXCEPT !.player = p]
<1>1. /\ playerTimers' = {} /\ playerPlaystyleId' = playerPlaystyleId + 1 /\ playerPlaystyle' = None /\ playerPlaystyleId \in Nat
      /\ playerRoute' = p
  BY DEF Player!Visit, PlayerIInv
<1>2. PlayerAsked' = [Player!Call("playstyle", playerPlaystyleId + 1, None) EXCEPT !.player = p]
  BY <1>1 DEF PlayerAsked, Player!Call
<1>3. playerCalls' = playerCalls \cup {PlayerAsked', other}
  BY <1>2 DEF Player!Visit
<1>4. other.step = "profile" /\ PlayerAsked'.id = playerPlaystyleId'
  BY <1>1 DEF PlayerAsked, Player!Call
<1> HIDE DEF other
<1>5. PlayerRequests'
  BY <1>1, <1>3, <1>4 DEF PlayerIInv, PlayerRequests
<1> QED BY <1>1, <1>3, <1>5 DEF PlayerIInv

\* Matches, profile, status and refresh: a step of these either leaves the
\* playstyle alone or loads it again.
LEMMA PlayerRests ==
  ASSUME PlayerIInv, NEW c \in playerCalls,
         Player!MatchesArrive(c) \/ Player!ProfileArrives(c) \/ Player!StatusArrives(c) \/ Player!RefreshArrives(c)
  PROVE  PlayerIInv'
<1>1. c.step # "playstyle" /\ UNCHANGED <<playerRoute, playerMounted>>
  BY DEF Player!MatchesArrive, Player!ProfileArrives, Player!StatusArrives, Player!RefreshArrives, Player!pageVars
<1>2. ASSUME UNCHANGED Player!styleVars,
             \/ playerCalls' = playerCalls \ {c}
             \/ \E then : playerCalls' = (playerCalls \ {c}) \cup {Player!MatchesCall(then)}
             \/ \E step, id, then : step # "playstyle" /\ playerCalls' = (playerCalls \ {c}) \cup {Player!Call(step, id, then)}
      PROVE  PlayerIInv'
  <2>1. \A d : d.step = "playstyle" => (d \in playerCalls' <=> d \in playerCalls)
    BY <1>1, <1>2, PlayerAskedIs
  <2> QED BY <1>1, <1>2, <2>1, PlayerOthersKeep DEF Player!styleVars
<1>3. ASSUME Player!LoadPlaystyle(playerCalls \ {c})
      PROVE  PlayerIInv'
  BY <1>1, <1>3, PlayerLoadsStart
<1>4. CASE Player!MatchesArrive(c)
  <2>1. \/ UNCHANGED Player!styleVars /\ playerCalls' = playerCalls \ {c}
        \/ UNCHANGED Player!styleVars /\ \E then : playerCalls' = (playerCalls \ {c}) \cup {Player!MatchesCall(then)}
        \/ UNCHANGED Player!styleVars /\ playerCalls' = (playerCalls \ {c}) \cup {Player!Call("profile", 0, "refreshed")}
        \/ Player!LoadPlaystyle(playerCalls \ {c})
    BY <1>4 DEF Player!MatchesArrive, Player!NoPlaystyle
  <2>2. "profile" # "playstyle"
    OBVIOUS
  <2>3. CASE UNCHANGED Player!styleVars /\ playerCalls' = (playerCalls \ {c}) \cup {Player!Call("profile", 0, "refreshed")}
    BY <1>2, <2>2, <2>3
  <2> QED BY <1>2, <1>3, <2>1, <2>3
<1>5. CASE Player!ProfileArrives(c)
  <2>1. CASE c.then = "load"
    BY <1>2, <1>5, <2>1 DEF Player!ProfileArrives, Player!NoPlaystyle
  <2>2. CASE c.then # "load"
    BY <1>2, <1>3, <1>5, <2>2 DEF Player!ProfileArrives, Player!NoPlaystyle
  <2> QED BY <2>1, <2>2
<1>6. CASE Player!StatusArrives(c)
  <2>1. \/ playerCalls' = playerCalls \ {c}
        \/ \E then : playerCalls' = (playerCalls \ {c}) \cup {Player!MatchesCall(then)}
    BY <1>6 DEF Player!StatusArrives
  <2> QED BY <1>2, <1>6, <2>1 DEF Player!StatusArrives
<1>7. CASE Player!RefreshArrives(c)
  BY <1>2, <1>7 DEF Player!RefreshArrives
<1> QED BY <1>4, <1>5, <1>6, <1>7

LEMMA PlayerUsers ==
  ASSUME PlayerIInv, Player!PollTick \/ Player!Refresh \/ Player!SetQueueCategory \/ Player!Unmount
  PROVE  PlayerIInv'
<1>1. /\ UNCHANGED <<playerRoute, playerPlaystyle, playerPlaystylePending, playerPlaystyleId, playerFailed>> /\ (playerMounted' => playerMounted)
      /\ playerTimers' = playerTimers \/ (playerTimers' = {} /\ ~playerMounted')
  BY DEF Player!PollTick, Player!Refresh, Player!SetQueueCategory, Player!Unmount, Player!styleVars, Player!pageVars
<1>2. \/ playerCalls' = playerCalls
      \/ \E then : playerCalls' = playerCalls \cup {Player!MatchesCall(then)}
      \/ \E step, id, then : step # "playstyle" /\ playerCalls' = playerCalls \cup {Player!Call(step, id, then)}
  <2>1. "status" # "playstyle" /\ "refresh" # "playstyle"
    OBVIOUS
  <2> QED BY <2>1 DEF Player!PollTick, Player!Refresh, Player!SetQueueCategory, Player!Unmount
<1>3. \A d : d.step = "playstyle" => (d \in playerCalls' <=> d \in playerCalls)
  BY <1>2, PlayerAskedIs
<1> QED BY <1>1, <1>3, PlayerOthersKeep

LEMMA PlayerInitIInv ==
  ASSUME Player!Init
  PROVE  PlayerIInv
<1>1. /\ playerPlaystyleId = 1 /\ playerTimers = {} /\ playerPlaystyle = None
      /\ playerCalls = {PlayerAsked, Player!Call("profile", 0, "load")}
  BY DEF Player!Init, PlayerAsked
<1>2. PlayerRequests
  BY <1>1, PlayerAskedIs DEF PlayerRequests
<1> QED BY <1>1, <1>2 DEF PlayerIInv

LEMMA PlayerNextIInv ==
  ASSUME PlayerIInv, [Player!Next]_(Player!vars)
  PROVE  PlayerIInv'
<1>1. CASE UNCHANGED Player!vars
  BY <1>1, PlayerOthersKeep DEF Player!vars
<1>2. CASE Player!Next
  BY <1>2, PlayerArrives, PlayerFires, PlayerVisits, PlayerRests, PlayerUsers DEF Player!Next
<1> QED BY <1>1, <1>2

LEMMA PlayerIInvSuffices ==
  ASSUME PlayerIInv
  PROVE  Player!PlaystyleIsPursued
<1> DEFINE asking == {c \in playerCalls : c.step = "playstyle" /\ c.id = playerPlaystyleId}
           waiting == playerTimers \cap {playerPlaystyleId}
<1>1. asking = IF PlayerAsked \in playerCalls THEN {PlayerAsked} ELSE {}
  BY PlayerAskedIs DEF PlayerIInv, PlayerRequests
<1>2. waiting = playerTimers /\ waiting \in {{}, {playerPlaystyleId}} /\ (waiting = {} \/ asking = {})
  BY <1>1 DEF PlayerIInv
<1>3. Cardinality(asking) + Cardinality(waiting) =< 1
  <2>1. asking = {} \/ asking = {PlayerAsked}
    BY <1>1
  <2>2. Cardinality({}) = 0 /\ Cardinality({PlayerAsked}) = 1 /\ Cardinality({playerPlaystyleId}) = 1
    BY FS_EmptySet, FS_Singleton
  <2> HIDE DEF asking, waiting
  <2>3. CASE waiting = {}
    BY <2>1, <2>2, <2>3
  <2>4. CASE asking = {}
    BY <1>2, <2>2, <2>4
  <2> QED BY <1>2, <2>3, <2>4
<1> QED BY <1>1, <1>2, <1>3, PlayerSameCardinality DEF PlayerIInv, Player!PlaystyleIsPursued

(* The inductive invariant of the player page: the latest load of a playstyle
   has one request or one timer, and it is for the player of the route. *)
THEOREM PlayerInductive == Player!Spec => []PlayerIInv
<1>1. Player!Init => PlayerIInv
  BY PlayerInitIInv
<1>2. PlayerIInv /\ [Player!Next]_(Player!vars) => PlayerIInv'
  BY PlayerNextIInv
<1> QED BY <1>1, <1>2, PTL DEF Player!Spec

(* For any players and order of answers, one chain pursues the playstyle of
   the player of the route while the page says that it is pending. *)
THEOREM PlayerIsPursued == Player!Spec => [](Player!PlaystyleIsPursued)
<1>1. PlayerIInv => Player!PlaystyleIsPursued
  BY PlayerIInvSuffices
<1> QED BY <1>1, PlayerInductive, PTL

HIDE DEF playerRoute, playerMounted, playerProfile, playerMatches,
         playerWorking, playerPolling, playerRefreshing, playerPlaystyle,
         playerPlaystylePending, playerPlaystyleId, playerFailed, playerTimers,
         playerCalls, playerActions, playerPolls, playerAnswers

-----------------------------------------------------------------------------
(* A behaviour is of one part from its first state on.                     *)

LEMMA PartStays ==
  ASSUME [Next]_vars
  PROVE  part' = part
BY DEF Next, vars, Rest3, Rest4, Rest5, Rest6, Rest8, Rest9, Rest10, Rest11, Rest12,
       Rest15, Rest16

-----------------------------------------------------------------------------
(* The inductive invariant of each part, in the behaviours of Services.    *)

LEMMA StepsOfCache ==
  ASSUME [Next]_vars, part = "cache"
  PROVE  [Cache!Next]_(Cache!vars)
BY DEF Next, vars, Cache!vars

LEMMA CacheKept == Spec => [](part = "cache" => Cache!IInv)
<1>1. Init => (part = "cache" => Cache!IInv)
  BY CacheInitIInv, ServicesAssumption DEF Init
<1>2. (part = "cache" => Cache!IInv) /\ [Next]_vars => (part = "cache" => Cache!IInv)'
  <2> SUFFICES ASSUME part = "cache" => Cache!IInv, [Next]_vars, part' = "cache"
               PROVE  Cache!IInv'
    BY Zenon
  <2>1. part = "cache" /\ [Cache!Next]_(Cache!vars)
    BY PartStays, StepsOfCache
  <2> QED BY <2>1, CacheNextIInv, ServicesAssumption
<1> QED BY <1>1, <1>2, PTL DEF Spec

LEMMA StepsOfNames ==
  ASSUME [Next]_vars, part = "names"
  PROVE  [Names!Next]_(Names!vars)
BY DEF Next, vars, Names!vars

LEMMA NamesKept == Spec => [](part = "names" => NamesIInv)
<1>1. Init => (part = "names" => NamesIInv)
  BY NamesInitIInv, ServicesAssumption DEF Init
<1>2. (part = "names" => NamesIInv) /\ [Next]_vars => (part = "names" => NamesIInv)'
  <2> SUFFICES ASSUME part = "names" => NamesIInv, [Next]_vars, part' = "names"
               PROVE  NamesIInv'
    BY Zenon
  <2>1. part = "names" /\ [Names!Next]_(Names!vars)
    BY PartStays, StepsOfNames
  <2> QED BY <2>1, NamesNextIInv, ServicesAssumption
<1> QED BY <1>1, <1>2, PTL DEF Spec

LEMMA StepsOfRefresh ==
  ASSUME [Next]_vars, part = "refresh"
  PROVE  [Refresh!Next]_(Refresh!vars)
BY DEF Next, vars, Refresh!vars

LEMMA RefreshKept == Spec => [](part = "refresh" => RefreshIInv)
<1>1. Init => (part = "refresh" => RefreshIInv)
  BY RefreshInitIInv, ServicesAssumption DEF Init
<1>2. (part = "refresh" => RefreshIInv) /\ [Next]_vars => (part = "refresh" => RefreshIInv)'
  <2> SUFFICES ASSUME part = "refresh" => RefreshIInv, [Next]_vars, part' = "refresh"
               PROVE  RefreshIInv'
    BY Zenon
  <2>1. part = "refresh" /\ [Refresh!Next]_(Refresh!vars)
    BY PartStays, StepsOfRefresh
  <2> QED BY <2>1, RefreshNextIInv, ServicesAssumption
<1> QED BY <1>1, <1>2, PTL DEF Spec

LEMMA StepsOfTimeline ==
  ASSUME [Next]_vars, part = "timeline"
  PROVE  [Timeline!Next]_(Timeline!vars)
BY DEF Next, vars, Timeline!vars, Timeline!matchVars, Timeline!rowVars

LEMMA TimelineKept == Spec => [](part = "timeline" => Timeline!IInv)
<1>1. Init => (part = "timeline" => Timeline!IInv)
  BY TimelineInitIInv, ServicesAssumption DEF Init
<1>2. (part = "timeline" => Timeline!IInv) /\ [Next]_vars => (part = "timeline" => Timeline!IInv)'
  <2> SUFFICES ASSUME part = "timeline" => Timeline!IInv, [Next]_vars, part' = "timeline"
               PROVE  Timeline!IInv'
    BY Zenon
  <2>1. part = "timeline" /\ [Timeline!Next]_(Timeline!vars)
    BY PartStays, StepsOfTimeline
  <2> QED BY <2>1, TimelineNextIInv, ServicesAssumption
<1> QED BY <1>1, <1>2, PTL DEF Spec

LEMMA StepsOfDetail ==
  ASSUME [Next]_vars, part = "detail"
  PROVE  [Detail!Next]_(Detail!vars)
BY DEF Next, vars, Detail!vars

LEMMA DetailKept == Spec => [](part = "detail" => DetailIInv)
<1>1. Init => (part = "detail" => DetailIInv)
  BY DetailInitIInv, ServicesAssumption DEF Init
<1>2. (part = "detail" => DetailIInv) /\ [Next]_vars => (part = "detail" => DetailIInv)'
  <2> SUFFICES ASSUME part = "detail" => DetailIInv, [Next]_vars, part' = "detail"
               PROVE  DetailIInv'
    BY Zenon
  <2>1. part = "detail" /\ [Detail!Next]_(Detail!vars)
    BY PartStays, StepsOfDetail
  <2> QED BY <2>1, DetailNextIInv, ServicesAssumption
<1> QED BY <1>1, <1>2, PTL DEF Spec

LEMMA StepsOfDirectory ==
  ASSUME [Next]_vars, part = "directory"
  PROVE  [Directory!Next]_(Directory!vars)
BY DEF Next, vars, Directory!vars

LEMMA DirectoryKept == Spec => [](part = "directory" => DirectoryIInv)
<1>1. Init => (part = "directory" => DirectoryIInv)
  BY DirectoryInitIInv, ServicesAssumption DEF Init
<1>2. (part = "directory" => DirectoryIInv) /\ [Next]_vars => (part = "directory" => DirectoryIInv)'
  <2> SUFFICES ASSUME part = "directory" => DirectoryIInv, [Next]_vars, part' = "directory"
               PROVE  DirectoryIInv'
    BY Zenon
  <2>1. part = "directory" /\ [Directory!Next]_(Directory!vars)
    BY PartStays, StepsOfDirectory
  <2> QED BY <2>1, DirectoryNextIInv, ServicesAssumption
<1> QED BY <1>1, <1>2, PTL DEF Spec

LEMMA StepsOfPage ==
  ASSUME [Next]_vars, part = "match"
  PROVE  [Page!Next]_(Page!vars)
BY DEF Next, vars, Page!vars

LEMMA PageKept == Spec => [](part = "match" => PageIInv)
<1>1. Init => (part = "match" => PageIInv)
  BY PageInitIInv, ServicesAssumption DEF Init, Page!ConstantsAssumption
<1>2. (part = "match" => PageIInv) /\ [Next]_vars => (part = "match" => PageIInv)'
  <2> SUFFICES ASSUME part = "match" => PageIInv, [Next]_vars, part' = "match"
               PROVE  PageIInv'
    BY Zenon
  <2>1. part = "match" /\ [Page!Next]_(Page!vars)
    BY PartStays, StepsOfPage
  <2> QED BY <2>1, PageNextIInv, ServicesAssumption
<1> QED BY <1>1, <1>2, PTL DEF Spec

LEMMA StepsOfHistory ==
  ASSUME [Next]_vars, part = "history"
  PROVE  [History!Next]_(History!vars)
BY DEF Next, vars, History!vars

LEMMA HistoryKept == Spec => [](part = "history" => HistoryIInv)
<1>1. Init => (part = "history" => HistoryIInv)
  BY HistoryInitIInv, ServicesAssumption DEF Init
<1>2. (part = "history" => HistoryIInv) /\ [Next]_vars => (part = "history" => HistoryIInv)'
  <2> SUFFICES ASSUME part = "history" => HistoryIInv, [Next]_vars, part' = "history"
               PROVE  HistoryIInv'
    BY Zenon
  <2>1. part = "history" /\ [History!Next]_(History!vars)
    BY PartStays, StepsOfHistory
  <2> QED BY <2>1, HistoryNextIInv, ServicesAssumption
<1> QED BY <1>1, <1>2, PTL DEF Spec

LEMMA StepsOfRebuild ==
  ASSUME [Next]_vars, part = "rebuild"
  PROVE  [Rebuild!Next]_(Rebuild!vars)
BY DEF Next, vars, Rebuild!vars

LEMMA RebuildKept == Spec => [](part = "rebuild" => RebuildIInv)
<1>1. Init => (part = "rebuild" => RebuildIInv)
  BY RebuildInitIInv DEF Init
<1>2. (part = "rebuild" => RebuildIInv) /\ [Next]_vars => (part = "rebuild" => RebuildIInv)'
  <2> SUFFICES ASSUME part = "rebuild" => RebuildIInv, [Next]_vars, part' = "rebuild"
               PROVE  RebuildIInv'
    BY Zenon
  <2>1. part = "rebuild" /\ [Rebuild!Next]_(Rebuild!vars)
    BY PartStays, StepsOfRebuild
  <2> QED BY <2>1, RebuildNextIInv
<1> QED BY <1>1, <1>2, PTL DEF Spec

LEMMA StepsOfInsight ==
  ASSUME [Next]_vars, part = "insight"
  PROVE  [Insight!Next]_(Insight!vars)
BY DEF Next, vars, Insight!vars

LEMMA InsightKept == Spec => [](part = "insight" => InsightIInv)
<1>1. Init => (part = "insight" => InsightIInv)
  BY InsightInitIInv DEF Init
<1>2. (part = "insight" => InsightIInv) /\ [Next]_vars => (part = "insight" => InsightIInv)'
  <2> SUFFICES ASSUME part = "insight" => InsightIInv, [Next]_vars, part' = "insight"
               PROVE  InsightIInv'
    BY Zenon
  <2>1. part = "insight" /\ [Insight!Next]_(Insight!vars)
    BY PartStays, StepsOfInsight
  <2> QED BY <2>1, InsightNextIInv
<1> QED BY <1>1, <1>2, PTL DEF Spec

LEMMA StepsOfStatic ==
  ASSUME [Next]_vars, part = "static"
  PROVE  [Static!Next]_(Static!vars)
BY DEF Next, vars, Static!vars

LEMMA StaticKept == Spec => [](part = "static" => StaticIInv)
<1>1. Init => (part = "static" => StaticIInv)
  BY StaticInitIInv, ServicesAssumption DEF Init
<1>2. (part = "static" => StaticIInv) /\ [Next]_vars => (part = "static" => StaticIInv)'
  <2> SUFFICES ASSUME part = "static" => StaticIInv, [Next]_vars, part' = "static"
               PROVE  StaticIInv'
    BY Zenon
  <2>1. part = "static" /\ [Static!Next]_(Static!vars)
    BY PartStays, StepsOfStatic
  <2> QED BY <2>1, StaticNextIInv, ServicesAssumption
<1> QED BY <1>1, <1>2, PTL DEF Spec

LEMMA StepsOfPlayer ==
  ASSUME [Next]_vars, part = "player"
  PROVE  [Player!Next]_(Player!vars)
BY DEF Next, vars, Player!vars

LEMMA PlayerKept == Spec => [](part = "player" => PlayerIInv)
<1>1. Init => (part = "player" => PlayerIInv)
  BY PlayerInitIInv DEF Init
<1>2. (part = "player" => PlayerIInv) /\ [Next]_vars => (part = "player" => PlayerIInv)'
  <2> SUFFICES ASSUME part = "player" => PlayerIInv, [Next]_vars, part' = "player"
               PROVE  PlayerIInv'
    BY Zenon
  <2>1. part = "player" /\ [Player!Next]_(Player!vars)
    BY PartStays, StepsOfPlayer
  <2> QED BY <2>1, PlayerNextIInv
<1> QED BY <1>1, <1>2, PTL DEF Spec

LEMMA StepsOfRanks ==
  ASSUME [Next]_vars, part = "ranks"
  PROVE  [Ranks!Next]_(Ranks!vars)
BY DEF Next, vars, Ranks!vars

LEMMA RanksKept == Spec => [](part = "ranks" => RanksIInv)
<1>1. Init => (part = "ranks" => RanksIInv)
  BY RanksInitIInv, ServicesAssumption DEF Init
<1>2. (part = "ranks" => RanksIInv) /\ [Next]_vars => (part = "ranks" => RanksIInv)'
  <2> SUFFICES ASSUME part = "ranks" => RanksIInv, [Next]_vars, part' = "ranks"
               PROVE  RanksIInv'
    BY Zenon
  <2>1. part = "ranks" /\ [Ranks!Next]_(Ranks!vars)
    BY PartStays, StepsOfRanks
  <2> QED BY <2>1, RanksNextIInv, ServicesAssumption
<1> QED BY <1>1, <1>2, PTL DEF Spec

-----------------------------------------------------------------------------
(* The theorems.                                                           *)

(* Responses are not older than their generation, names are young or were   *)
(* fetched since they were asked for, and walking a history misses no row. *)
THEOREM ReadersAreServed == Spec => []ReadersMissNothing
<1> DEFINE I == /\ part = "cache" => Cache!IInv
                /\ part = "names" => NamesIInv
                /\ part = "history" => HistoryIInv
<1>1. I => ReadersMissNothing
  <2>1. Cache!IInv => Cache!ResponsesAreCurrent
    BY DEF Cache!IInv, Cache!RequestsFit, Cache!AnswerFits, Cache!ResponsesAreCurrent
  <2> QED BY <2>1, NamesIInvSuffices, HistoryIInvSuffices, ServicesAssumption DEF ReadersMissNothing
<1> QED BY <1>1, CacheKept, NamesKept, HistoryKept, PTL

(* A refresh that is reported complete has its matches linked, and two     *)
(* refreshes of one player run together only after one outlived its lock.  *)
THEOREM RefreshesHonest == Spec => []RefreshesAreHonest
<1>1. (part = "refresh" => RefreshIInv) => RefreshesAreHonest
  BY RefreshIInvSuffices DEF RefreshesAreHonest
<1> QED BY <1>1, RefreshKept, PTL

(* A rebuild that succeeded while no match changed left the rows of the    *)
(* matches, and a timeline marked as stored has its events and frames.     *)
THEOREM StoredRowsTrue == Spec => []StoredRowsAreTrue
<1> DEFINE I == /\ part = "rebuild" => RebuildIInv
                /\ part = "timeline" => Timeline!IInv
<1>1. I => StoredRowsAreTrue
  BY RebuildIInvSuffices DEF StoredRowsAreTrue, Timeline!IInv
<1> QED BY <1>1, RebuildKept, TimelineKept, PTL

(* The pages of a champion, of the directory and of a match at rest show   *)
(* what their addresses and their filters ask.                             *)
THEOREM PagesSettle == Spec => []SettledPagesAreConsistent
<1> DEFINE I == /\ part = "detail" => DetailIInv
                /\ part = "directory" => DirectoryIInv
                /\ part = "match" => PageIInv
<1>1. I => SettledPagesAreConsistent
  BY DetailIInvSuffices, DirectoryIInvSuffices, PageIInvSuffices, ServicesAssumption
     DEF SettledPagesAreConsistent
<1> QED BY <1>1, DetailKept, DirectoryKept, PageKept, PTL

(* Ranks that are unresolved, insights that are pending and a playstyle    *)
(* that is being written are pursued; answers are reused, and the pages of *)
(* a backfill have no holes.                                               *)
THEOREM PromisesPursued == Spec => []PromisesArePursued
<1> DEFINE I == /\ part = "ranks" => RanksIInv
                /\ part = "insight" => InsightIInv
                /\ part = "player" => PlayerIInv
<1>1. I => PromisesArePursued
  BY RanksIInvSuffices, InsightIInvSuffices, PlayerIInvSuffices, ServicesAssumption
     DEF PromisesArePursued
<1> QED BY <1>1, RanksKept, InsightKept, PlayerKept, PTL

(* The static data that readers take is whole, one patch is active after a *)
(* sync that none overlapped, and a sync reports what it did.              *)
THEOREM StaticDataSound == Spec => []StaticDataIsSound
<1>1. (part = "static" => StaticIInv) => StaticDataIsSound
  BY StaticIInvSuffices DEF StaticDataIsSound
<1> QED BY <1>1, StaticKept, PTL

(* A stored timeline is given up only to a new ingestion of its match, or  *)
(* after a run that something came between.                                *)
THEOREM TimelinesStay == Spec => StoredTimelinesStay
<1>1. (part = "timeline" => Timeline!IInv) /\ [Next]_vars =>
        [part = "timeline" => Timeline!TimelineStays]_vars
  BY StepsOfTimeline, TimelineStaysStep, ServicesAssumption
<1> QED BY <1>1, TimelineKept, PTL DEF Spec, StoredTimelinesStay

=============================================================================
