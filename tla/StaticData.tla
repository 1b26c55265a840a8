----------------------------- MODULE StaticData -----------------------------
(***************************************************************************)
(* The synchronisation of the static data of a game version: runs of the   *)
(* champion sync, which fetches the champions of a version, stores them in *)
(* one transaction and makes that version the active patch, and of the     *)
(* build sync, which stores items, runes and spells and leaves the active  *)
(* patch alone.  Runs may overlap: their transactions are READ COMMITTED   *)
(* and hold the locks of the patch rows they wrote.                        *)
(***************************************************************************)
EXTENDS Integers, Sequences, FiniteSets

CONSTANTS
    Runs,          \* runs of a sync command
    Versions,      \* versions that Data Dragon has published
    Inputs,        \* what an operator may ask for: kind, pinned version or None, dry
    ChampionFiles, \* what champion.json may hold: sequences of entries
    BuildFiles,    \* what the item, rune and spell files may hold
    MinChampions,  \* config.minChampions
    MaxRetries,    \* config.maxRetries
    MaxStarts,     \* bound on the runs started
    None           \* no patch, no run, the latest version

(* What the files hold: the champions by number, and their keys.           *)
ChampionIds == UNION {{file[i].id : i \in DOMAIN file} : file \in ChampionFiles}
AssetKeys == UNION {{file[i].key : i \in DOMAIN file} : file \in ChampionFiles}
Rosters == UNION {[S -> [key : AssetKeys, abilities : {"short", "full"}]] : S \in SUBSET ChampionIds}
BuildNumbers == UNION {file.items \cup file.spells \cup file.runes : file \in BuildFiles}
PatchRow == [active : BOOLEAN, status : {"READY"}, champions : Rosters,
             build : SUBSET ({"item", "spell", "rune"} \X BuildNumbers)]

ConstantsAssumption ==
    /\ MinChampions \in Nat
    /\ Inputs \subseteq [kind : {"champions", "build"}, version : Versions \cup {None}, dry : BOOLEAN]
    /\ None \notin Versions \cup PatchRow /\ None \notin {"ok", "failed"}
    /\ ChampionFiles \subseteq Seq([id : ChampionIds, key : AssetKeys])

VARIABLES
    patches,  \* version -> None or its row with its static data
    runs,     \* run -> None or what it knows
    started,  \* runs started so far
    alone     \* the last activation was of a transaction no other one overlapped

vars == <<patches, runs, started, alone>>

(***************************************************************************)
(* From the files to rows.                                                 *)
(***************************************************************************)
(* A champion of champion.json: its number, its asset key, and its texts;  *)
(* the abilities are the short ones until the second file replaces them.   *)
MapChampion(entry) == [key |-> entry.key, abilities |-> "short"]
(* Either file is rejected as a whole when it is empty or when a number is *)
(* not one.                                                                *)
FileParses(file) == file # <<>> /\ \A i \in DOMAIN file : file[i].id # None

(* Mutant: only the keys are compared, not the ids.                        *)
DuplicateKey(file) ==
    \E i, j \in DOMAIN file : i < j /\ file[i].key = file[j].key
DuplicateIdentity(file) ==
    \E i, j \in DOMAIN file :
        i < j /\ (file[i].id = file[j].id \/ file[i].key = file[j].key)

(* The champions of the first file, by number, with the abilities of those *)
(* that the second one has under the same key.                             *)
Roster(file, full) ==
    [c \in {file[i].id : i \in DOMAIN file} |->
        LET entry == file[CHOOSE i \in DOMAIN file : file[i].id = c]
        IN IF \E i \in DOMAIN full : full[i].key = entry.key
           THEN [MapChampion(entry) EXCEPT !.abilities = "full"]
           ELSE MapChampion(entry)]

(* An item or a spell with a bad number fails the sync; such a rune is     *)
(* left out.                                                               *)
BuildParses(file) == None \notin file.items \cup file.spells
BuildRows(file) ==
    {<<"item", i>> : i \in file.items} \cup {<<"spell", s>> : s \in file.spells}
        \cup {<<"rune", r>> : r \in file.runes \ {None}}

EmptyPatch == [active |-> FALSE, status |-> "READY", champions |-> <<>>, build |-> {}]
ChampionsOf(db, v) == IF db[v] = None THEN <<>> ELSE db[v].champions

(* Upserts go one champion at a time, in the order of the file: one whose  *)
(* key another champion of the patch still has breaks the transaction.     *)
KeyClash(stored, file) ==
    \E i \in DOMAIN file :
        LET Now(c) == IF \E j \in 1 .. i - 1 : file[j].id = c
                      THEN file[CHOOSE j \in 1 .. i - 1 : file[j].id = c].key
                      ELSE stored[c].key
            present == DOMAIN stored \cup {file[j].id : j \in 1 .. i - 1}
        IN \E c \in present \ {file[i].id} : Now(c) = file[i].key

WithChampions(stored, roster) ==
    [c \in DOMAIN stored \cup DOMAIN roster |->
        IF c \in DOMAIN roster THEN roster[c] ELSE stored[c]]

(* Nested values are compared as JSON texts, so a row that Postgres gives  *)
(* back with the keys of an object in its own order counts as changed:     *)
(* `reordered` are the champions whose row is given back so.               *)
Differs(prior, row, inOtherOrder) == inOtherOrder \/ prior # row
Classify(stored, file, roster, reordered) ==
    LET known == DOMAIN roster \cap DOMAIN stored
        changed == {c \in known : Differs(stored[c], roster[c], c \in reordered)}
    IN [discovered |-> Len(file), new |-> Cardinality(DOMAIN roster \ known),
        changed |-> Cardinality(changed), unchanged |-> Cardinality(known \ changed)]

NeverLow(file) == FALSE
CountIsLow(file) == Len(file) < MinChampions

(***************************************************************************)
(* One run.                                                                *)
(***************************************************************************)
At(r, stages) == runs[r] # None /\ runs[r].stage \in stages
InTransaction == {"upserted", "aimed", "off"}
Holds(q, v) == At(q, InTransaction) /\ (runs[q].version = v \/ v \in runs[q].off)
Locked(r, v) == \E q \in Runs \ {r} : Holds(q, v)

(* A build run asks for its three files at once, each with its own retries. *)
BuildRequests == {"item", "rune", "spell"}
Requests == {"version", "file", "full"} \cup BuildRequests
FirstTries == [request \in Requests |-> 0]

NewRun(input) ==
    [input |-> input, version |-> input.version, attempt |-> FirstTries,
     stage |-> IF input.version = None THEN "version" ELSE "file",
     file |-> <<>>, roster |-> <<>>, build |-> {}, aims |-> {}, off |-> {},
     overlapped |-> FALSE, committed |-> FALSE,
     result |-> None, counts |-> None, reported |-> FALSE]

Start(r, input) ==
    /\ IF runs[r] = None THEN TRUE ELSE runs[r].stage = "done"
    /\ started < MaxStarts /\ started' = started + 1
    /\ runs' = [runs EXCEPT ![r] = NewRun(input)]
    /\ UNCHANGED <<patches, alone>>

Go(r, changes) == runs' = [runs EXCEPT ![r] = changes]
Ended(run, result) == [run EXCEPT !.stage = "done", !.result = result, !.file = <<>>,
                           !.attempt = FirstTries, !.roster = <<>>, !.build = {},
                           !.aims = {}, !.off = {}]

(* A request that fails in a way worth repeating is repeated while the     *)
(* attempts last.  Abilities are worth no failure: without the second file *)
(* the champions keep what the first one says.  Of the files of a build    *)
(* the first that is given up ends the run.                                *)
Repeats(run, request, retryable) == retryable /\ run.attempt[request] < MaxRetries
Again(run, request) == [run EXCEPT !.attempt[request] = @ + 1]
RequestFails(r, retryable) ==
    /\ At(r, {"version", "file", "full"}) /\ runs[r].input.kind = "champions"
    /\ Go(r, IF Repeats(runs[r], runs[r].stage, retryable) THEN Again(runs[r], runs[r].stage)
             ELSE IF runs[r].stage = "full"
                  THEN [runs[r] EXCEPT !.stage = "check", !.attempt = FirstTries,
                                       !.roster = Roster(runs[r].file, <<>>)]
                  ELSE Ended(runs[r], "failed"))
    /\ UNCHANGED <<patches, started, alone>>
BuildRequestFails(r, request, retryable) ==
    /\ At(r, {"version", "file"}) /\ runs[r].input.kind = "build"
    /\ IF runs[r].stage = "version" THEN request = "version" ELSE request \in BuildRequests
    /\ Go(r, IF Repeats(runs[r], request, retryable) THEN Again(runs[r], request)
             ELSE Ended(runs[r], "failed"))
    /\ UNCHANGED <<patches, started, alone>>

ResolveVersion(r, v) ==
    /\ At(r, {"version"})
    /\ Go(r, [runs[r] EXCEPT !.version = v, !.stage = "file", !.attempt = FirstTries])
    /\ UNCHANGED <<patches, started, alone>>

FetchChampions(r, file) ==
    /\ At(r, {"file"}) /\ runs[r].input.kind = "champions"
    /\ Go(r, IF FileParses(file)
             THEN [runs[r] EXCEPT !.file = file, !.stage = "full", !.attempt = FirstTries]
             ELSE Ended(runs[r], "failed"))
    /\ UNCHANGED <<patches, started, alone>>

FetchBuild(r, file) ==
    /\ At(r, {"file"}) /\ runs[r].input.kind = "build"
    /\ Go(r, IF ~BuildParses(file) THEN Ended(runs[r], "failed")
             ELSE IF runs[r].input.dry THEN Ended(runs[r], "ok")
             ELSE [runs[r] EXCEPT !.build = BuildRows(file), !.stage = "ready",
                                  !.attempt = FirstTries])
    /\ UNCHANGED <<patches, started, alone>>

Overlay(r, file) ==
    /\ At(r, {"full"})
    /\ LET full == IF FileParses(file) THEN file ELSE <<>>
       IN Go(r, [runs[r] EXCEPT !.roster = Roster(runs[r].file, full), !.stage = "check",
                            !.attempt = FirstTries])
    /\ UNCHANGED <<patches, started, alone>>

Check(r, reordered) ==
    /\ At(r, {"check"})
    /\ LET run == runs[r]
           counted == [run EXCEPT
               !.counts = Classify(ChampionsOf(patches, run.version), run.file, run.roster,
                                   reordered)]
       IN Go(r, IF CountIsLow(run.file) \/ DuplicateIdentity(run.file)
                THEN Ended(run, "failed")
                ELSE IF run.input.dry THEN Ended(counted, "ok")
                ELSE [counted EXCEPT !.stage = "ready"])
    /\ UNCHANGED <<patches, started, alone>>

(***************************************************************************)
(* The transaction.  What it wrote is seen by others when it commits; the  *)
(* rows it wrote are locked until then.                                    *)
(***************************************************************************)
UpsertPatch(r) ==
    /\ At(r, {"ready"}) /\ ~Locked(r, runs[r].version)
    /\ LET others == {q \in Runs \ {r} : At(q, InTransaction)}
       IN runs' = [q \in Runs |->
              IF q = r THEN [runs[r] EXCEPT !.stage = "upserted", !.overlapped = others # {}]
              ELSE IF q \in others THEN [runs[q] EXCEPT !.overlapped = TRUE] ELSE runs[q]]
    /\ UNCHANGED <<patches, started, alone>>

(* Mutant: the run looks for its own patch among the active ones.          *)
AnyActive(v, db) == {w \in Versions : db[w] # None /\ db[w].active /\ w = v}
OtherActive(v, db) == {w \in Versions \ {v} : db[w] # None /\ db[w].active}

(* updateMany reads the patches that are active for it now ...             *)
AimAtOthers(r) ==
    /\ At(r, {"upserted"}) /\ runs[r].input.kind = "champions"
    /\ ~KeyClash(ChampionsOf(patches, runs[r].version), runs[r].file)
    /\ Go(r, [runs[r] EXCEPT !.stage = "aimed",
                         !.aims = OtherActive(runs[r].version, patches)])
    /\ UNCHANGED <<patches, started, alone>>

(* ... waits for the locks of those rows, and looks at each of them again. *)
DeactivateOthers(r) ==
    /\ At(r, {"aimed"}) /\ \A v \in runs[r].aims : ~Locked(r, v)
    /\ Go(r, [runs[r] EXCEPT !.stage = "off",
                             !.off = {v \in runs[r].aims : patches[v].active}])
    /\ UNCHANGED <<patches, started, alone>>

(* A commit may take effect and its answer be lost: the run then reports a  *)
(* failure, and readers have what it stored.                               *)
Commit(r, answered) ==
    /\ At(r, {"off"})
    /\ LET run == runs[r]
           own == IF patches[run.version] = None THEN EmptyPatch ELSE patches[run.version]
       IN patches' = [v \in Versions |->
              IF v = run.version
              THEN [own EXCEPT !.active = TRUE, !.status = "READY",
                               !.champions = WithChampions(@, run.roster)]
              ELSE IF v \in run.off THEN [patches[v] EXCEPT !.active = FALSE]
              ELSE patches[v]]
    /\ LET stored == [runs[r] EXCEPT !.stage = "verify", !.committed = TRUE,
                                     !.aims = {}, !.off = {}]
       IN Go(r, IF answered THEN stored ELSE Ended(stored, "failed"))
    /\ alone' = ~runs[r].overlapped
    /\ UNCHANGED started

CommitBuild(r, answered) ==
    /\ At(r, {"upserted"}) /\ runs[r].input.kind = "build"
    /\ LET run == runs[r]
           own == IF patches[run.version] = None THEN EmptyPatch ELSE patches[run.version]
       IN patches' = [patches EXCEPT ![run.version] = [own EXCEPT !.build = @ \cup run.build]]
    /\ Go(r, Ended([runs[r] EXCEPT !.committed = TRUE], IF answered THEN "ok" ELSE "failed"))
    /\ UNCHANGED <<started, alone>>

(* A key that another champion of the patch has, a new version that an     *)
(* overlapping run inserted first, a deadlock of two runs, the time limit  *)
(* of the transaction or a database error undo all of it; so does an error *)
(* of the reads before it, or a version of a single number.                *)
RollBack(r) ==
    /\ At(r, InTransaction \cup {"ready", "check"})
    /\ Go(r, Ended(runs[r], "failed"))
    /\ UNCHANGED <<patches, started, alone>>

Verified(run, db) ==
    LET stored == ChampionsOf(db, run.version)
    IN /\ Cardinality(DOMAIN stored) >= MinChampions
       /\ Cardinality({stored[c].key : c \in DOMAIN stored}) = Cardinality(DOMAIN stored)
Verify(r, readFails) ==
    /\ At(r, {"verify"})
    /\ Go(r, Ended([runs[r] EXCEPT !.reported = ~readFails],
                   IF ~readFails /\ Verified(runs[r], patches) THEN "ok" ELSE "failed"))
    /\ UNCHANGED <<patches, started, alone>>

(* The process of the command dies.                                        *)
Crash(r) ==
    /\ runs[r] # None /\ runs[r].stage # "done"
    /\ Go(r, Ended(runs[r], "crashed"))
    /\ UNCHANGED <<patches, started, alone>>

(* Patches that earlier syncs left: none, or some of them active with one  *)
(* file's champions, two when those syncs overlapped.                      *)
Init ==
    /\ \E file \in ChampionFiles, synced \in SUBSET Versions :
          /\ FileParses(file) /\ Len(file) >= MinChampions
          /\ \A i, j \in DOMAIN file :
                i # j => file[i].id # file[j].id /\ file[i].key # file[j].key
          /\ patches = [v \in Versions |->
                IF v \in synced
                THEN [EmptyPatch EXCEPT !.active = TRUE, !.champions = Roster(file, <<>>)]
                ELSE None]
    /\ runs = [r \in Runs |-> None]
    /\ started = 0 /\ alone = FALSE

Next ==
    \E r \in Runs :
        \/ \E input \in Inputs : Start(r, input)
        \/ \E retryable \in BOOLEAN : RequestFails(r, retryable)
        \/ \E request \in Requests, retryable \in BOOLEAN :
              BuildRequestFails(r, request, retryable)
        \/ \E v \in Versions : ResolveVersion(r, v)
        \/ \E file \in ChampionFiles : FetchChampions(r, file) \/ Overlay(r, file)
        \/ \E file \in BuildFiles : FetchBuild(r, file)
        \/ \E reordered \in SUBSET ChampionIds : Check(r, reordered)
        \/ UpsertPatch(r) \/ AimAtOthers(r) \/ DeactivateOthers(r)
        \/ \E answered \in BOOLEAN : Commit(r, answered) \/ CommitBuild(r, answered)
        \/ RollBack(r) \/ Crash(r)
        \/ \E readFails \in BOOLEAN : Verify(r, readFails)

Spec == Init /\ [][Next]_vars

TypeOK ==
    /\ alone \in BOOLEAN /\ started \in 0 .. MaxStarts
    /\ \A v \in Versions : patches[v] = None \/
          (patches[v].status = "READY" /\ patches[v].active \in BOOLEAN)
    /\ \A r \in Runs : runs[r] = None \/
          (runs[r].attempt \in [Requests -> 0 .. MaxRetries] /\ runs[r].off \subseteq Versions)

(***************************************************************************)
(* Properties.                                                             *)
(***************************************************************************)
(* The patch that readers take is whole, whatever a run fetched, where it  *)
(* failed and what overlapped it: enough champions and no two of one key.  *)
ActivePatchesAreWhole ==
    \A v \in Versions : (patches[v] # None /\ patches[v].active) =>
        LET stored == patches[v].champions
        IN /\ Cardinality(DOMAIN stored) >= MinChampions
           /\ \A c, d \in DOMAIN stored : c # d => stored[c].key # stored[d].key

(* A sync that no other one overlapped leaves one active patch, even after *)
(* overlapping ones left two.                                              *)
LoneSyncsLeaveOneActive ==
    alone => Cardinality({v \in Versions : patches[v] # None /\ patches[v].active}) = 1

(* What a run reports is what happened: a dry one and one that failed      *)
(* before its commit stored nothing, the classes of its champions add up,  *)
(* and after the commit a run fails only when an answer does not reach it. *)
SyncsTellTheTruth ==
    \A r \in Runs : (runs[r] # None /\ runs[r].stage = "done") =>
        LET run == runs[r] IN
        /\ run.committed => ~run.input.dry /\ patches[run.version] # None
        /\ (run.result = "ok" /\ ~run.input.dry) => run.committed
        /\ (run.result = "failed" /\ run.committed) => ~run.reported
        /\ run.counts # None => run.counts.new + run.counts.changed + run.counts.unchanged
                                   = run.counts.discovered

StaticDataIsSound ==
    ActivePatchesAreWhole /\ LoneSyncsLeaveOneActive /\ SyncsTellTheTruth

=============================================================================
