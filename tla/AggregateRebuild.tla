-------------------------- MODULE AggregateRebuild --------------------------
(***************************************************************************)
(* The operator commands that rebuild the champion, build and matchup      *)
(* aggregates of one patch, platform and queue from the stored matches,    *)
(* next to matches that arrive or change and to the worker that keeps the  *)
(* rows current.                                                           *)
(*                                                                         *)
(* The champion rebuild enumerates keys, then folds and writes batches of  *)
(* them and finally marks the matches; builds and matchups accumulate one  *)
(* page of matches, delete the rows of the scope and create them anew.     *)
(*                                                                         *)
(* A row is the set of matches it counts: the sums over them are in module *)
(* MatchupMath.  A match has one participant per team, opponents in lane.  *)
(***************************************************************************)
EXTENDS Naturals, FiniteSets

CONSTANTS
    Match,         \* ids, as numbers: pages are cut in this order
    Champion,
    Tier,          \* rank tiers
    Contents,      \* bound: what matches may hold
    Filters,       \* bound: the champions that commands may name
    None,
    BatchSize,     \* keys per batch, matches per page
    MaxRebuilds,   \* bound: commands run
    MaxChanges,    \* bound: matches that arrive or change
    MaxFaults      \* bound: failing writes

ConstantsAssumption ==
    /\ Match \subseteq Nat /\ BatchSize \in Nat \ {0}
    /\ MaxRebuilds \in Nat /\ MaxChanges \in Nat /\ MaxFaults \in Nat
    /\ None \notin Champion \cup Tier
    /\ Contents \subseteq [blue : Champion, red : Champion,
                            rank : Tier \cup {"RESOLVED_UNRANKED", "PENDING"}]

VARIABLES
    content,       \* what a completed match holds, None before
    rows,          \* rows[k]: the matches counted in each existing row of kind k
    marker,        \* matches marked COMPLETED for these versions
    scopes,        \* scopes[m]: the keys of a durable recalculation scope, or None
    work,          \* work[m]: the worker's run for a match
    job,           \* the running command
    quiet,         \* history: no match changed since the command began, and no
                   \* run has figures from before the last change
    torn,          \* history: matchup keys a run deleted and nobody created since
    before,        \* history: the rows when the command began
    rebuilds, changes, rebuildFaults

vars == <<content, rows, marker, scopes, work, job, quiet, torn, before,
          rebuilds, changes, rebuildFaults>>

Kind == {"champions", "builds", "matchups"}
Category == {"RUNES", "SKILL_PRIORITY"}
NoFilter == None

(* RESOLVED_UNRANKED is a finished lookup without a ranked entry.          *)
RankTiers(c) == {"ALL"} \cup (Tier \cap {c.rank})
                  \cup (IF c.rank = "RESOLVED_UNRANKED" THEN {"UNKNOWN"} ELSE {})

(* Keys <<subject, opponent or category, tier>> that a match feeds; mirror *)
(* lanes give no matchup.                                                  *)
ChampionKeys(c) == {c.blue, c.red} \X {None} \X RankTiers(c)
BuildKeys(c) == {c.blue, c.red} \X Category \X RankTiers(c)
MatchupKeys(c) == IF c.blue = c.red THEN {} ELSE {<<c.blue, c.red>>, <<c.red, c.blue>>}

Keys(kind, c) ==
    CASE kind = "champions" -> ChampionKeys(c)
      [] kind = "builds" -> BuildKeys(c)
      [] OTHER -> {<<p[1], p[2], t>> : p \in MatchupKeys(c), t \in RankTiers(c)}

Completed == {m \in Match : content[m] # None}
Truth(kind, key) == {m \in Completed : key \in Keys(kind, content[m])}

NoRows == [key \in {} |-> {}]
Drop(table, keys) == [key \in DOMAIN table \ keys |-> table[key]]
Put(table, new) == [key \in DOMAIN table \cup DOMAIN new |-> IF key \in DOMAIN new THEN new[key] ELSE table[key]]
NonEmpty(table) == [key \in {k \in DOMAIN table : table[k] # {}} |-> table[key]]

Idle == [step |-> "idle", kind |-> None, champion |-> NoFilter, category |-> NoFilter, dry |-> FALSE,
         page |-> {}, listed |-> {}, todo |-> {}, batch |-> {}, made |-> NoRows]

NoWork == [step |-> "idle", loaded |-> {}, pairs |-> {}, made |-> NoRows, old |-> FALSE]

TypeOK ==
    /\ content \in [Match -> Contents \cup {None}]
    /\ \A k \in Kind : \A key \in DOMAIN rows[k] : rows[k][key] \in SUBSET Match \ {{}}
    /\ marker \subseteq Match
    /\ scopes \in [Match -> {None} \cup SUBSET (Champion \X {None} \X (Tier \cup {"ALL", "UNKNOWN"}))]
    /\ \A m \in Match : work[m].step \in {"idle", "write", "clear", "scan", "delete", "create"}
    /\ job.step \in {"idle", "list", "existing", "fold", "write", "markers", "scopes",
                     "delete", "create", "done", "failed", "refused"}
    /\ quiet \in BOOLEAN
    /\ rebuilds \in 0..MaxRebuilds /\ changes \in 0..MaxChanges /\ rebuildFaults \in 0..MaxFaults

(* Some matches are stored; the rows are missing, or stale: they count a   *)
(* match under another rank.                                               *)
Init ==
    /\ content \in [Match -> Contents \cup {None}]
    /\ \/ rows = [k \in Kind |-> NoRows]
       \/ \E c \in Contents : rows = [k \in Kind |-> [key \in Keys(k, c) |-> {CHOOSE m \in Match : TRUE}]]
    /\ marker = {} /\ scopes = [m \in Match |-> None] /\ work = [m \in Match |-> NoWork]
    /\ job = Idle /\ quiet = TRUE /\ torn = {} /\ before = rows
    /\ rebuilds = 0 /\ changes = 0 /\ rebuildFaults = 0

-----------------------------------------------------------------------------
(* A match is ingested, or ranks of its participants are resolved: the     *)
(* keys it fed before are added to its scope in the same step.             *)
Change(m, c) ==
    /\ changes < MaxChanges /\ changes' = changes + 1
    /\ content[m] # c
    /\ content' = [content EXCEPT ![m] = c]
    /\ scopes' = [scopes EXCEPT ![m] =
         (IF @ = None THEN {} ELSE @) \cup (IF content[m] = None THEN {} ELSE ChampionKeys(content[m]))]
    /\ work' = [n \in Match |-> [work[n] EXCEPT !.old = work[n].step \in {"write", "delete", "create"}]]
    /\ quiet' = FALSE
    /\ UNCHANGED <<rows, marker, job, torn, before, rebuilds, rebuildFaults>>

(***************************************************************************)
(* The aggregation worker's run for a match, write by write; module        *)
(* ChampionAggregation has its queue and its reads one by one.             *)
(***************************************************************************)
OnlyWork == UNCHANGED <<content, job, quiet, before, rebuilds, changes>>
FoldKeys(keys) == [key \in keys |-> Truth("champions", key)]

WorkFold(m) ==
    /\ work[m].step = "idle" /\ scopes[m] # None /\ content[m] # None
    /\ work' = [work EXCEPT ![m] = [NoWork EXCEPT
         !.step = "write", !.loaded = scopes[m],
         !.made = FoldKeys(scopes[m] \cup ChampionKeys(content[m]))]]
    /\ UNCHANGED <<rows, marker, scopes, torn, rebuildFaults>> /\ OnlyWork

(* Mutant: a fold without games is written as a row of zeros.              *)
Upserted(table, folded) == Put(table, folded)
Written(table, folded) == NonEmpty(Put(table, folded))

(* Upserts and deletes are one transaction, with the marker.               *)
WorkWrite(m) ==
    /\ work[m].step = "write"
    /\ rows' = [rows EXCEPT !["champions"] = Written(@, work[m].made)]
    /\ marker' = marker \cup {m}
    /\ work' = [work EXCEPT ![m] = [NoWork EXCEPT !.step = "clear", !.loaded = work[m].loaded]]
    /\ UNCHANGED <<scopes, torn, rebuildFaults>> /\ OnlyWork

WorkClear(m) ==
    /\ work[m].step = "clear"
    /\ scopes' = [scopes EXCEPT ![m] = IF @ = work[m].loaded THEN None ELSE @]
    /\ work' = [work EXCEPT ![m] = [NoWork EXCEPT !.step = "scan"]]
    /\ UNCHANGED <<rows, marker, torn, rebuildFaults>> /\ OnlyWork

(* The rows, of any tier, of some pairs.                                   *)
OfPairs(keys, pairs) == {key \in keys : <<key[1], key[2]>> \in pairs}

(* The pairs this match has now, and their rows from a scan of all matches. *)
WorkScan(m) ==
    /\ work[m].step = "scan"
    /\ LET pairs == MatchupKeys(content[m])
           found == OfPairs(UNION {Keys("matchups", content[o]) : o \in Completed}, pairs)
       IN work' = [work EXCEPT ![m] =
            IF pairs = {} THEN NoWork
            ELSE [NoWork EXCEPT !.step = "delete", !.pairs = pairs,
                                !.made = [key \in found |-> Truth("matchups", key)]]]
    /\ UNCHANGED <<rows, marker, scopes, torn, rebuildFaults>> /\ OnlyWork

WorkDelete(m) ==
    /\ work[m].step = "delete"
    /\ LET gone == OfPairs(DOMAIN rows["matchups"], work[m].pairs)
       IN /\ rows' = [rows EXCEPT !["matchups"] = Drop(@, gone)]
          /\ torn' = torn \cup gone
    /\ work' = [work EXCEPT ![m].step = "create"]
    /\ UNCHANGED <<marker, scopes, rebuildFaults>> /\ OnlyWork

(* Not one transaction with the delete.                                    *)
WorkCreate(m) ==
    /\ work[m].step = "create" /\ DOMAIN work[m].made \cap DOMAIN rows["matchups"] = {}
    /\ rows' = [rows EXCEPT !["matchups"] = Put(@, work[m].made)]
    /\ torn' = torn \ DOMAIN work[m].made
    /\ work' = [work EXCEPT ![m] = NoWork]
    /\ UNCHANGED <<marker, scopes, rebuildFaults>> /\ OnlyWork

(* A write of the run fails, the insert also where a row exists by then:   *)
(* the run is over, and the marker says so once no attempt is left.        *)
WorkFails(m) ==
    /\ \/ work[m].step # "idle" /\ rebuildFaults < MaxFaults /\ rebuildFaults' = rebuildFaults + 1
       \/ /\ work[m].step = "create" /\ DOMAIN work[m].made \cap DOMAIN rows["matchups"] # {}
          /\ UNCHANGED rebuildFaults
    /\ marker' \in {marker, marker \ {m}}
    /\ work' = [work EXCEPT ![m] = NoWork]
    /\ UNCHANGED <<rows, scopes, torn>> /\ OnlyWork

WorkStep(m) ==
    \/ WorkFold(m) \/ WorkWrite(m) \/ WorkClear(m)
    \/ WorkScan(m) \/ WorkDelete(m) \/ WorkCreate(m) \/ WorkFails(m)

-----------------------------------------------------------------------------
InFilter(j, key) == /\ j.champion \in {NoFilter, key[1]}
                    /\ j.kind = "builds" => j.category \in {NoFilter, key[2]}

Begin(j) ==
    /\ job.step \in {"idle", "done", "failed", "refused"}
    /\ rebuilds < MaxRebuilds /\ rebuilds' = rebuilds + 1
    /\ job' = IF j.step = "refused" THEN [Idle EXCEPT !.step = "refused", !.kind = j.kind] ELSE j
    /\ quiet' = (\A m \in Match : ~work[m].old) /\ before' = rows
    /\ UNCHANGED <<content, rows, marker, scopes, work, torn, changes, rebuildFaults>>

(* Without --confirm only a dry run is accepted; roll-ups over platforms,  *)
(* routes or queues are never applied.                                     *)
StartChampions(champion, dry, confirmed, rollup) ==
    Begin([Idle EXCEPT !.kind = "champions", !.champion = champion, !.dry = dry,
             !.step = IF ~dry /\ (rollup \/ ~confirmed) THEN "refused" ELSE "list"])

(* A page of matches in the order of their ids.                            *)
Page(offset) ==
    {m \in Completed : Cardinality({o \in Completed : o < m}) \in offset..(offset + BatchSize - 1)}

StartBuilds(champion, category, dry, confirmed, offset) ==
    Begin([Idle EXCEPT !.kind = "builds", !.champion = champion, !.category = category, !.dry = dry,
             !.page = Page(offset), !.step = IF ~dry /\ ~confirmed THEN "refused" ELSE "list"])

StartMatchups(champion, dry, confirmed, offset) ==
    Begin([Idle EXCEPT !.kind = "matchups", !.champion = champion, !.dry = dry,
             !.page = Page(offset), !.step = IF ~dry /\ ~confirmed THEN "refused" ELSE "list"])

-----------------------------------------------------------------------------
Works == UNCHANGED rebuildFaults
Fails == rebuildFaults < MaxFaults /\ rebuildFaults' = rebuildFaults + 1
NoChange == UNCHANGED <<content, work, quiet, before, rebuilds, changes>>
OnlyJob == UNCHANGED <<rows, marker, scopes, torn>> /\ NoChange

(* Champions: matches, then the keys of their contributors.                *)
ListContributors ==
    /\ job.step = "list" /\ job.kind = "champions"
    /\ job' = [job EXCEPT !.step = "existing", !.listed = Completed,
                 !.todo = {key \in UNION {ChampionKeys(content[m]) : m \in Completed} : InFilter(job, key)}]
    /\ Works /\ OnlyJob

(* Mutant: rows that no match feeds any more are not looked for.           *)
NoStaleKeys == {}
StaleKeys == {key \in DOMAIN rows["champions"] : InFilter(job, key)}

(* Rows that exist may have to go although no match feeds them any more.   *)
ListExisting ==
    /\ job.step = "existing"
    /\ job' = [job EXCEPT !.step = IF job.dry THEN "done" ELSE "fold", !.todo = @ \cup StaleKeys]
    /\ Works /\ OnlyJob

Fold ==
    /\ job.step = "fold" /\ job.todo # {}
    /\ \E batch \in SUBSET job.todo :
         /\ Cardinality(batch) = IF Cardinality(job.todo) < BatchSize THEN Cardinality(job.todo) ELSE BatchSize
         /\ job' = [job EXCEPT !.step = "write", !.todo = @ \ batch, !.made = FoldKeys(batch)]
    /\ Works /\ OnlyJob

(* Upserts and deletes of a batch are one transaction.                     *)
Write ==
    /\ job.step = "write"
    /\ \/ Works /\ rows' = [rows EXCEPT !["champions"] = Written(@, job.made)]
                /\ job' = [job EXCEPT !.step = "fold", !.made = NoRows]
       \/ Fails /\ UNCHANGED rows /\ job' = [job EXCEPT !.step = "failed", !.made = NoRows]
    /\ UNCHANGED <<marker, scopes, torn>> /\ NoChange

BatchesDone ==
    /\ job.step = "fold" /\ job.todo = {}
    /\ job' = [job EXCEPT !.step = IF job.champion = NoFilter THEN "markers" ELSE "done"]
    /\ Works /\ OnlyJob

(* Only a rebuild of all champions may say that a match is done.           *)
Mark ==
    /\ job.step = "markers"
    /\ \/ Works /\ marker' = marker \cup job.listed /\ job' = [job EXCEPT !.step = "scopes"]
       \/ /\ Fails /\ job' = [job EXCEPT !.step = "failed"]
          /\ \E some \in SUBSET job.listed : marker' = marker \cup some
    /\ UNCHANGED <<rows, scopes, torn>> /\ NoChange

ClearScopes ==
    /\ job.step = "scopes"
    /\ \/ Works /\ scopes' = [m \in Match |-> IF m \in job.listed THEN None ELSE scopes[m]]
                /\ job' = [job EXCEPT !.step = "done"]
       \/ Fails /\ UNCHANGED scopes /\ job' = [job EXCEPT !.step = "failed"]
    /\ UNCHANGED <<rows, marker, torn>> /\ NoChange

-----------------------------------------------------------------------------
(* Builds and matchups: one query reads the page and what it contributes.  *)
Accumulate(kind) ==
    LET keys == {key \in UNION {Keys(kind, content[m]) : m \in job.page} : InFilter(job, key)}
    IN [key \in keys |-> Truth(kind, key) \cap job.page]

ScanBuilds ==
    /\ job.step = "list" /\ job.kind = "builds"
    /\ job' = [job EXCEPT !.step = IF job.dry THEN "done" ELSE "delete", !.made = Accumulate("builds")]
    /\ Works /\ OnlyJob

ScanMatchups ==
    /\ job.step = "list" /\ job.kind = "matchups"
    /\ job' = [job EXCEPT !.step = IF job.dry THEN "done" ELSE "delete", !.made = Accumulate("matchups")]
    /\ Works /\ OnlyJob

(* Mutant: the rows of the scope are deleted whatever the filters.         *)
AllRows(kind) == DOMAIN rows[kind]
RowsInScope(kind) == {key \in DOMAIN rows[kind] : InFilter(job, key)}

DeleteScope ==
    /\ job.step = "delete"
    /\ \/ /\ Works /\ rows' = [rows EXCEPT ![job.kind] = Drop(@, RowsInScope(job.kind))]
          /\ job' = [job EXCEPT !.step = "create"]
       \/ Fails /\ UNCHANGED rows /\ job' = [job EXCEPT !.step = "failed"]
    /\ UNCHANGED <<marker, scopes, torn>> /\ NoChange

(* Not one transaction with the delete; a row that the worker created in   *)
(* between makes the whole insert fail on the unique key.                  *)
CreateRows ==
    /\ job.step = "create"
    /\ \/ /\ Works /\ DOMAIN job.made \cap DOMAIN rows[job.kind] = {}
          /\ rows' = [rows EXCEPT ![job.kind] = Put(@, job.made)]
          /\ torn' = IF job.kind = "matchups" THEN torn \ DOMAIN job.made ELSE torn
          /\ job' = [job EXCEPT !.step = "done", !.made = NoRows]
       \/ /\ Works /\ DOMAIN job.made \cap DOMAIN rows[job.kind] # {}
          /\ UNCHANGED <<rows, torn>> /\ job' = [job EXCEPT !.step = "failed", !.made = NoRows]
       \/ Fails /\ UNCHANGED <<rows, torn>> /\ job' = [job EXCEPT !.step = "failed", !.made = NoRows]
    /\ UNCHANGED <<marker, scopes>> /\ NoChange

Command ==
    \E champion \in Filters \cup {NoFilter}, dry, confirmed \in BOOLEAN :
      \/ \E rollup \in BOOLEAN : StartChampions(champion, dry, confirmed, rollup)
      \/ \E category \in {NoFilter, "RUNES"}, offset \in {0, 1} :
           StartBuilds(champion, category, dry, confirmed, offset)
      \/ \E offset \in {0, 1} : StartMatchups(champion, dry, confirmed, offset)

Next ==
    \/ \E m \in Match, c \in Contents : Change(m, c)
    \/ \E m \in Match : WorkStep(m)
    \/ Command
    \/ ListContributors \/ ListExisting \/ Fold \/ Write \/ BatchesDone \/ Mark \/ ClearScopes
    \/ ScanBuilds \/ ScanMatchups \/ DeleteScope \/ CreateRows

Spec == Init /\ [][Next]_vars

-----------------------------------------------------------------------------
Expected(key) ==
    Truth(job.kind, key) \cap (IF job.kind = "champions" THEN Completed ELSE job.page)
Shown(kind, key) == IF key \in DOMAIN rows[kind] THEN rows[kind][key] ELSE {}
Old(kind, key) == IF key \in DOMAIN before[kind] THEN before[kind][key] ELSE {}
AllKeys(kind) == DOMAIN rows[kind] \cup DOMAIN before[kind]
                   \cup UNION {Keys(kind, content[m]) : m \in Completed}

(* A run of the worker has deleted a row that nobody has created since.    *)
Torn(kind, key) == kind = "matchups" /\ key \in torn /\ Shown(kind, key) = {}

(* While no match changes, and no run goes on with figures from before the *)
(* last change: a rebuild that succeeded leaves exactly the rows its       *)
(* filters and its matches call for, stale ones removed; whatever it did   *)
(* not touch, or one that was refused, failed or only a dry run, is as it  *)
(* was, as the matches say, or (builds and matchups) gone.  What the       *)
(* worker leaves beside it is at worst a gap: a matchup row that a run     *)
(* deleted and has not created, or failed to.                              *)
RebuiltRowsAreTrue ==
    quiet /\ job.step # "idle" =>
        \A kind \in Kind : \A key \in AllKeys(kind) :
            LET shown == Shown(kind, key) IN
            \/ Torn(kind, key)
            \/ IF job.step = "done" /\ kind = job.kind /\ ~job.dry /\ InFilter(job, key)
               THEN shown = Expected(key) \/ shown = Truth(kind, key)
               ELSE \/ shown = Old(kind, key) \/ shown = Truth(kind, key)
                    \/ kind = job.kind /\ kind # "champions" /\ InFilter(job, key) /\ shown = {}

=============================================================================
