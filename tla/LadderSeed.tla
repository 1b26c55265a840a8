----------------------------- MODULE LadderSeed -----------------------------
(***************************************************************************)
(* One run of the ladder seeder: pages of league entries are fetched from  *)
(* Riot and made candidates, and each candidate is enrolled as a root of   *)
(* the population under the caps, while searches and another seeder enrol  *)
(* players too.  A dry run fetches and looks, and writes nothing.  Redis   *)
(* and the database may fail at every await.  The split of the fetched by  *)
(* mode and tier, which only the report prints, is left out.               *)
(***************************************************************************)
EXTENDS Integers, Sequences, FiniteSets

LOCAL INSTANCE SequencesExt

CONSTANTS
    Players,      \* puuids
    Pages,        \* what a page of the league may hold: sequences of entries
    Inputs,       \* the runs an operator may ask for: mode, dry, tiers (a sequence
                  \* that says of each whether it has an apex list), page and pages
                  \* (or None), store (the process has a cooldown store)
    Config,       \* createCap, scanCeiling, ladderCap, totalCap, maxPages, and
                  \* platformServed: the platform is allowlisted and the ladder's
    MaxElsewhere, \* bound on the players enrolled by others
    None          \* no account, no run, no reason to stop

VARIABLES
    accounts,   \* player -> "none", "unnamed" or "named"
    tracked,    \* player -> source of its enrolment, or None
    depth,      \* player -> discovery depth of a tracked player
    total,      \* CollectorTrackedPlayerBudget.trackedPlayerCount
    ladder,     \* CollectorTrackedPlayerBudget.ladderEnrolledCount
    cooldown,   \* the shared cooldown is on
    elsewhere,  \* players enrolled by others so far
    run         \* the run, or None

rows == <<accounts, tracked, depth, total, ladder>>
vars == <<accounts, tracked, depth, total, ladder, cooldown, elsewhere, run>>

(***************************************************************************)
(* From league entries to candidates.                                      *)
(***************************************************************************)
(* An entry without a player, of an unknown queue or tier is left out; one *)
(* of a queue that has no match queue fails the whole page.  An apex list  *)
(* has one queue and tier for all its entries.                             *)
IsCandidate(mode, entry) ==
    /\ entry.puuid # None
    /\ mode = "representative" => entry.queue # "unknown" /\ entry.tierKnown
PageFails(mode, page) ==
    /\ mode = "representative"
    /\ \E i \in DOMAIN page : IsCandidate(mode, page[i]) /\ page[i].queue = "unmapped"
Candidates(mode, page) ==
    LET Keep(entry) == IsCandidate(mode, entry)
        kept == SelectSeq(page, Keep)
    IN [i \in DOMAIN kept |-> kept[i].puuid]

EmptyCounters ==
    [fetched |-> 0, eligible |-> 0, scanned |-> 0, created |-> 0, alreadyTracked |-> 0,
     skippedIdentity |-> 0, skippedPlatform |-> 0, skippedLadderCap |-> 0,
     skippedTotalCap |-> 0, errors |-> 0, identityResolved |-> 0,
     identityResolveFailed |-> 0, wouldNeedIdentityResolve |-> 0, providerCalls |-> 0]

(* An apex list is one call for each tier.  Of representative pages one is *)
(* asked for, which must be within the maximum, or the first ones up to it.*)
PagesAreRefused(input) ==
    /\ input.mode = "representative"
    /\ IF input.page # None THEN input.page < 1 \/ input.page > Config.maxPages
                            ELSE input.pages # None /\ input.pages < 1
PagesRequested(input) ==
    IF input.mode = "apex" \/ input.page # None THEN 1
    ELSE IF input.pages # None /\ input.pages < Config.maxPages THEN input.pages
    ELSE Config.maxPages

(***************************************************************************)
(* Fetching.                                                               *)
(***************************************************************************)
At(stage) == run # None /\ run.stage = stage
(* A run that has thrown makes no report at all.                           *)
Stopped(r, why) ==
    [r EXCEPT !.stage = "done", !.stop = why,
              !.ok = why \notin {"rate_limited", "provider_error", "thrown"}]

NewRun(input) ==
    [input |-> input, stage |-> "fetch", tier |-> 1, page |-> 1, list |-> <<>>,
     next |-> 1, seen |-> {}, c |-> EmptyCounters, player |-> None, needs |-> FALSE,
     found |-> "none", stop |-> None, ok |-> TRUE, mine |-> {}]
Seed(input, redisFails) ==
    /\ run = None
    /\ redisFails => input.store
    /\ run' = IF PagesAreRefused(input) \/ redisFails THEN Stopped(NewRun(input), "thrown")
              ELSE IF input.store /\ cooldown THEN Stopped(NewRun(input), "skipped_cooldown")
              ELSE NewRun(input)
    /\ UNCHANGED <<rows, cooldown, elsewhere>>

(* A 429 is published where there is a store; when that fails the run has  *)
(* thrown.                                                                 *)
TurnedAway(counted) ==
    \/ /\ run' = Stopped(counted, "rate_limited")
       /\ cooldown' = (cooldown \/ run.input.store)
    \/ run.input.store /\ run' = Stopped(counted, "thrown") /\ UNCHANGED cooldown

(* An apex run throws at a tier without an apex list before it calls Riot.  *)
HasList(r) == r.input.mode = "apex" => r.input.tiers[r.tier] = "apex"

(* The next page of a tier, unless this one was empty or the last asked for. *)
FetchPage(page) ==
    /\ At("fetch") /\ HasList(run)
    /\ ~PageFails(run.input.mode, page)
    /\ LET found == Candidates(run.input.mode, page)
           more == page # <<>> /\ run.page < PagesRequested(run.input)
           tier == IF more THEN run.tier ELSE run.tier + 1
       IN run' = [run EXCEPT
              !.list = @ \o found,
              !.c.fetched = @ + Len(found), !.c.providerCalls = @ + 1,
              !.page = IF more THEN @ + 1 ELSE 1, !.tier = tier,
              !.stage = IF tier > Len(run.input.tiers) THEN "process" ELSE "fetch"]
    /\ UNCHANGED <<rows, cooldown, elsewhere>>

(* Whatever fails ends the run with nothing enrolled: a 429, an error of    *)
(* Riot, a tier that is not the mode's, a page or list that cannot be read.*)
FetchFails(limited) ==
    /\ At("fetch")
    /\ limited => HasList(run)
    /\ LET called == IF HasList(run) THEN [run EXCEPT !.c.providerCalls = @ + 1] ELSE run
       IN IF limited THEN TurnedAway(called)
          ELSE run' = Stopped(called, "provider_error") /\ UNCHANGED cooldown
    /\ UNCHANGED <<rows, elsewhere>>

(***************************************************************************)
(* The candidates, one after the other.                                    *)
(***************************************************************************)
(* Mutant: one creation too many. *)
CreateCapPassed(c) == c.created > Config.createCap
CreateCapReached(c) == c.created >= Config.createCap
(* Mutant: a player listed twice is taken twice. *)
NeverSeen(p) == FALSE
AlreadySeen(p) == p \in run.seen

(* Candidates come without names: only an account may have them.           *)
NeedsResolve(p) == accounts[p] # "named"

NextCandidate ==
    /\ At("process")
    /\ IF CreateCapReached(run.c) THEN run' = Stopped(run, "create_cap")
       ELSE IF run.c.scanned >= Config.scanCeiling THEN run' = Stopped(run, "scan_ceiling")
       ELSE IF run.next > Len(run.list) THEN run' = Stopped(run, None)
       ELSE LET p == run.list[run.next]
            IN IF ~Config.platformServed
               THEN run' = [run EXCEPT !.next = @ + 1, !.c.skippedPlatform = @ + 1]
               ELSE IF AlreadySeen(p) THEN run' = [run EXCEPT !.next = @ + 1]
               ELSE run' = [run EXCEPT
                        !.next = @ + 1, !.seen = @ \cup {p},
                        !.c.eligible = @ + 1, !.c.scanned = @ + 1,
                        !.player = p, !.needs = NeedsResolve(p),
                        !.stage = IF run.input.dry THEN "assess" ELSE "lookup"]
    /\ UNCHANGED <<rows, cooldown, elsewhere>>

(* A dry run only looks whether the player is tracked. *)
Assess ==
    /\ At("assess")
    /\ run' = IF tracked[run.player] # None
              THEN [run EXCEPT !.stage = "process", !.c.alreadyTracked = @ + 1]
              ELSE [run EXCEPT !.stage = "process",
                        !.c.wouldNeedIdentityResolve = @ + (IF run.needs THEN 1 ELSE 0)]
    /\ UNCHANGED <<rows, cooldown, elsewhere>>

(* The reads that the seeder itself makes are in no try.                   *)
LookFails ==
    /\ \/ At("process") /\ run.next <= Len(run.list) /\ Config.platformServed
          /\ ~CreateCapReached(run.c) /\ run.c.scanned < Config.scanCeiling
          /\ ~AlreadySeen(run.list[run.next])
       \/ At("assess")
    /\ run' = Stopped(run, "thrown")
    /\ UNCHANGED <<rows, cooldown, elsewhere>>

(* The outcome of one enrolment: counted, and at a cap the end of the run. *)
Counter(outcome) == IF outcome = "error" THEN "errors" ELSE outcome
Enrolled(outcome) ==
    LET counted == [run.c EXCEPT
                       ![Counter(outcome)] = @ + 1,
                       !.identityResolved = @ +
                          (IF run.needs /\ outcome = "created" THEN 1 ELSE 0),
                       !.identityResolveFailed = @ +
                          (IF run.needs /\ outcome \in {"skippedIdentity", "error"}
                           THEN 1 ELSE 0)]
        (* What is thrown here is only a 429: the enrolment catches the rest. *)
        why == CASE outcome = "created" /\ CreateCapReached(counted) -> "create_cap"
                 [] outcome = "skippedLadderCap" -> "ladder_cap"
                 [] outcome = "skippedTotalCap"  -> "total_cap"
                 [] OTHER -> None
    IN [run EXCEPT !.c = counted, !.stop = why,
            !.stage = IF why = None THEN "process" ELSE "done",
            !.mine = IF outcome = "created" THEN @ \cup {run.player} ELSE @]

(* A player already tracked keeps its source and becomes a root. *)
Rediscover ==
    /\ depth' = [depth EXCEPT ![run.player] = 0]
    /\ run' = Enrolled("alreadyTracked")

(* The account is read first, and its enrolment only where it exists.      *)
Lookup ==
    /\ At("lookup")
    /\ run' = [run EXCEPT !.found = accounts[run.player],
                          !.stage = IF accounts[run.player] = "none" THEN "resolve" ELSE "check"]
    /\ UNCHANGED <<rows, cooldown, elsewhere>>

Check ==
    /\ At("check")
    /\ IF tracked[run.player] # None THEN Rediscover
       ELSE /\ run' = [run EXCEPT !.stage = IF run.found = "named" THEN "upsert" ELSE "resolve"]
            /\ UNCHANGED depth
    /\ UNCHANGED <<accounts, tracked, total, ladder, cooldown, elsewhere>>

(* Account-v1 answers with the names, without them, fails, or is limited.  *)
Resolve(answer) ==
    /\ At("resolve")
    /\ run' = CASE answer = "names"  -> [run EXCEPT !.stage = "upsert"]
                [] answer = "none"   -> Enrolled("skippedIdentity")
                [] answer = "fails"  -> Enrolled("error")
    /\ UNCHANGED <<rows, cooldown, elsewhere>>
ResolveLimited ==
    /\ At("resolve")
    /\ TurnedAway([run EXCEPT !.c.errors = @ + 1])
    /\ UNCHANGED <<rows, elsewhere>>

Named == accounts' = [accounts EXCEPT ![run.player] = "named"]

Upsert ==
    /\ At("upsert")
    /\ Named /\ run' = [run EXCEPT !.stage = "recheck"]
    /\ UNCHANGED <<tracked, depth, total, ladder, cooldown, elsewhere>>

(* Others may have enrolled the player since the first look.               *)
Recheck ==
    /\ At("recheck")
    /\ IF tracked[run.player] # None THEN Rediscover
       ELSE run' = [run EXCEPT !.stage = "reserve"] /\ UNCHANGED depth
    /\ UNCHANGED <<accounts, tracked, total, ladder, cooldown, elsewhere>>

Created ==
    /\ tracked' = [tracked EXCEPT ![run.player] = "LADDER"]
    /\ depth' = [depth EXCEPT ![run.player] = 0]
    /\ total' = total + 1 /\ ladder' = ladder + 1
    /\ UNCHANGED accounts

(* The reservation and the insert are one transaction; a row that is there *)
(* already takes the reservation back, but only where there was room.      *)
Reserve ==
    /\ At("reserve")
    /\ IF total >= Config.totalCap
       THEN run' = Enrolled("skippedTotalCap") /\ UNCHANGED rows
       ELSE IF ladder >= Config.ladderCap
       THEN run' = Enrolled("skippedLadderCap") /\ UNCHANGED rows
       ELSE IF tracked[run.player] # None
       THEN Rediscover /\ UNCHANGED <<accounts, tracked, total, ladder>>
       ELSE Created /\ run' = Enrolled("created")
    /\ UNCHANGED <<cooldown, elsewhere>>

(* A database error inside an enrolment is one more outcome of it, also    *)
(* when the statement took effect and only its answer was lost.            *)
EnrolmentFails ==
    /\ \E stage \in {"lookup", "check", "upsert", "recheck", "reserve"} : At(stage)
    /\ run' = Enrolled("error")
    /\ \/ UNCHANGED rows
       \/ At("upsert") /\ Named /\ UNCHANGED <<tracked, depth, total, ladder>>
       \/ /\ \E stage \in {"check", "recheck", "reserve"} : At(stage)
          /\ tracked[run.player] # None
          /\ depth' = [depth EXCEPT ![run.player] = 0]
          /\ UNCHANGED <<accounts, tracked, total, ladder>>
       \/ /\ At("reserve") /\ tracked[run.player] = None
          /\ total < Config.totalCap /\ ladder < Config.ladderCap
          /\ Created
    /\ UNCHANGED <<cooldown, elsewhere>>

(* A search, an expansion or another seeder enrols a player. *)
EnrolElsewhere(p, source) ==
    /\ elsewhere < MaxElsewhere
    /\ tracked[p] = None /\ total < Config.totalCap
    /\ source = "LADDER" => ladder < Config.ladderCap
    /\ accounts' = [accounts EXCEPT ![p] = "named"]
    /\ tracked' = [tracked EXCEPT ![p] = source]
    /\ depth' = [depth EXCEPT ![p] = IF source = "MATCH_PARTICIPANT" THEN 1 ELSE 0]
    /\ total' = total + 1
    /\ ladder' = ladder + (IF source = "LADDER" THEN 1 ELSE 0)
    /\ elsewhere' = elsewhere + 1
    /\ UNCHANGED <<cooldown, run>>

CooldownEnds == cooldown /\ cooldown' = FALSE /\ UNCHANGED <<rows, elsewhere, run>>

Init ==
    /\ accounts \in [Players -> {"none", "unnamed", "named"}]
    /\ tracked = [p \in Players |-> None] /\ depth = [p \in Players |-> 0]
    /\ total = 0 /\ ladder = 0
    /\ cooldown \in BOOLEAN /\ elsewhere = 0 /\ run = None

Next ==
    \/ \E input \in Inputs, redisFails \in BOOLEAN : Seed(input, redisFails)
    \/ \E page \in Pages : FetchPage(page)
    \/ \E limited \in BOOLEAN : FetchFails(limited)
    \/ NextCandidate \/ Assess \/ LookFails
    \/ Lookup \/ Check \/ Upsert \/ Recheck \/ Reserve \/ EnrolmentFails \/ ResolveLimited
    \/ \E answer \in {"names", "none", "fails"} : Resolve(answer)
    \/ CooldownEnds
    \/ \E p \in Players, source \in {"LADDER", "MATCH_PARTICIPANT", "PRODUCT_SEARCH"} :
          EnrolElsewhere(p, source)

Spec == Init /\ [][Next]_vars

TypeOK ==
    /\ total \in 0 .. Config.totalCap /\ ladder \in 0 .. Config.ladderCap
    /\ elsewhere \in 0 .. MaxElsewhere /\ cooldown \in BOOLEAN
    /\ run = None \/ run.stage \in {"fetch", "process", "assess", "lookup", "check",
                                    "resolve", "upsert", "recheck", "reserve", "done"}

(***************************************************************************)
(* Properties.                                                             *)
(***************************************************************************)
Settled(c) == c.created + c.alreadyTracked + c.skippedIdentity + c.skippedLadderCap
                + c.skippedTotalCap + c.errors

(* The report of a run is true whatever others enrol meanwhile: it counts  *)
(* each player it looked at once, what it created is there and within its  *)
(* caps, a run that says it went through its list did, a cap it names is   *)
(* reached, and a dry run enrolled nobody.                                 *)
SeedTellsTheTruth ==
    (run # None /\ run.stage = "done" /\ run.stop # "thrown") =>
        LET c == run.c
        IN /\ c.scanned = Cardinality(run.seen) /\ c.scanned <= Config.scanCeiling
           /\ c.created = Cardinality(run.mine) /\ c.created <= Config.createCap
           /\ \A p \in run.mine : tracked[p] = "LADDER" /\ depth[p] = 0
           /\ run.input.dry => run.mine = {} /\ c.alreadyTracked + c.wouldNeedIdentityResolve
                                                   <= c.scanned
           /\ ~run.input.dry => Settled(c) = c.scanned
           /\ (run.stop = None /\ Config.platformServed) => run.seen = ToSet(run.list)
           /\ run.stop = "create_cap" => c.created = Config.createCap
           /\ run.stop = "ladder_cap" => ladder = Config.ladderCap
           /\ run.stop = "total_cap" => total = Config.totalCap
           /\ c.providerCalls <= Len(run.input.tiers) * PagesRequested(run.input)

=============================================================================
