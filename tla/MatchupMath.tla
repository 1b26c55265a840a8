---------------------------- MODULE MatchupMath ----------------------------
(***************************************************************************)
(* From the participants of a match and its timeline to the sums in the    *)
(* champion and matchup rows: positions, lane opponents, differences at a  *)
(* minute, accumulation in any order and over any pages, roll-ups, and the *)
(* merge of rows that a rank scope asks for.                               *)
(*                                                                         *)
(* Kills stand for every plain total, gold at one minute for the four      *)
(* optional differences, which are summed over the matches that have them. *)
(***************************************************************************)
EXTENDS Integers, FiniteSets, FiniteSetsExt

CONSTANTS
    Match,         \* bound: [queue, ended, parts, frames]
    None,
    Minute,        \* the minute whose frame is compared
    Floor          \* samples from which a matchup is ranked

ConstantsAssumption == Minute \in Nat /\ Floor \in Nat \ {0}

VARIABLES
    page,          \* which of two runs accumulated a match, 0 before
    matchups,      \* matchups[n]: rows <<tier, position, subject, opponent>> of run n
    champions      \* champions[n]: rows <<tier, position, champion>> of run n

vars == <<page, matchups, champions>>

Run == 1..2

-----------------------------------------------------------------------------
(* Raw positions come from Riot; others are not lanes.                     *)
RiotPosition == [TOP |-> "TOP", JUNGLE |-> "JUNGLE", MIDDLE |-> "MIDDLE", MID |-> "MIDDLE",
                 BOTTOM |-> "BOTTOM", BOT |-> "BOTTOM", UTILITY |-> "SUPPORT"]
ReliablePosition == {"TOP", "JUNGLE", "MIDDLE", "BOTTOM", "UTILITY"}
LanePosition == {"TOP", "JUNGLE", "MIDDLE", "BOTTOM", "SUPPORT"}
StandardQueue == {420, 440, 400, 430, 490, 480}

(* Bottom lane alone does not tell the carry from the support.             *)
FromLaneAndRole(lane, role) ==
    CASE lane \in {"TOP", "JUNGLE", "MIDDLE", "MID"} -> RiotPosition[lane]
      [] lane \in {"BOTTOM", "BOT"} /\ role = "DUO_CARRY" -> "BOTTOM"
      [] lane \in {"BOTTOM", "BOT"} /\ role = "DUO_SUPPORT" -> "SUPPORT"
      [] OTHER -> "UNKNOWN"

NormalPosition(m, p) ==
    CASE m.queue \notin StandardQueue -> "UNKNOWN"
      [] m.queue \in StandardQueue /\ p.raw \in DOMAIN RiotPosition -> RiotPosition[p.raw]
      [] m.queue \in StandardQueue /\ p.raw \notin DOMAIN RiotPosition ->
           IF p.individual \in DOMAIN RiotPosition THEN RiotPosition[p.individual]
           ELSE FromLaneAndRole(p.lane, p.role)

(* Ingestion compares a participant with the only one of the other team in *)
(* the same raw position.                                                  *)
UniqueOpponent(m, p) ==
    LET others == {o \in m.parts : o.id # p.id /\ o.team # p.team /\ o.raw = p.raw}
    IN IF p.raw \in ReliablePosition /\ Cardinality(others) = 1
       THEN (CHOOSE o \in others : TRUE).id ELSE None

(* The latest frame at or before the minute; a short game has its last one.*)
FrameAt(m) ==
    LET due == {f \in m.frames : f.at =< Minute}
    IN IF due = {} THEN None ELSE CHOOSE f \in due : \A g \in due : g.at =< f.at

GoldAt(m, id) ==
    IF FrameAt(m) = None \/ id = None THEN None
    ELSE LET f == FrameAt(m) IN IF id \in DOMAIN f.gold THEN f.gold[id] ELSE None

Difference(m, p) ==
    LET own == GoldAt(m, p.id) other == GoldAt(m, UniqueOpponent(m, p))
    IN IF None \in {own, other} THEN None ELSE own - other

-----------------------------------------------------------------------------
(* A structurally valid participant: Riot sends champion 0 for no pick.    *)
Contributors(m) == {p \in m.parts : p.champion > 0}

InSlot(m, position, team) == {p \in Contributors(m) : NormalPosition(m, p) = position /\ p.team = team}

(* Mutant: a team with two participants in a lane is paired all the same.  *)
FirstOfEach(m) ==
    {pair \in Contributors(m) \X Contributors(m) : LET p == pair[1] o == pair[2] IN
        /\ NormalPosition(m, p) \in LanePosition /\ NormalPosition(m, o) = NormalPosition(m, p)
        /\ p.team # o.team /\ p.champion # o.champion
        /\ \A q \in InSlot(m, NormalPosition(m, p), o.team) : o.id =< q.id}

(* Both directions of every lane that has one participant of each team and *)
(* is not a mirror: ambiguity is skipped, never guessed.                   *)
LanePairs(m) ==
    {pair \in Contributors(m) \X Contributors(m) :
        \E position \in LanePosition, team \in {100, 200} :
            /\ InSlot(m, position, team) = {pair[1]}
            /\ InSlot(m, position, 300 - team) = {pair[2]}
            /\ pair[1].champion # pair[2].champion}

-----------------------------------------------------------------------------
Empty == [samples |-> 0, wins |-> 0, kills |-> 0, gold |-> None, goldSamples |-> 0, latest |-> None]

MaxDate(a, b) == IF a = None THEN b ELSE IF b = None THEN a ELSE IF a >= b THEN a ELSE b

AddOptional(row, diff) ==
    IF diff = None THEN row
    ELSE [row EXCEPT !.gold = IF @ = None THEN diff ELSE @ + diff, !.goldSamples = @ + 1]

Accumulate(row, m, p) ==
    [AddOptional(row, Difference(m, p)) EXCEPT !.samples = @ + 1,
        !.wins = @ + (IF p.win THEN 1 ELSE 0), !.kills = @ + p.kills, !.latest = MaxDate(@, m.ended)]

AccumulateChampion(row, m, p) == Accumulate(row, m, p)

(* Matchup rows have no plain totals.                                      *)
AccumulateMatchup(row, m, p) == [Accumulate(row, m, p) EXCEPT !.kills = 0]

(* Mutant: a side without the difference empties the sum.                  *)
CombineBoth(left, right) ==
    [left EXCEPT !.gold = IF None \in {left.gold, right.gold} THEN None ELSE left.gold + right.gold,
                 !.goldSamples = @ + right.goldSamples]

CombineOptional(left, right) ==
    [left EXCEPT !.gold = IF left.gold = None THEN right.gold
                          ELSE IF right.gold = None THEN left.gold ELSE left.gold + right.gold,
                 !.goldSamples = IF left.gold = None THEN right.goldSamples
                                 ELSE IF right.gold = None THEN left.goldSamples
                                 ELSE left.goldSamples + right.goldSamples]

Combine(left, right) ==
    [CombineOptional(left, right) EXCEPT !.samples = @ + right.samples, !.wins = @ + right.wins,
        !.kills = @ + right.kills, !.latest = MaxDate(@, right.latest)]

CombineMatchups(left, right) == Combine(left, right)

-----------------------------------------------------------------------------
(* Everybody counts for ALL; an unresolved rank for nothing else.          *)
Tiers(p) == {"ALL"} \cup (IF p.rank = "PENDING" THEN {} ELSE {p.rank})

(* A lane matchup is never rolled up over positions, a champion row is for *)
(* one tier and never for ALL tiers.                                       *)
MatchupTiers(p) == Tiers(p)
ChampionTuples(m, p) ==
    {<<t, NormalPosition(m, p), p.champion>> : t \in Tiers(p)}
      \cup {<<t, "ALL", p.champion>> : t \in Tiers(p) \ {"ALL"}}

NoRows == [key \in {} |-> Empty]
RowOf(table, key) == IF key \in DOMAIN table THEN table[key] ELSE Empty

MatchupKey(t, m, pair) == <<t, NormalPosition(m, pair[1]), pair[1].champion, pair[2].champion>>

(* Champions are picked once per team, so a match feeds a row only once.   *)
AddMatchups(table, m) ==
    LET fed(key) == {pair \in LanePairs(m) : \E t \in MatchupTiers(pair[1]) : MatchupKey(t, m, pair) = key}
        keys == UNION {{MatchupKey(t, m, pair) : t \in MatchupTiers(pair[1])} : pair \in LanePairs(m)}
    IN [key \in DOMAIN table \cup keys |->
          IF key \in keys THEN AccumulateMatchup(RowOf(table, key), m, (CHOOSE pair \in fed(key) : TRUE)[1])
          ELSE table[key]]

AddChampions(table, m) ==
    LET feed(key) == {p \in Contributors(m) : key \in ChampionTuples(m, p)}
        keys == UNION {ChampionTuples(m, p) : p \in Contributors(m)}
    IN [key \in DOMAIN table \cup keys |->
          IF key \in keys
          THEN FoldSet(LAMBDA p, row : AccumulateChampion(row, m, p), RowOf(table, key), feed(key))
          ELSE table[key]]

-----------------------------------------------------------------------------
TypeOK ==
    /\ page \in [Match -> {0} \cup Run]
    /\ DOMAIN matchups = Run /\ DOMAIN champions = Run
    /\ \A n \in Run : \A key \in DOMAIN matchups[n] :
         matchups[n][key].wins \in 0..matchups[n][key].samples /\ matchups[n][key].samples > 0

Init ==
    /\ page = [m \in Match |-> 0]
    /\ matchups = [n \in Run |-> NoRows] /\ champions = [n \in Run |-> NoRows]

Observe(m, n) ==
    /\ page[m] = 0
    /\ page' = [page EXCEPT ![m] = n]
    /\ matchups' = [matchups EXCEPT ![n] = AddMatchups(@, m)]
    /\ champions' = [champions EXCEPT ![n] = AddChampions(@, m)]

Next == \E m \in Match, n \in Run : Observe(m, n)
Spec == Init /\ [][Next]_vars

-----------------------------------------------------------------------------
(* What a reader of a rank scope gets: rows merged by opponent.            *)
MergedMatchup(key) == CombineMatchups(CombineMatchups(Empty, RowOf(matchups[1], key)), RowOf(matchups[2], key))
MergedChampion(key) == Combine(RowOf(champions[1], key), RowOf(champions[2], key))

WinRate(row) == IF row.samples = 0 THEN None ELSE <<row.wins, row.samples>>
Better(row) == 2 * row.wins > row.samples
Worse(row) == 2 * row.wins < row.samples

(* Rows below the floor are not ranked, even ones in neither list.         *)
StrongAgainst(tier, position, c) ==
    {key[4] : key \in {k \in DOMAIN matchups[1] \cup DOMAIN matchups[2] :
        /\ <<k[1], k[2], k[3]>> = <<tier, position, c>>
        /\ WinRate(MergedMatchup(k)) # None
        /\ MergedMatchup(k).samples >= Floor /\ Better(MergedMatchup(k))}}
WeakAgainst(tier, position, c) ==
    {key[4] : key \in {k \in DOMAIN matchups[1] \cup DOMAIN matchups[2] :
        /\ <<k[1], k[2], k[3]>> = <<tier, position, c>>
        /\ WinRate(MergedMatchup(k)) # None
        /\ MergedMatchup(k).samples >= Floor /\ Worse(MergedMatchup(k))}}

AllKeys == DOMAIN matchups[1] \cup DOMAIN matchups[2]
Negated(v) == IF v = None THEN None ELSE 0 - v
Seen == {m \in Match : page[m] # 0}

(* In any order and over any split, the row of a lane and the row of its   *)
(* opponent tell the same story: as many games, one's wins the other's     *)
(* losses, the differences opposite and over the same games (as long as    *)
(* nobody was left out); what beats a champion is what it loses to.        *)
MatchupsMirror ==
    \A key \in {k \in AllKeys : k[1] = "ALL"} :
        LET row == MergedMatchup(key)
            back == MergedMatchup(<<"ALL", key[2], key[4], key[3]>>)
        IN /\ back.samples = row.samples /\ back.wins = row.samples - row.wins
           /\ back.latest = row.latest
           /\ (\A m \in Seen : Contributors(m) = m.parts) =>
                back.gold = Negated(row.gold) /\ back.goldSamples = row.goldSamples
           /\ key[4] \in StrongAgainst("ALL", key[2], key[3])
                <=> key[3] \in WeakAgainst("ALL", key[2], key[4])

ChampionKeys == DOMAIN champions[1] \cup DOMAIN champions[2]

(* A roll-up over positions is the sum of the rows of its positions, with  *)
(* the games without a lane; ALL tiers are at least the resolved ones.     *)
RollupsAddUp ==
    \A key \in ChampionKeys :
        LET parts == {k \in ChampionKeys : k[3] = key[3] /\ k[2] # "ALL"
                          /\ IF key[2] = "ALL" THEN k[1] = key[1] ELSE k[2] = key[2] /\ k[1] # "ALL"}
            total == FoldSet(LAMBDA k, sum : Combine(sum, MergedChampion(k)), Empty, parts)
            row == MergedChampion(key)
        IN /\ key[2] = "ALL" => row = total
           /\ key[1] = "ALL" => row.samples >= total.samples /\ row.wins >= total.wins

=============================================================================
