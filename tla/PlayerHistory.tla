--------------------------- MODULE PlayerHistory ---------------------------
(***************************************************************************)
(* The histories of a player that clients walk page by page: rank and      *)
(* mastery snapshots, which a refresh or search inserts when a value has   *)
(* changed, and matches, which the workers link in any order.  A page ends *)
(* with a cursor, the time and id of its last row, and the next page asks  *)
(* for the rows below it.                                                  *)
(***************************************************************************)
EXTENDS Naturals, Sequences, FiniteSets, Functions

CONSTANTS
    Reader, Writer, None,
    Queue,         \* queues of the matches
    Category,      \* queue categories that clients filter by
    Value,         \* values of a snapshot
    MaxRows,       \* bound: rows of all tables
    MaxTime,       \* bound: the times of rows
    PageLimit      \* rows on a page

ConstantsAssumption ==
    /\ Queue \subseteq Nat
    /\ MaxRows \in Nat /\ MaxTime \in Nat \ {0} /\ PageLimit \in Nat \ {0}
    /\ None \notin [at : Nat, id : Nat, group : Queue, value : Value]

VARIABLES
    rows,          \* rows of each table
    time,          \* the clock that snapshots are stamped with
    writing,       \* insertIfChanged between its read and its insert
    walk           \* the pages each reader has fetched

vars == <<rows, time, writing, walk>>

Table == {"ranks", "mastery", "matches"}

(* A rank queue, a champion or a match queue.                              *)
Group == Queue
AllRows == UNION {rows[t] : t \in Table}
NoWrite == [step |-> "idle", table |-> None, group |-> None, value |-> None, latest |-> None]
NoWalk == [step |-> "idle", table |-> None, filter |-> {}, cursor |-> None, seen |-> <<>>, due |-> {}]

TypeOK ==
    /\ DOMAIN rows = Table
    /\ AllRows \subseteq [at : 1..MaxTime, id : 1..MaxRows, group : Group, value : Value]
    /\ Cardinality({r.id : r \in AllRows}) = Cardinality(AllRows)
    /\ time \in 1..MaxTime
    /\ \A w \in Writer : writing[w].step \in {"idle", "insert"}
    /\ \A r \in Reader : walk[r].step \in {"idle", "walking", "done"}

Init ==
    /\ rows = [t \in Table |-> {}]
    /\ time = 1
    /\ writing = [w \in Writer |-> NoWrite]
    /\ walk = [r \in Reader |-> NoWalk]

(* Order of every listing: newest first, then by descending id.            *)
Before(r, s) == r.at > s.at \/ (r.at = s.at /\ r.id > s.id)
Ordered(those) ==
    [i \in 1..Cardinality(those) |->
        CHOOSE r \in those : Cardinality({s \in those : Before(s, r)}) = i - 1]

Unused == 1..MaxRows \ {r.id : r \in AllRows}

-----------------------------------------------------------------------------
Latest(table, group) ==
    LET those == {r \in rows[table] : r.group = group} IN
    IF those = {} THEN None ELSE CHOOSE r \in those : \A s \in those : s.at <= r.at

HasRankSnapshotChanged(latest, value) == IF latest = None THEN TRUE ELSE latest.value # value
HasMasteryChanged(latest, value) == IF latest = None THEN TRUE ELSE latest.value # value
HasChanged(table, latest, value) ==
    IF table = "ranks" THEN HasRankSnapshotChanged(latest, value) ELSE HasMasteryChanged(latest, value)

(* The latest snapshot is read first; a concurrent sync may read the same  *)
(* one, and both insert.                                                   *)
ReadLatest(w, table, group, value) ==
    /\ writing[w].step = "idle"
    /\ HasChanged(table, Latest(table, group), value)
    /\ writing' = [writing EXCEPT ![w] = [step |-> "insert", table |-> table, group |-> group,
                                          value |-> value, latest |-> Latest(table, group)]]
    /\ UNCHANGED <<rows, time, walk>>

InsertSnapshot(w) ==
    LET new == writing[w] IN
    /\ new.step = "insert"
    /\ \E id \in Unused :
         rows' = [rows EXCEPT ![new.table] = @ \cup {[at |-> time, id |-> id, group |-> new.group,
                                                     value |-> new.value]}]
    /\ writing' = [writing EXCEPT ![w] = NoWrite]
    /\ UNCHANGED <<time, walk>>

(* A worker stores or links a match, however old it is.                    *)
LinkMatch(queue, at) ==
    /\ \E id \in Unused, value \in Value :
         rows' = [rows EXCEPT !["matches"] = @ \cup {[at |-> at, id |-> id, group |-> queue, value |-> value]}]
    /\ UNCHANGED <<time, writing, walk>>

Tick ==
    /\ time < MaxTime /\ time' = time + 1
    /\ UNCHANGED <<rows, writing, walk>>

-----------------------------------------------------------------------------
Normal == {400, 430, 490, 480}
KnownDisplay == {420, 440, 450, 1700, 0} \cup Normal

QueueFilter(category) ==
    CASE category = "all" -> Queue
      [] category = "ranked_solo" -> Queue \cap {420}
      [] category = "ranked_flex" -> Queue \cap {440}
      [] category = "normal" -> Queue \cap Normal
      [] category = "aram" -> Queue \cap {450}
      [] OTHER -> Queue \ KnownDisplay

(* Mutant: rows of the cursor's own time are taken for seen.               *)
BelowCursorTime(row, cursor) == cursor = None \/ row.at < cursor.at

(* The cursor is exclusive; an undefined one is the first page.            *)
BelowCursor(row, cursor) == cursor = None \/ Before(cursor, row)

ListHistory(table, filter, cursor, limit) ==
    LET those == {r \in rows[table] : r.group \in filter /\ BelowCursor(r, cursor)}
        sorted == Ordered(those)
    IN SubSeq(sorted, 1, IF Len(sorted) < limit THEN Len(sorted) ELSE limit)

ListForPlayerAccount(filter, cursor, limit) == ListHistory("matches", filter, cursor, limit)

(* One row more than the page tells whether there is another page.         *)
PageOf(r, list) ==
    LET more == Len(list) > PageLimit
        items == IF more THEN SubSeq(list, 1, PageLimit) ELSE list
    IN walk' = [walk EXCEPT ![r].seen = @ \o items,
                            ![r].cursor = IF more THEN items[Len(items)] ELSE None,
                            ![r].step = IF more THEN "walking" ELSE "done"]

StartWalk(r, table, filter) ==
    /\ walk[r].step = "idle"
    /\ walk' = [walk EXCEPT ![r] = [NoWalk EXCEPT !.step = "walking", !.table = table,
         !.filter = filter, !.due = {row \in rows[table] : row.group \in filter}]]
    /\ UNCHANGED <<rows, time, writing>>

GetRanks(r) ==
    /\ walk[r].step = "walking" /\ walk[r].table = "ranks"
    /\ PageOf(r, ListHistory("ranks", walk[r].filter, walk[r].cursor, PageLimit + 1))
    /\ UNCHANGED <<rows, time, writing>>

GetMastery(r) ==
    /\ walk[r].step = "walking" /\ walk[r].table = "mastery"
    /\ PageOf(r, ListHistory("mastery", walk[r].filter, walk[r].cursor, PageLimit + 1))
    /\ UNCHANGED <<rows, time, writing>>

GetMatches(r) ==
    /\ walk[r].step = "walking" /\ walk[r].table = "matches"
    /\ PageOf(r, ListForPlayerAccount(walk[r].filter, walk[r].cursor, PageLimit + 1))
    /\ UNCHANGED <<rows, time, writing>>

Next ==
    \/ \E w \in Writer, group \in Group, value \in Value :
         \/ ReadLatest(w, "ranks", group, value)
         \/ ReadLatest(w, "mastery", group, value)
    \/ \E w \in Writer : InsertSnapshot(w)
    \/ \E queue \in Queue, at \in 1..MaxTime : LinkMatch(queue, at)
    \/ Tick
    \/ \E r \in Reader, group \in Group : \/ StartWalk(r, "ranks", {group})
                                          \/ StartWalk(r, "mastery", {group})
    \/ \E r \in Reader, category \in Category : StartWalk(r, "matches", QueueFilter(category))
    \/ \E r \in Reader : GetRanks(r) \/ GetMastery(r) \/ GetMatches(r)

Spec == Init /\ [][Next]_vars

-----------------------------------------------------------------------------
(* A walk shows no row twice, newest first, and at its end every row that  *)
(* was there when it began, whatever was inserted between two pages, also  *)
(* among rows of the same time.                                            *)
WalksMissNothing ==
    \A r \in Reader :
        /\ \A i \in 1..Len(walk[r].seen) - 1 : Before(walk[r].seen[i], walk[r].seen[i + 1])
        /\ walk[r].step = "done" => walk[r].due \subseteq Range(walk[r].seen)

=============================================================================
