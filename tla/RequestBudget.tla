--------------------------- MODULE RequestBudget ---------------------------
(***************************************************************************)
(* The budget that every process shares for its requests to the Riot API.  *)
(* Before each send a request reserves, in one Redis script, a place in a  *)
(* short and a long sliding window; the 429 cooldown and the pressure seen *)
(* in response headers refuse it first, and part of the short window is    *)
(* kept from enrichment and for the product. A refused request waits       *)
(* inline when the wait is short and is deferred otherwise.                *)
(*                                                                         *)
(* The script orders requests by the clock its caller read before the      *)
(* call, so a reading is anything within Skew of the time at which Redis   *)
(* runs the script. Time is in units of the cfg's choice; the HTTP request *)
(* itself, metrics and the mirror of the observed headers are left out.    *)
(***************************************************************************)
EXTENDS Integers, FiniteSets, FiniteSetsExt

CONSTANTS
  Process, Caller, Home,        \* Home[c]: the process of the caller c
  Workload,                     \* the workloads that occur
  Skew,                         \* clock skew plus the delay of a call to Redis
  ShortWindow, LongWindow,
  ShortLimits, LongLimits,      \* the limits configured or seen in headers
  ConfiguredShort, ConfiguredLong,
  UtilizationPercent, EnrichmentPercent, ReservedPercent,
  MaxInline, Slack,             \* maxInlineWaitMs and the 50 ms on top of it
  ErrorWait,                    \* the wait after a failed call to Redis
  PressureCap,                  \* pressure lasts at most this long (5 s)
  Grace,                        \* a window's key outlives it by this (1 s)
  Cooldowns,                    \* durations a 429 may ask for
  MaxRetries,
  MaxGrants, MaxFaults, MaxClock        \* bounds of the model

ASSUME BudgetAssumption ==
  /\ Home \in [Caller -> Process]
  /\ Workload \subseteq {"product", "enrichment", "match"} /\ "match" \in Workload
  /\ Skew \in Nat /\ ShortWindow \in Nat /\ LongWindow \in Nat
  /\ ShortLimits \subseteq Nat /\ LongLimits \subseteq Nat
  /\ ConfiguredShort \in ShortLimits /\ ConfiguredLong \in LongLimits
  /\ {UtilizationPercent, EnrichmentPercent, ReservedPercent} \subseteq 0..100
  /\ MaxInline \in Nat /\ Slack \in Nat /\ ErrorWait \in Nat \ {0}
  /\ PressureCap \in Nat \ {0} /\ Grace \in Nat
  /\ Cooldowns \subseteq Nat /\ MaxRetries \in Nat

VARIABLES
  clock,       \* the time
  short, long, enrichment,   \* the reservations in the sorted sets of Redis
  cooldown,    \* cooldownUntil
  pressure,    \* the header pressure: its value and when its key expires
  observed,    \* the limits each process has read from headers
  request,     \* where each caller's request is
  granted,     \* history: every reservation made
  published,   \* history: every cooldown published
  faults       \* how often anything but a quiet success has happened

redis == <<short, long, enrichment, cooldown, pressure>>
vars == <<clock, redis, observed, request, granted, published, faults>>

Atleast1(n) == IF n < 1 THEN 1 ELSE n
Effective(limit) == Atleast1((limit * UtilizationPercent) \div 100)
EnrichmentCap(limit) == Atleast1((Effective(limit) * EnrichmentPercent) \div 100)
NonProductCap(limit) ==
  IF ReservedPercent = 0 THEN Effective(limit)
  ELSE Atleast1((Effective(limit) * (100 - ReservedPercent)) \div 100)

\* score: the caller's reading, the member's score in Redis; at: the time.
Entry == [id : Nat, workload : Workload, score : Nat, at : Nat]

Idle == [pc |-> "idle", workload |-> "match", attempt |-> 0,
         started |-> 0, deadline |-> 0, wake |-> 0]

Init ==
  /\ clock = 0
  /\ short = {} /\ long = {} /\ enrichment = {}
  /\ cooldown = 0 /\ pressure = [until |-> 0, expires |-> 0]
  /\ observed = [p \in Process |-> [short |-> ConfiguredShort, long |-> ConfiguredLong]]
  /\ request = [c \in Caller |-> Idle]
  /\ granted = {} /\ published = {} /\ faults = 0

-----------------------------------------------------------------------------
(* The reservation script, run with the reading n of the clock             *)

Readings == {n \in 0..(clock + Skew) : clock <= n + Skew}

\* Mistakes: the entry at the edge stays; the one next to it goes.
FreshOrEdge(members, window, n) == {e \in members : e.score >= n - window}
FreshButEdge(members, window, n) == {e \in members : e.score > n - window + 1}

\* ZREMRANGEBYSCORE 0 .. n - window
Fresh(members, window, n) == {e \in members : e.score > n - window}

ShortFresh(n) == Fresh(short, ShortWindow, n)

\* Mistake: the long set is pruned with the short window.
LongFreshOfShort(n) == Fresh(long, ShortWindow, n)
LongFresh(n) == Fresh(long, LongWindow, n)
EnrichmentFresh(n) == Fresh(enrichment, ShortWindow, n)

UnderPressure(n) == clock < pressure.expires /\ pressure.until > n

\* Mistakes: what is kept for the product is anyone's; enrichment is like any
\* other workload.
NoReserve(c, n) == FALSE
NoShare(c, n) == FALSE

OutsideReserve(c, n) ==
  request[c].workload # "product"
  /\ ReservedPercent > 0
  /\ Cardinality(ShortFresh(n)) >= NonProductCap(observed[Home[c]].short)
OverShare(c, n) ==
  request[c].workload = "enrichment"
  /\ Cardinality(EnrichmentFresh(n)) >= EnrichmentCap(observed[Home[c]].short)

Reason(c, n) ==
  CASE cooldown > n -> "cooldown"
    [] cooldown <= n /\ UnderPressure(n) -> "header_pressure"
    [] OTHER ->
       IF Cardinality(ShortFresh(n)) >= Effective(observed[Home[c]].short)
       THEN "short_window"
       ELSE IF Cardinality(LongFresh(n)) >= Effective(observed[Home[c]].long)
       THEN "long_window"
       ELSE IF OutsideReserve(c, n) THEN "product_reserve"
       ELSE IF OverShare(c, n) THEN "enrichment_share" ELSE "admitted"

\* Until the oldest member leaves the window.
UntilOldestLeaves(members, window, n) ==
  Atleast1(Min({e.score : e \in members}) + window - n)

Wait(reason, n) ==
  CASE reason = "cooldown" -> cooldown - n
    [] reason = "header_pressure" -> pressure.until - n
    [] reason \in {"short_window", "product_reserve"} ->
         UntilOldestLeaves(ShortFresh(n), ShortWindow, n)
    [] reason = "long_window" -> UntilOldestLeaves(LongFresh(n), LongWindow, n)
    [] reason = "enrichment_share" ->
         UntilOldestLeaves(EnrichmentFresh(n), ShortWindow, n)
    [] reason = "redis_error" -> ErrorWait

\* The id tells it from those alike (a random one in the code).
NewEntry(c, n) ==
  LET w == request[c].workload
      alike == {g \in granted : g.workload = w /\ g.score = n /\ g.at = clock}
  IN [id |-> Cardinality(alike), workload |-> w, score |-> n, at |-> clock]

\* What the script writes: each window it comes to is pruned, and a
\* reservation is added to all of them or to none.
Script(c, n, reason) ==
  LET added == IF reason = "admitted" THEN {NewEntry(c, n)} ELSE {} IN
  /\ short' = IF reason \in {"cooldown", "header_pressure"} THEN short
              ELSE ShortFresh(n) \union added
  /\ long' = IF reason \in {"cooldown", "header_pressure", "short_window"} THEN long
             ELSE LongFresh(n) \union added
  /\ enrichment' = IF reason \in {"enrichment_share", "admitted"}
                      /\ request[c].workload = "enrichment"
                   THEN EnrichmentFresh(n) \union added ELSE enrichment
  /\ granted' = granted \union added

-----------------------------------------------------------------------------
(* A request, from the gate to the response                                *)

Move(c, r) == request' = [request EXCEPT ![c] = r]

\* At the gate: the deadline is set once, before the first reservation.
Gate(c, workload, attempt) ==
  \E n \in Readings :
    Move(c, [pc |-> "reserving", workload |-> workload, attempt |-> attempt,
             started |-> clock, deadline |-> n + MaxInline + Slack, wake |-> clock])

Begin(c) ==
  /\ request[c].pc = "idle"
  /\ \E w \in Workload : Gate(c, w, 0)
  /\ UNCHANGED <<clock, redis, observed, granted, published, faults>>

\* Bounds the failures, 429s and changes of limits or pressure.
Fault == faults < MaxFaults /\ faults' = faults + 1

\* Mistake: only the single wait is compared with the inline limit.
TooLongOnce(c, n, wait) == wait > MaxInline

TooLong(c, n, wait) == wait > MaxInline \/ n + wait > request[c].deadline

\* Deferred, or asleep until the next attempt.
Refused(c, n, reason) ==
  LET wait == Wait(reason, n) IN
  Move(c, IF reason = "cooldown" \/ TooLong(c, n, wait) THEN Idle
          ELSE [request[c] EXCEPT !.wake = clock + wait])

Awake(c) == request[c].pc = "reserving" /\ request[c].wake <= clock

Sending(c) == [Idle EXCEPT !.pc = "sending", !.workload = request[c].workload,
                           !.attempt = request[c].attempt]

Reserve(c) ==
  /\ Awake(c) /\ Cardinality(granted) < MaxGrants
  /\ \E n \in Readings : LET reason == Reason(c, n) IN
       /\ Script(c, n, reason)
       /\ IF reason = "admitted" THEN Move(c, Sending(c)) ELSE Refused(c, n, reason)
  /\ UNCHANGED <<clock, cooldown, pressure, observed, published, faults>>

\* The script has run, and its reply is lost.
ReserveUnanswered(c) ==
  /\ Awake(c) /\ Cardinality(granted) < MaxGrants
  /\ \E n \in Readings : Script(c, n, Reason(c, n)) /\ Refused(c, n, "redis_error")
  /\ Fault
  /\ UNCHANGED <<clock, cooldown, pressure, observed, published>>

ReserveFails(c) ==
  /\ Awake(c) /\ Fault
  /\ \E n \in Readings : Refused(c, n, "redis_error")
  /\ UNCHANGED <<clock, redis, observed, granted, published>>

\* Mistake: the attempts are not compared with maxRetries.
RetryForever(c) == Gate(c, request[c].workload, request[c].attempt + 1)

\* The backoff passes in the time until the reservation.
Retry(c) ==
  IF request[c].attempt < MaxRetries
  THEN Gate(c, request[c].workload, request[c].attempt + 1)
  ELSE Move(c, Idle)

TransportError(c) ==
  /\ request[c].pc = "sending" /\ Fault
  /\ \/ Retry(c)
     \/ Move(c, Idle)     \* not a retryable error
  /\ UNCHANGED <<clock, redis, observed, granted, published>>

Smaller(a, b) == IF a < b THEN a ELSE b

\* The later writer's pressure replaces the earlier one's.
PressureFor(window) ==
  LET ms == Smaller(window, PressureCap) IN
  \E n \in Readings : pressure' = [until |-> n + ms, expires |-> clock + ms]

\* The limits and, when they show it, the pressure in the headers. A missing
\* header changes nothing, and a failed call to Redis loses the pressure.
Observe(p) ==
  \E s \in ShortLimits \union {observed[p].short}, l \in LongLimits \union {observed[p].long} :
    /\ observed' = [observed EXCEPT ![p] = [short |-> s, long |-> l]]
    /\ \/ UNCHANGED pressure
       \/ PressureFor(ShortWindow)
       \/ PressureFor(LongWindow)

\* 2xx without news in the headers.
QuietSuccess(c) ==
  /\ request[c].pc = "sending"
  /\ Move(c, Idle)
  /\ UNCHANGED <<clock, redis, observed, granted, published, faults>>

Response(c) ==
  /\ request[c].pc = "sending" /\ Fault
  /\ Observe(Home[c])
  /\ \/ Move(c, Idle)                                       \* 2xx, 4xx
     \/ Retry(c)                                            \* 5xx
     \/ Move(c, [request[c] EXCEPT !.pc = "limited"])       \* 429
  /\ UNCHANGED <<clock, short, long, enrichment, cooldown, granted, published>>

\* Mistake: the cooldown is written without comparing it.
Proposed(until) == until

Later(until) == IF cooldown >= until THEN cooldown ELSE until

\* The caller of the client publishes the cooldown of a 429.
PublishCooldown(c) ==
  /\ request[c].pc = "limited"
  /\ \E n \in Readings, duration \in Cooldowns :
       /\ cooldown' = Later(n + duration)
       /\ published' = published \union {[at |-> clock, until |-> n + duration]}
  /\ Move(c, Idle)
  /\ UNCHANGED <<clock, short, long, enrichment, pressure, observed, granted, faults>>

PublishFails(c) ==
  /\ request[c].pc = "limited"
  /\ Move(c, Idle)
  /\ UNCHANGED <<clock, redis, observed, granted, published, faults>>

\* A key is dropped when nothing was added to it for its window and Grace.
Unexpired(members, adds, window) ==
  {e \in members : \E a \in adds : clock' < a.at + window + Grace}

Enrichments == {e \in granted : e.workload = "enrichment"}

Tick ==
  /\ clock < MaxClock
  /\ clock' = clock + 1
  /\ short' = Unexpired(short, granted, ShortWindow)
  /\ long' = Unexpired(long, granted, LongWindow)
  /\ enrichment' = Unexpired(enrichment, Enrichments, ShortWindow)
  /\ UNCHANGED <<cooldown, pressure, observed, request, granted, published, faults>>

Next ==
  \/ \E c \in Caller :
       \/ Begin(c)
       \/ Reserve(c) \/ ReserveUnanswered(c) \/ ReserveFails(c)
       \/ TransportError(c) \/ QuietSuccess(c) \/ Response(c)
       \/ PublishCooldown(c) \/ PublishFails(c)
  \/ Tick

Spec == Init /\ [][Next]_vars

-----------------------------------------------------------------------------
(* Properties                                                              *)

Pc == {"idle", "reserving", "sending", "limited"}

RequestType == [pc : Pc, workload : Workload, attempt : 0..MaxRetries,
                started : Nat, deadline : Nat, wake : Nat]

(* The types of the variables; the sorted sets hold nothing that was not
   granted (the script adds to all of them or to none), and only enrichment
   requests are in the enrichment set. *)
TypeOK ==
  /\ clock \in Nat /\ cooldown \in Nat
  /\ pressure \in [until : Nat, expires : Nat]
  /\ observed \in [Process -> [short : ShortLimits, long : LongLimits]]
  /\ request \in [Caller -> RequestType]
  /\ granted \subseteq Entry /\ IsFiniteSet(granted)
  /\ short \subseteq granted /\ long \subseteq granted
  /\ enrichment \subseteq Enrichments
  /\ published \subseteq [at : Nat, until : Nat] /\ faults \in Nat

\* What a window's reservations cover for sure, whatever the readings were.
Sure(window) == window - 2 * Skew

InWindow(grants, end, window) == {g \in grants : end - window < g.at /\ g.at <= end}

(* In no stretch of time a little shorter than the short window are more
   requests let through than the largest limit in use allows, however many
   processes reserve, with readings in whatever order, and whatever the
   pruning by one process has removed for another (the atomic reserve of
   RESERVE_RIOT_REQUEST_BUDGET_LUA). *)
ShortWindowHolds ==
  \A g \in granted : \E l \in ShortLimits :
    Cardinality(InWindow(granted, g.at, Sure(ShortWindow))) <= Effective(l)

(* The same of the long window, which the script comes to only after the
   short one. *)
LongWindowHolds ==
  \A g \in granted : \E l \in LongLimits :
    Cardinality(InWindow(granted, g.at, Sure(LongWindow))) <= Effective(l)

(* Requests that are not the product's never take the part of the short window
   kept for it, with whatever mix of workloads and limits it is filled. *)
ProductReserveKept ==
  LET others == {g \in granted : g.workload # "product"} IN
  \A g \in others : \E l \in ShortLimits :
    Cardinality(InWindow(others, g.at, Sure(ShortWindow))) <= NonProductCap(l)

(* Enrichment never takes more than its share, although its set is pruned and
   kept alive by enrichment requests alone. *)
EnrichmentShareKept ==
  \A g \in Enrichments : \E l \in ShortLimits :
    Cardinality(InWindow(Enrichments, g.at, Sure(ShortWindow))) <= EnrichmentCap(l)

(* What the script tests besides the short window: the long one, and in the
   short one the parts of the product and of enrichment. *)
LimitsAreKept == LongWindowHolds /\ ProductReserveKept /\ EnrichmentShareKept

(* Once the cooldown of a 429 is published, no request is let through until
   it ends (by the requester's clock), whoever publishes what afterwards and
   in whatever order the calls arrive: "active cooldown always wins". *)
CooldownIsKept ==
  \A p \in published, g \in granted : p.at < g.at => p.until <= g.at + Skew

\* A caller that is made to wait in this step.
WaitIsBounded(c) ==
  request'[c].pc = "reserving" /\ request'[c].wake # request[c].wake
    /\ request[c].pc = "reserving" =>
  /\ clock < request'[c].wake
  /\ request'[c].wake <= request[c].started + MaxInline + Slack + 2 * Skew

(* A caller that is made to wait makes time pass (no spinning on Redis), and
   all its waits together end within the inline limit, however often others
   overtake it: later it is granted or deferred. *)
WaitsAreBounded == [][\A c \in Caller : WaitIsBounded(c)]_vars

(* A wait is exactly long enough: if nobody else reserves and the window holds
   no more than its limit, the window does not refuse the request again when it
   ends, and would have one unit earlier (the removal of the edge of the
   window and the computed wait agree). *)
WaitIsExact ==
  \A c \in Caller, n \in Readings :
    LET limit == Effective(observed[Home[c]].short)
        then == n + Wait("short_window", n)
    IN Reason(c, n) = "short_window" /\ Cardinality(ShortFresh(n)) = limit
       => /\ Cardinality(ShortFresh(then)) < limit
          /\ Cardinality(ShortFresh(then - 1)) = limit

\* The reservations a window may still count are still in its set.
RecentAreKept(members, grants, window) ==
  \A g \in grants : clock + 2 * Skew < g.at + window => g \in members

ReadingsAreClose ==
  \A g \in granted : g.at <= clock /\ g.at <= g.score + Skew /\ g.score <= g.at + Skew

NothingRecentHasLeft ==
  /\ RecentAreKept(short, granted, ShortWindow)
  /\ RecentAreKept(long, granted, LongWindow)
  /\ RecentAreKept(enrichment, Enrichments, ShortWindow)

PublishedIsCovered == \A p \in published : p.at <= clock /\ p.until <= cooldown

DeadlinesAreClose ==
  \A c \in Caller : request[c].pc = "reserving" =>
    request[c].deadline <= request[c].started + MaxInline + Slack + Skew

(* The inductive strengthening: readings are within Skew of the time, nothing
   recent has left a set, the cooldown covers all that was published, and a
   deadline is where it was first set. *)
IInv ==
  /\ TypeOK
  /\ ReadingsAreClose /\ NothingRecentHasLeft
  /\ PublishedIsCovered /\ DeadlinesAreClose
  /\ ShortWindowHolds /\ LongWindowHolds
  /\ ProductReserveKept /\ EnrichmentShareKept
  /\ CooldownIsKept
=============================================================================
