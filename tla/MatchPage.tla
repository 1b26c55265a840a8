------------------------------ MODULE MatchPage ------------------------------
(***************************************************************************)
(* The match page of the web client: the detail of the match of the route, *)
(* and its timeline, which is loaded when its tab is first opened.  The    *)
(* page is reused when the route changes, and answers arrive in any order. *)
(***************************************************************************)
EXTENDS Naturals

CONSTANTS Matches, None,
          MaxActions  \* bound: what the user does

ConstantsAssumption == None \notin Matches

VARIABLES route,
          detail,      \* [shown, pending, failed, id]
          tab,         \* the timeline tab is open
          timeline,    \* [shown, pending, failed]
          cached,      \* cachedMatchId
          inFlight,    \* inFlight is set
          calls,
          actions

vars == <<route, detail, tab, timeline, cached, inFlight, calls, actions>>

\* loadTimeline for the match m: what is cached or asked for is not asked
\* again; the answer of a match that was left is dropped.
Cached(m) == cached = m /\ (timeline.shown # None \/ timeline.failed)

LoadTimeline(m) ==
  IF Cached(m) \/ (inFlight /\ cached = m)
  THEN UNCHANGED <<timeline, cached, inFlight>>
  ELSE /\ cached' = m /\ inFlight' = TRUE
       /\ timeline' = [timeline EXCEPT !.pending = TRUE, !.failed = FALSE]
TimelineCalls(m, n) ==
  IF Cached(m) \/ (inFlight /\ cached = m) THEN {} ELSE {[step |-> "timeline", id |-> n, match |-> m]}

DetailCall(m) == [step |-> "detail", id |-> detail.id + 1, match |-> m]
DetailAsked == [detail EXCEPT !.pending = TRUE, !.failed = FALSE, !.id = @ + 1]

Init ==
  /\ route \in Matches /\ tab \in BOOLEAN
  /\ detail = [shown |-> None, pending |-> TRUE, failed |-> FALSE, id |-> 1]
  /\ timeline = [shown |-> None, pending |-> tab, failed |-> FALSE]
  /\ cached = (IF tab THEN route ELSE None) /\ inFlight = tab
  /\ calls = {[step |-> "detail", id |-> 1, match |-> route]} \cup
             (IF tab THEN {[step |-> "timeline", id |-> 0, match |-> route]} ELSE {})
  /\ actions = 0

\* Mistake: no look at the request id.
AnyDetail(c) == TRUE
DetailLatest(c) == c.id = detail.id

DetailArrives(c) ==
  /\ c \in calls /\ c.step = "detail"
  /\ calls' = calls \ {c}
  /\ \E answered \in BOOLEAN :
       detail' = IF ~DetailLatest(c) THEN detail
                 ELSE [detail EXCEPT !.shown = IF answered THEN c.match ELSE None,
                                     !.failed = ~answered, !.pending = FALSE]
  /\ UNCHANGED <<route, tab, timeline, cached, inFlight, actions>>

\* Whoever ends last forgets the request in flight, its own or not.
TimelineOfMatch(c) == cached = c.match

TimelineArrives(c) ==
  /\ c \in calls /\ c.step = "timeline"
  /\ calls' = calls \ {c}
  /\ inFlight' = FALSE
  /\ \E answered \in BOOLEAN :
       timeline' = IF ~TimelineOfMatch(c) THEN timeline
                   ELSE IF answered THEN [timeline EXCEPT !.shown = c.match, !.pending = FALSE]
                   ELSE [shown |-> None, pending |-> FALSE, failed |-> TRUE]
  /\ UNCHANGED <<route, detail, tab, cached, actions>>

SelectTab(t) ==
  /\ actions < MaxActions /\ actions' = actions + 1
  /\ tab' = t /\ t # tab
  /\ IF t THEN LoadTimeline(route) ELSE UNCHANGED <<timeline, cached, inFlight>>
  /\ calls' = calls \cup (IF t THEN TimelineCalls(route, actions') ELSE {})
  /\ UNCHANGED <<route, detail>>

\* The route changes: the detail is loaded again, the timeline of another
\* match is forgotten, and loaded again if the route names its tab.
Visit(m, t) ==
  /\ actions < MaxActions /\ actions' = actions + 1
  /\ m # route /\ route' = m /\ tab' = t
  /\ detail' = DetailAsked
  /\ LET left == cached # None /\ cached # m
         kept == [shown |-> None, failed |-> FALSE, pending |-> timeline.pending]
         asks == t /\ (left \/ cached # m \/ (timeline.shown = None /\ ~timeline.failed /\ ~inFlight))
     IN /\ IF asks
           THEN /\ cached' = m /\ inFlight' = TRUE
                /\ timeline' = [(IF left THEN kept ELSE timeline) EXCEPT !.pending = TRUE, !.failed = FALSE]
           ELSE /\ cached' = IF left THEN None ELSE cached
                /\ timeline' = IF left THEN kept ELSE timeline
                /\ UNCHANGED inFlight
        /\ calls' = calls \cup {DetailCall(m)}
                     \cup (IF asks THEN {[step |-> "timeline", id |-> actions', match |-> m]} ELSE {})

Next ==
  \/ \E c \in calls : DetailArrives(c) \/ TimelineArrives(c)
  \/ \E t \in BOOLEAN : SelectTab(t)
  \/ \E m \in Matches, t \in BOOLEAN : Visit(m, t)

Spec == Init /\ [][Next]_vars

-----------------------------------------------------------------------------
TypeOK ==
  /\ route \in Matches /\ cached \in Matches \cup {None}
  /\ detail.shown \in Matches \cup {None} /\ timeline.shown \in Matches \cup {None}

(* A match page that has settled shows one match: when no request is under *)
(* way, however often the route and the tab changed, the detail is that of *)
(* the route or its failure, and an open timeline tab shows the timeline   *)
(* of the route or its failure and is not left loading.                    *)
SettledMatchIsConsistent ==
  calls = {} =>
    /\ ~detail.pending /\ detail.shown = (IF detail.failed THEN None ELSE route)
    /\ tab => /\ ~timeline.pending
              /\ timeline.shown = route \/ (timeline.failed /\ timeline.shown = None)
=============================================================================
