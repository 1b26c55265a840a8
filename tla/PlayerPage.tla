------------------------------ MODULE PlayerPage ------------------------------
(***************************************************************************)
(* The player page of the web client: profile, stored matches, progress of *)
(* a refresh and playstyle.  Every await is a call that is answered in any *)
(* order; a poll asks again while match jobs are under way, and a timer    *)
(* asks again for a playstyle that is being written.                       *)
(***************************************************************************)
EXTENDS Naturals, FiniteSets

CONSTANTS Players, None,
          MaxActions,  \* bound: what the user does
          MaxPolls,    \* bound: ticks of the poll
          MaxAnswers   \* bound: answers that leave the playstyle pending

VARIABLES route, mounted,
          profile,     \* the player of profileMeta, or None
          matches,     \* some matches are shown
          working,     \* shouldPollMatchProgress(refreshStatus)
          polling,     \* the interval of the match poll is set
          refreshing,
          playstyle,   \* [player, status], or None
          playstylePending, playstyleId,
          failed,      \* the latest request of the playstyle has failed
          timers,      \* the request ids of the playstyle timers that are set
          calls,
          actions, polls, answers

vars == <<route, mounted, profile, matches, working, polling, refreshing,
          playstyle, playstylePending, playstyleId, failed, timers, calls, actions, polls, answers>>
pageVars == <<route, mounted>>
matchVars == <<profile, matches, working, polling, refreshing>>
styleVars == <<playstyle, playstylePending, playstyleId, failed, timers>>
bounds == <<actions, polls, answers>>

\* A call and what its answer leads to.
Call(step, id, then) ==
  [step |-> step, id |-> id, then |-> then, player |-> route]
MatchesCall(then) == Call("matches", 0, then)

Init ==
  /\ route \in Players /\ mounted = TRUE
  /\ profile = None /\ matches = FALSE /\ working = FALSE
  /\ polling = FALSE /\ refreshing = FALSE
  /\ playstyle = None /\ playstylePending = TRUE /\ playstyleId = 1 /\ failed = FALSE /\ timers = {}
  /\ calls = {Call("playstyle", 1, None), Call("profile", 0, "load")}
  /\ actions = 0 /\ polls = 0 /\ answers = 0

-----------------------------------------------------------------------------
(* The playstyle: one chain of requests and timers for each load.          *)

LoadPlaystyle(rest) ==
  /\ timers' = {} /\ playstyleId' = playstyleId + 1
  /\ playstylePending' = TRUE /\ playstyle' = None /\ failed' = FALSE
  /\ calls' = rest \cup {Call("playstyle", playstyleId + 1, None)}

NoPlaystyle(rest) == calls' = rest /\ UNCHANGED styleVars

\* Mistake: no look at the request id.
AnyPlaystyle(c) == TRUE
PlaystyleLatest(c) == c.id = playstyleId

PlaystyleArrives(c) ==
  /\ c \in calls /\ c.step = "playstyle"
  /\ calls' = calls \ {c}
  /\ IF ~PlaystyleLatest(c)
     THEN UNCHANGED <<styleVars, answers>>
     ELSE \/ \* still being written: ask again later
             /\ answers < MaxAnswers /\ answers' = answers + 1
             /\ playstyle' = [player |-> c.player, status |-> "PENDING"]
             /\ timers' = timers \cup {c.id}
             /\ playstylePending' = FALSE /\ UNCHANGED <<playstyleId, failed>>
          \/ \* written, or given up after two minutes
             /\ \E status \in {"READY", "UNAVAILABLE"} :
                  playstyle' = [player |-> c.player, status |-> status]
             /\ playstylePending' = FALSE /\ UNCHANGED <<playstyleId, failed, timers, answers>>
          \/ \* the request fails; what is shown stays, and nothing asks again
             /\ playstylePending' = FALSE /\ failed' = TRUE
             /\ UNCHANGED <<playstyle, playstyleId, timers, answers>>
  /\ UNCHANGED <<pageVars, matchVars, actions, polls>>

TimerFires(id) ==
  /\ id \in timers
  /\ timers' = timers \ {id}
  /\ calls' = calls \cup {Call("playstyle", id, None)}
  /\ UNCHANGED <<pageVars, matchVars, playstyle, playstylePending, playstyleId, failed, bounds>>

-----------------------------------------------------------------------------
(* Profile, matches and the poll.                                          *)

\* startPollingIfNeeded
StartPolling(w) == polling' = w

\* The answer that arrives last is shown, whatever was asked since.
MatchesArrive(c) ==
  /\ c \in calls /\ c.step = "matches"
  /\ \E answer \in {"page", "empty", "fails"} :
       matches' = CASE answer = "page" -> TRUE
                    [] answer = "empty" -> FALSE
                    [] answer = "fails" -> matches /\ c.then # "load"
  /\ \/ /\ c.then = "load" /\ StartPolling(working)
        /\ NoPlaystyle(calls \ {c}) /\ UNCHANGED refreshing
     \/ /\ c.then = "refreshed"
        /\ NoPlaystyle((calls \ {c}) \cup {Call("profile", 0, "refreshed")})
        /\ UNCHANGED <<polling, refreshing>>
     \/ /\ c.then = "again"
        /\ NoPlaystyle((calls \ {c}) \cup {MatchesCall("done")})
        /\ UNCHANGED <<polling, refreshing>>
     \/ /\ c.then = "done" /\ StartPolling(FALSE)
        /\ LoadPlaystyle(calls \ {c}) /\ UNCHANGED refreshing
     \/ /\ c.then = None
        /\ NoPlaystyle(calls \ {c}) /\ UNCHANGED <<polling, refreshing>>
  /\ UNCHANGED <<pageVars, profile, working, bounds>>

ProfileArrives(c) ==
  /\ c \in calls /\ c.step = "profile"
  /\ \E answer \in {"ok", "fails"}, w \in BOOLEAN :
       IF c.then = "load"
       THEN IF answer = "ok"
            THEN /\ profile' = c.player /\ working' = w
                 /\ matches' \in {matches, TRUE}
                 /\ NoPlaystyle((calls \ {c}) \cup {MatchesCall("load")})
                 /\ UNCHANGED <<polling, refreshing>>
            ELSE /\ NoPlaystyle(calls \ {c})
                 /\ UNCHANGED matchVars
       ELSE \* the end of onRefresh, whatever the answer
            /\ profile' = IF answer = "ok" THEN c.player ELSE profile
            /\ refreshing' = FALSE
            /\ StartPolling(working)
            /\ IF working THEN NoPlaystyle(calls \ {c}) ELSE LoadPlaystyle(calls \ {c})
            /\ UNCHANGED <<matches, working>>
  /\ UNCHANGED <<pageVars, bounds>>

\* A tick of the interval: after five minutes the poll ends.
PollTick ==
  /\ polling /\ polls < MaxPolls /\ polls' = polls + 1
  /\ \/ calls' = calls \cup {Call("status", polls, None)} /\ UNCHANGED polling
     \/ polling' = FALSE /\ UNCHANGED calls
  /\ UNCHANGED <<pageVars, profile, matches, working, refreshing, styleVars, actions, answers>>

StatusArrives(c) ==
  /\ c \in calls /\ c.step = "status"
  /\ \/ \E w, increased \in BOOLEAN :
          /\ working' = w
          /\ calls' = (calls \ {c}) \cup
               (IF increased \/ ~matches
                THEN {MatchesCall(IF w THEN None ELSE "again")}
                ELSE IF w THEN {} ELSE {MatchesCall("done")})
          /\ UNCHANGED polling
     \/ /\ polling' = FALSE /\ calls' = calls \ {c} /\ UNCHANGED working
  /\ UNCHANGED <<pageVars, profile, matches, refreshing, styleVars, bounds>>

-----------------------------------------------------------------------------
(* What the user does.                                                     *)

Refresh ==
  /\ mounted /\ actions < MaxActions /\ actions' = actions + 1
  /\ ~refreshing /\ profile # None
  /\ refreshing' = TRUE
  /\ calls' = calls \cup {Call("refresh", 0, None)}
  /\ UNCHANGED <<pageVars, profile, matches, working, polling, styleVars, polls, answers>>

RefreshArrives(c) ==
  /\ c \in calls /\ c.step = "refresh"
  /\ \/ \* started
        /\ working' \in BOOLEAN
        /\ calls' = (calls \ {c}) \cup {MatchesCall("refreshed")}
        /\ UNCHANGED <<polling, refreshing>>
     \/ \* another is in progress, or it failed
        /\ polling' \in {polling, working}
        /\ refreshing' = FALSE
        /\ calls' = calls \ {c} /\ UNCHANGED working
  /\ UNCHANGED <<pageVars, profile, matches, styleVars, bounds>>

SetQueueCategory ==
  /\ mounted /\ actions < MaxActions /\ actions' = actions + 1
  /\ calls' = calls \cup {MatchesCall(None)}
  /\ UNCHANGED <<pageVars, matchVars, styleVars, polls, answers>>

\* The page is reused for another player: loadProfile.
Visit(p) ==
  /\ mounted /\ actions < MaxActions /\ actions' = actions + 1
  /\ p # route
  /\ route' = p
  /\ timers' = {} /\ playstyleId' = playstyleId + 1
  /\ playstylePending' = TRUE /\ playstyle' = None /\ failed' = FALSE
  /\ calls' = calls \cup {[Call("playstyle", playstyleId + 1, None) EXCEPT !.player = p],
                          [Call("profile", 0, "load") EXCEPT !.player = p]}
  /\ UNCHANGED <<mounted, matchVars, polls, answers>>

Unmount ==
  /\ mounted /\ mounted' = FALSE
  /\ polling' = FALSE /\ timers' = {}
  /\ UNCHANGED <<route, profile, matches, working, refreshing, playstyle,
                 playstylePending, playstyleId, failed, calls, bounds>>

Next ==
  \/ \E c \in calls : \/ PlaystyleArrives(c) \/ MatchesArrive(c) \/ ProfileArrives(c)
                      \/ StatusArrives(c) \/ RefreshArrives(c)
  \/ \E id \in timers : TimerFires(id)
  \/ PollTick \/ Refresh \/ SetQueueCategory \/ Unmount
  \/ \E p \in Players : Visit(p)

Spec == Init /\ [][Next]_vars

-----------------------------------------------------------------------------
TypeOK ==
  /\ route \in Players
  /\ profile \in Players \cup {None}
  /\ playstyle \in {None} \cup
       [player : Players, status : {"PENDING", "READY", "UNAVAILABLE"}]
  /\ timers \subseteq 1..playstyleId

(* One chain pursues the playstyle that is shown: it is that of the player *)
(* of the route; the latest load has at most one request or timer in       *)
(* flight, whatever reloads, polls and refreshes overlapped; the page says *)
(* that it is loading only while that request is out, and that the text is *)
(* being written only while something will ask again, or its request       *)
(* failed: then the page goes on saying so.                                *)
PlaystyleIsPursued ==
  LET asking == {c \in calls : c.step = "playstyle" /\ c.id = playstyleId}
      waiting == timers \cap {playstyleId} IN
  /\ playstyle # None => playstyle.player = route
  /\ Cardinality(asking) + Cardinality(waiting) <= 1
  /\ playstylePending => asking # {}
  /\ (mounted /\ playstyle # None) =>
       (playstyle.status = "PENDING" => asking # {} \/ waiting # {} \/ failed)
=============================================================================
