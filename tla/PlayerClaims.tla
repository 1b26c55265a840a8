---------------------------- MODULE PlayerClaims ----------------------------
(***************************************************************************)
(* What the collector promises about a tracked player, however its runs    *)
(* overlap, time out or crash: a refresh claims the player while nobody    *)
(* holds it, or after the holder's lease has lapsed, and a claim is        *)
(* settled at most once. Only a settlement moves the failure count up or   *)
(* the streak of refreshes without new matches, and only an operator puts  *)
(* a player back to ACTIVE.                                                *)
(***************************************************************************)
EXTENDS Integers

CONSTANTS Player, Holder, MaxStreak, None

VARIABLES holder, lapsed, status, failures, streak

Status == {"ACTIVE", "PAUSED", "SUSPENDED"}

Init ==
  /\ holder = [p \in Player |-> None] /\ lapsed = [p \in Player |-> FALSE]
  /\ status = [p \in Player |-> "ACTIVE"]
  /\ failures = [p \in Player |-> 0] /\ streak = [p \in Player |-> 0]

Kept(p) == /\ status'[p] = status[p] /\ failures'[p] = failures[p]
           /\ streak'[p] = streak[p]

Claim(p) ==
  /\ status[p] = "ACTIVE"
  /\ holder[p] = None \/ lapsed[p]
  /\ holder'[p] \in Holder /\ ~lapsed'[p]
  /\ Kept(p)

Lapse(p) == holder[p] # None /\ holder'[p] = holder[p] /\ lapsed'[p] /\ Kept(p)

Freed(p) == holder[p] # None /\ holder'[p] = None /\ ~lapsed'[p]

Release(p) == Freed(p) /\ Kept(p)

SettleSuccess(p) ==
  /\ Freed(p)
  /\ streak'[p] = 0 \/ streak'[p] = (IF streak[p] < MaxStreak THEN streak[p] + 1 ELSE MaxStreak)
  /\ failures'[p] = IF status[p] = "ACTIVE" THEN 0 ELSE failures[p]
  /\ status'[p] = status[p]

SettleFailure(p) ==
  /\ Freed(p)
  /\ failures'[p] = failures[p] + 1
  /\ status'[p] \in {status[p], "SUSPENDED"} /\ streak'[p] = streak[p]

Operator(p) ==
  /\ status'[p] \in Status
  /\ failures'[p] \in {0, failures[p]} /\ streak'[p] = streak[p]
  /\ \/ holder'[p] = holder[p] /\ lapsed'[p] = lapsed[p]
     \/ holder'[p] = None /\ ~lapsed'[p]

Next ==
  \A p \in Player :
    \/ holder'[p] = holder[p] /\ lapsed'[p] = lapsed[p] /\ Kept(p)
    \/ Claim(p) \/ Lapse(p) \/ Release(p)
    \/ SettleSuccess(p) \/ SettleFailure(p) \/ Operator(p)

Spec == Init /\ [][Next]_<<holder, lapsed, status, failures, streak>>
=============================================================================
