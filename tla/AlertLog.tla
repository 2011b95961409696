------------------------------ MODULE AlertLog -------------------------------
(***************************************************************************)
(* What the alert engine promises: requests and evaluations take effect    *)
(* one at a time.  An alert that is stored could fire, it fires only when  *)
(* its cooldown is over, and its history is the list of its triggers.      *)
(***************************************************************************)
EXTENDS AlertRules

VARIABLES
  alerts,   \* the alerts table, a function of the ids of its rows
  events,   \* events[a]: the times of the triggers of alert a, in order
  clock,
  given     \* ids the sequence has handed out

vars == <<alerts, events, clock, given>>

\* Some acceptable alerts, none triggered yet.
Init ==
  /\ given \in SUBSET Ids
  /\ alerts \in [given -> {RowOf(fields, Never) : fields \in {f \in Fields : Acceptable(f)}}]
  /\ events = [a \in Ids |-> <<>>]
  /\ clock = 0

\* An id is handed out once, whether its row is committed or not.
NewId(a) == a \in Ids \ given /\ \A b \in Ids \ given : a <= b

CreateAlert ==
  \E a \in Ids, fields \in Fields :
    /\ NewId(a)
    /\ Acceptable(fields)
    /\ given' = given \cup {a}
    /\ alerts' = [b \in DOMAIN alerts \cup {a} |->
                   IF b = a THEN RowOf(fields, Never) ELSE alerts[b]]
    /\ UNCHANGED <<events, clock>>

\* An update writes fields a client may set and leaves an alert that is acceptable.
UpdateAlert ==
  \E a \in DOMAIN alerts, fields \in Fields :
    /\ Acceptable(fields)
    /\ alerts' = [alerts EXCEPT ![a] = RowOf(fields, @.last_triggered_at)]
    /\ UNCHANGED <<events, clock, given>>

\* The history of an alert goes with it.
DeleteAlert ==
  \E a \in DOMAIN alerts :
    /\ alerts' = [b \in DOMAIN alerts \ {a} |-> alerts[b]]
    /\ events' = [events EXCEPT ![a] = <<>>]
    /\ UNCHANGED <<clock, given>>

\* An evaluation whose condition is met, decided at a time that may have passed.
Trigger ==
  \E a \in DOMAIN alerts, now \in 0 .. clock :
    /\ ~ WithinCooldown(alerts[a], now)
    /\ CanFire(alerts[a])
    /\ alerts' = [alerts EXCEPT ![a].last_triggered_at = now]
    /\ events' = [events EXCEPT ![a] = Append(@, now)]
    /\ UNCHANGED <<clock, given>>

Tick ==
  /\ clock < MaxTime
  /\ clock' = clock + 1
  /\ UNCHANGED <<alerts, events, given>>

Next == CreateAlert \/ UpdateAlert \/ DeleteAlert \/ Trigger \/ Tick

Spec == Init /\ [][Next]_vars

-----------------------------------------------------------------------------
\* Rows have ids that were handed out, and the histories are lists of times.
TypeOK ==
  /\ DOMAIN alerts \subseteq given
  /\ given \subseteq Ids
  /\ \A a \in DOMAIN alerts : alerts[a] \in Rows
  /\ events \in [Ids -> Seq(Times)]
  /\ clock \in Times

\* Triggers of one alert are at least a cooldown apart, whatever was updated in
\* between (alert_service.py:150, 156).
TriggersAreSpaced ==
  \A a \in Ids : \A i, j \in DOMAIN events[a] :
    i < j => events[a][j] - events[a][i] >= Cooldown

\* last_triggered_at, on which the cooldown rests, is the time of the newest event
\* (alert_service.py:239).
LastIsNewest ==
  \A a \in DOMAIN alerts :
    alerts[a].last_triggered_at =
      IF events[a] = <<>> THEN Never ELSE events[a][Len(events[a])]
=============================================================================
