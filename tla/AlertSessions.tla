---------------------------- MODULE AlertSessions ----------------------------
(***************************************************************************)
(* The alert requests and the evaluate_alerts task, as the statements of   *)
(* their database sessions.  Sessions interleave between statements, hold  *)
(* row locks from the statement that writes to the commit, and may die at  *)
(* any point; the mail of a trigger leaves before the trigger commits.     *)
(*                                                                         *)
(* An evaluation inserts the event and its notification (which locks the   *)
(* alert row against deletion, as a foreign key does), sends the mail,     *)
(* writes last_triggered_at and commits.  A commit or a rollback expires   *)
(* every row a session has loaded; the next use of one reads it again.     *)
(***************************************************************************)
EXTENDS AlertRules

CONSTANTS
  Sessions,      \* API threads and Celery workers
  Initially,     \* the alerts at the start, a function of their ids
  Created,       \* the fields of the alerts clients create
  Changes,       \* the updates clients ask for
  Broken,        \* TRUE: reading a metric may raise
  MayCrash,      \* TRUE: processes may die
  MaxRequests    \* bound on the requests and tasks begun

\* An update names the columns it sets and those it sets to null.
ASSUME SessionsAssumption ==
  /\ IsFiniteSet(Sessions)
  /\ IsFiniteSet(Ids)
  /\ DOMAIN Initially \subseteq Ids
  /\ Initially \in [DOMAIN Initially -> {RowOf(fields, Never) : fields \in {f \in Fields : Acceptable(f)}}]
  /\ Created \subseteq Fields
  /\ \A change \in Changes :
       /\ Settable(change.set)
       /\ change.nulls \subseteq {"alert_type", "condition", "threshold", "is_active"}
       /\ change.nulls \cap DOMAIN change.set = {}
  /\ Broken \in BOOLEAN
  /\ MayCrash \in BOOLEAN
  /\ MaxRequests \in Nat

VARIABLES
  alerts,    \* the committed alerts table, a function of the ids of its rows
  events,    \* events[a]: the committed events of alert a and their notifications
  clock,
  given,     \* ids the sequence has handed out
  session,   \* session[s]: what session s is doing
  mails,     \* mails[a]: mails the provider has sent for alert a
  lost,      \* lost[a]: those of them whose process died before its commit
  begun      \* requests and tasks begun

vars == <<alerts, events, clock, given, session, mails, lost, begun>>

\* basis is the number of events the alert had when the session loaded its row.
Loaded(a) == [row |-> alerts[a], basis |-> Len(events[a])]

Idle ==
  [kind |-> "none", pc |-> "idle", todo |-> <<>>, loaded |-> <<>>, now |-> 0,
   status |-> "PENDING", mailed |-> FALSE, columns |-> <<>>, nulls |-> {}, seen |-> 0]

Init ==
  /\ alerts = Initially
  /\ events = [a \in Ids |-> <<>>]
  /\ clock = 0
  /\ given = DOMAIN Initially
  /\ session = [s \in Sessions |-> Idle]
  /\ mails = [a \in Ids |-> 0]
  /\ lost = [a \in Ids |-> 0]
  /\ begun = 0

-----------------------------------------------------------------------------
At(s, pc) == session[s].pc = pc

Evaluates(s) == session[s].kind \in {"evaluate", "batch"}

\* The alert session s works on: a batch takes the first it has left.
Target(s) == Head(session[s].todo)

Goto(s, pc) == session' = [session EXCEPT ![s].pc = pc]

End(s) == session' = [session EXCEPT ![s] = Idle]

\* A slip: the loop stays at its alert.
ContinueHere(s, loaded) ==
  IF session[s].kind = "batch" /\ Len(session[s].todo) > 1
  THEN session' = [session EXCEPT ![s] =
         [Idle EXCEPT !.kind = "batch", !.pc = "check", !.todo = session[s].todo]]
  ELSE End(s)

\* A batch goes on with the next alert, every other session has answered.
Continue(s, loaded) ==
  IF session[s].kind = "batch" /\ Len(session[s].todo) > 1
  THEN session' = [session EXCEPT ![s] =
         [Idle EXCEPT !.kind = "batch", !.pc = "check", !.todo = Tail(session[s].todo),
                      !.loaded = loaded]]
  ELSE End(s)

\* A slip: an exception leaves the loop.
RaiseOut(s) ==
  IF session[s].kind = "batch" THEN Goto(s, "escaped") ELSE End(s)

\* An exception rolls back.  A request has answered; a batch goes on to report it.
Raise(s) ==
  IF session[s].kind = "batch"
  THEN session' = [session EXCEPT ![s] =
         [Idle EXCEPT !.kind = "batch", !.pc = "respond", !.todo = session[s].todo]]
  ELSE End(s)

\* Row locks: a new event shares its alert's row, an update takes the row but for
\* its key, a deletion takes all of it.
Shares(s, a) == Evaluates(s) /\ session[s].pc \in {"mail", "record", "commit"} /\ Target(s) = a

Updates(s, a) ==
  At(s, "commit") /\ session[s].kind # "delete" /\ DOMAIN session[s].columns # {} /\ Target(s) = a

Deletes(s, a) == At(s, "commit") /\ session[s].kind = "delete" /\ Target(s) = a

Others(s) == Sessions \ {s}

MayInsertEvent(s, a) == \A t \in Others(s) : ~ Deletes(t, a)

MayUpdate(s, a) == \A t \in Others(s) : ~ Updates(t, a) /\ ~ Deletes(t, a)

MayDelete(s, a) ==
  \A t \in Others(s) : ~ Shares(t, a) /\ ~ Updates(t, a) /\ ~ Deletes(t, a)

-----------------------------------------------------------------------------
(***************************************************************************)
(* Requests                                                                *)
(***************************************************************************)
MayBegin(s) == At(s, "idle") /\ begun < MaxRequests

Start(s, work) ==
  /\ session' = [session EXCEPT ![s] = work]
  /\ begun' = begun + 1

\* One INSERT and its commit; the id is taken even if the request is refused later.
CreateAlert(s) ==
  \E a \in Ids \ given, fields \in Created :
    /\ MayBegin(s)
    /\ \A b \in Ids \ given : a <= b
    /\ Acceptable(fields)
    /\ given' = given \cup {a}
    /\ alerts' = [b \in DOMAIN alerts \cup {a} |->
                   IF b = a THEN RowOf(fields, Never) ELSE alerts[b]]
    /\ begun' = begun + 1
    /\ UNCHANGED <<events, clock, session, mails, lost>>

\* POST /alerts/{id}/evaluate, whether the alert is active or not.
BeginEvaluate(s) ==
  \E a \in DOMAIN alerts :
    /\ MayBegin(s)
    /\ Start(s, [Idle EXCEPT !.kind = "evaluate", !.pc = "check", !.todo = <<a>>,
                             !.loaded = [b \in {a} |-> Loaded(a)]])
    /\ UNCHANGED <<alerts, events, clock, given, mails, lost>>

\* The task loads every active alert, in the order of the ids.
BeginBatch(s) ==
  LET active == {a \in DOMAIN alerts : alerts[a].is_active} IN
  /\ MayBegin(s)
  /\ active # {}
  /\ \E todo \in [1 .. Cardinality(active) -> active] :
       /\ \A i, j \in DOMAIN todo : i < j => todo[i] < todo[j]
       /\ Start(s, [Idle EXCEPT !.kind = "batch", !.pc = "check", !.todo = todo,
                                !.loaded = [a \in active |-> Loaded(a)]])
  /\ UNCHANGED <<alerts, events, clock, given, mails, lost>>

\* A slip: checking what the request sets against the row as it was.
PassesUnmerged(row, change) == Acceptable(row)

\* The row as the request would leave it passes the checks of a new one.  A null
\* alert_type is no PRICE and has no conditions to check; a null condition is refused.
Passes(row, change) ==
  LET merged == Written(row, change.set) IN
  IF "alert_type" \in change.nulls
  THEN merged.portfolio_id = "own"
  ELSE "condition" \notin change.nulls /\ Acceptable(merged)

BeginUpdate(s) ==
  \E a \in DOMAIN alerts, change \in Changes :
    /\ MayBegin(s)
    /\ Passes(alerts[a], change)
    /\ Start(s, [Idle EXCEPT !.kind = "update", !.pc = "flush", !.todo = <<a>>,
                             !.loaded = [b \in {a} |-> Loaded(a)],
                             !.columns = change.set, !.nulls = change.nulls])
    /\ UNCHANGED <<alerts, events, clock, given, mails, lost>>

\* Deleting loads the alert and the events that go with it.
BeginDelete(s) ==
  \E a \in DOMAIN alerts :
    /\ MayBegin(s)
    /\ Start(s, [Idle EXCEPT !.kind = "delete", !.pc = "delete", !.todo = <<a>>,
                             !.seen = Len(events[a])])
    /\ UNCHANGED <<alerts, events, clock, given, mails, lost>>

-----------------------------------------------------------------------------
(***************************************************************************)
(* Evaluating an alert                                                     *)
(***************************************************************************)
\* What is left loaded of the alerts after the one at hand.
LoadedOfRest(s) ==
  LET rest == DOMAIN session[s].loaded \ {Target(s)} IN
  [a \in rest |-> session[s].loaded[a]]

\* An expired row is read again.
Expired(s) == Target(s) \notin DOMAIN session[s].loaded

AtHand(s) == IF Expired(s) THEN Loaded(Target(s)) ELSE session[s].loaded[Target(s)]

MayCheck(s) == At(s, "check") /\ (Expired(s) => Target(s) \in DOMAIN alerts)

\* The row is gone: ObjectDeletedError.
MissAlert(s) ==
  /\ At(s, "check") /\ Expired(s) /\ Target(s) \notin DOMAIN alerts
  /\ Raise(s)
  /\ UNCHANGED <<alerts, events, clock, given, mails, lost, begun>>

\* The cooldown, a metric that has no data, or a condition that is not met.
StayQuiet(s) ==
  /\ MayCheck(s)
  /\ \/ WithinCooldown(AtHand(s).row, clock)
     \/ ~ Referenced(AtHand(s).row)
     \/ Readable(AtHand(s).row) /\ \E reading \in Readings : ~ ConditionMet(AtHand(s).row, reading)
  /\ Continue(s, LoadedOfRest(s))
  /\ UNCHANGED <<alerts, events, clock, given, mails, lost, begun>>

\* The analytics raise: the portfolio is not the owner's, or anything else fails.
FailToRead(s) ==
  /\ MayCheck(s)
  /\ ~ WithinCooldown(AtHand(s).row, clock)
  /\ Referenced(AtHand(s).row)
  /\ Broken \/ ~ Owned(AtHand(s).row)
  /\ Raise(s)
  /\ UNCHANGED <<alerts, events, clock, given, mails, lost, begun>>

MeetCondition(s) ==
  LET loaded == session[s].loaded
      kept   == [a \in DOMAIN loaded \cup {Target(s)} |->
                  IF a = Target(s) THEN AtHand(s) ELSE loaded[a]]
  IN  /\ MayCheck(s)
      /\ ~ WithinCooldown(AtHand(s).row, clock)
      /\ CanFire(AtHand(s).row)
      /\ session' = [session EXCEPT ![s] =
           [@ EXCEPT !.pc = "insert", !.now = clock, !.loaded = kept]]
      /\ UNCHANGED <<alerts, events, clock, given, mails, lost, begun>>

\* The event and its PENDING notification; the event's alert must be there.
InsertEvent(s) ==
  /\ At(s, "insert")
  /\ MayInsertEvent(s, Target(s))
  /\ IF Target(s) \in DOMAIN alerts THEN Goto(s, "mail") ELSE Raise(s)
  /\ UNCHANGED <<alerts, events, clock, given, mails, lost, begun>>

\* A slip: SENT whatever the provider answers.
SendMailBlindly(s) ==
  \E sent \in BOOLEAN :
    /\ At(s, "mail")
    /\ session' = [session EXCEPT ![s].pc = "record", ![s].status = "SENT", ![s].mailed = sent]
    /\ mails' = IF sent THEN [mails EXCEPT ![Target(s)] = @ + 1] ELSE mails
    /\ UNCHANGED <<alerts, events, clock, given, lost, begun>>

\* The provider's call: an answer that is lost counts as a failure.
SendMail(s) ==
  \E sent \in BOOLEAN, status \in {"SENT", "FAILED"} :
    /\ At(s, "mail")
    /\ status = "SENT" => sent
    /\ session' = [session EXCEPT ![s].pc = "record", ![s].status = status, ![s].mailed = sent]
    /\ mails' = IF sent THEN [mails EXCEPT ![Target(s)] = @ + 1] ELSE mails
    /\ UNCHANGED <<alerts, events, clock, given, lost, begun>>

\* A slip: last_triggered_at only after a delivery.
RecordDelivery(s) ==
  /\ At(s, "record")
  /\ MayUpdate(s, Target(s))
  /\ session' = [session EXCEPT ![s].pc = "commit",
       ![s].columns = IF session[s].status = "SENT"
                      THEN [last_triggered_at |-> session[s].now] ELSE <<>>]
  /\ UNCHANGED <<alerts, events, clock, given, mails, lost, begun>>

\* The delivery's outcome and last_triggered_at.
RecordTrigger(s) ==
  /\ At(s, "record")
  /\ MayUpdate(s, Target(s))
  /\ session' = [session EXCEPT ![s].pc = "commit",
                               ![s].columns = [last_triggered_at |-> session[s].now]]
  /\ UNCHANGED <<alerts, events, clock, given, mails, lost, begun>>

CommitTrigger(s) ==
  LET a == Target(s) IN
  /\ At(s, "commit") /\ Evaluates(s)
  /\ alerts' = [alerts EXCEPT ![a] = Written(@, session[s].columns)]
  /\ events' = [events EXCEPT ![a] =
       Append(@, [at |-> session[s].now, status |-> session[s].status,
                  basis |-> session[s].loaded[a].basis])]
  /\ session' = [session EXCEPT ![s] = [Idle EXCEPT
       !.kind = session[s].kind, !.pc = "respond", !.todo = session[s].todo]]
  /\ UNCHANGED <<clock, given, mails, lost, begun>>

\* The answer, or the report of a failure, reads the expired alert again.  In a
\* batch, an alert that is gone raises inside the handler and leaves the loop.
Respond(s) ==
  /\ At(s, "respond")
  /\ IF session[s].kind = "batch" /\ Target(s) \notin DOMAIN alerts
     THEN Goto(s, "escaped")
     ELSE Continue(s, <<>>)
  /\ UNCHANGED <<alerts, events, clock, given, mails, lost, begun>>

\* The task has failed; the worker closes the session.
Escape(s) ==
  /\ At(s, "escaped")
  /\ End(s)
  /\ UNCHANGED <<alerts, events, clock, given, mails, lost, begun>>

\* A slip: writing the whole row back.
Everything(s) == Written(session[s].loaded[Target(s)].row, session[s].columns)

-----------------------------------------------------------------------------
(***************************************************************************)
(* Updating and deleting                                                   *)
(***************************************************************************)
\* Only the columns that differ from the loaded row are written.
Differing(s) ==
  LET row == session[s].loaded[Target(s)].row
      set == session[s].columns
      names == {name \in DOMAIN set : set[name] # row[name]}
  IN [name \in names |-> set[name]]

\* A null breaks NOT NULL, a row that is gone cannot be refreshed.
FlushUpdate(s) ==
  /\ At(s, "flush")
  /\ DOMAIN Differing(s) # {} => MayUpdate(s, Target(s))
  /\ IF session[s].nulls # {} \/ Target(s) \notin DOMAIN alerts
     THEN End(s)
     ELSE session' = [session EXCEPT ![s].pc = "commit", ![s].columns = Differing(s)]
  /\ UNCHANGED <<alerts, events, clock, given, mails, lost, begun>>

CommitUpdate(s) ==
  /\ At(s, "commit") /\ session[s].kind = "update"
  /\ alerts' = IF Target(s) \in DOMAIN alerts
               THEN [alerts EXCEPT ![Target(s)] = Written(@, session[s].columns)]
               ELSE alerts
  /\ End(s)
  /\ UNCHANGED <<events, clock, given, mails, lost, begun>>

\* Events committed since the session looked hold the alert: a foreign key error.
\* An alert that is gone already is deleted again without complaint.
FlushDelete(s) ==
  /\ At(s, "delete")
  /\ MayDelete(s, Target(s))
  /\ IF Target(s) \in DOMAIN alerts /\ Len(events[Target(s)]) # session[s].seen
     THEN End(s)
     ELSE Goto(s, "commit")
  /\ UNCHANGED <<alerts, events, clock, given, mails, lost, begun>>

CommitDelete(s) ==
  LET rest == DOMAIN alerts \ {Target(s)} IN
  /\ At(s, "commit") /\ session[s].kind = "delete"
  /\ alerts' = [a \in rest |-> alerts[a]]
  /\ events' = [events EXCEPT ![Target(s)] = <<>>]
  /\ End(s)
  /\ UNCHANGED <<clock, given, mails, lost, begun>>

-----------------------------------------------------------------------------
Tick ==
  /\ clock < MaxTime
  /\ clock' = clock + 1
  /\ UNCHANGED <<alerts, events, given, session, mails, lost, begun>>

\* The process or its connection dies: nothing of the transaction is left.
Crash(s) ==
  /\ MayCrash
  /\ ~ At(s, "idle")
  /\ lost' = IF session[s].mailed THEN [lost EXCEPT ![Target(s)] = @ + 1] ELSE lost
  /\ End(s)
  /\ UNCHANGED <<alerts, events, clock, given, mails, begun>>

Begin(s) ==
  \/ CreateAlert(s) \/ BeginEvaluate(s) \/ BeginBatch(s)
  \/ BeginUpdate(s) \/ BeginDelete(s)

Work(s) ==
  \/ MissAlert(s) \/ StayQuiet(s) \/ FailToRead(s) \/ MeetCondition(s)
  \/ InsertEvent(s) \/ SendMail(s) \/ RecordTrigger(s) \/ CommitTrigger(s)
  \/ Respond(s) \/ Escape(s)
  \/ FlushUpdate(s) \/ CommitUpdate(s) \/ FlushDelete(s) \/ CommitDelete(s)

Next == (\E s \in Sessions : Begin(s) \/ Work(s) \/ Crash(s)) \/ Tick

Spec == Init /\ [][Next]_vars

\* Threads and workers run, the provider's client gives up after a while, and a
\* lock that is released goes to the session that waits for it.
FairSpec == Spec /\ \A s \in Sessions : WF_vars(Work(s))

-----------------------------------------------------------------------------
\* last_triggered_at is the time of the event committed last, whatever interleaves:
\* both are one transaction's, and an update of the alert writes other columns
\* (alert_service.py:81, 239).
LastIsCommittedLast ==
  \A a \in DOMAIN alerts :
    alerts[a].last_triggered_at =
      IF events[a] = <<>> THEN Never ELSE events[a][Len(events[a])].at

\* Two triggers in a row are closer than the cooldown only if the second was decided
\* on a row loaded before the first was committed (alert_service.py:148).
OnlyStaleRowsBreakTheCooldown ==
  \A a \in Ids : \A i \in DOMAIN events[a] :
    i > 1 /\ events[a][i].basis = i - 1 => events[a][i].at - events[a][i - 1].at >= Cooldown

Mailing(a) == {s \in Sessions : session[s].mailed /\ Target(s) = a}

\* Every mail is in the history of its alert, about to be, or was lost to a crash
\* between the provider's answer and the commit; what is recorded as SENT was sent.
MailsAreRecorded ==
  \A a \in DOMAIN alerts :
    LET accounted == Cardinality(Mailing(a)) + lost[a] IN
    /\ mails[a] <= Len(events[a]) + accounted
    /\ Cardinality({i \in DOMAIN events[a] : events[a][i].status = "SENT"}) + accounted
         <= mails[a]

\* A batch is cut short by nothing but the deletion of an alert it has loaded.
OnlyDeletionStopsABatch ==
  \A s \in Sessions : At(s, "escaped") => Target(s) \notin DOMAIN alerts

\* What is stored could fire: the checks of create and update leave no alert whose
\* type has no such condition or whose metric cannot be read (alert_service.py:301).
StoredAlertsCanFire == \A a \in DOMAIN alerts : CanFire(alerts[a])

\* Triggers of one alert are a cooldown apart (alert_service.py:156).
TriggersAreSpaced ==
  \A a \in Ids : \A i \in DOMAIN events[a] :
    i > 1 => events[a][i].at - events[a][i - 1].at >= Cooldown

\* Every request and every task ends: no session waits for ever for a row.
EveryRequestEnds == \A s \in Sessions : ~ At(s, "idle") ~> At(s, "idle")

\* Served one at a time, the sessions do what AlertLog promises.
Log == INSTANCE AlertLog WITH
  events <- [a \in Ids |-> [i \in DOMAIN events[a] |-> events[a][i].at]]

ImplementsAlertLog == Log!Spec

=============================================================================
