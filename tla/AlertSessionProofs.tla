------------------------- MODULE AlertSessionProofs --------------------------
(***************************************************************************)
(* What holds of the alert sessions whatever their number, their           *)
(* interleaving and their crashes, and what holds besides when there is    *)
(* one session only.                                                       *)
(*                                                                         *)
(* AlertInv ties what a session holds to the tables: a loaded row is the   *)
(* row its alert had when it had as many events as the row's basis says.   *)
(* AloneInv adds that the only session's rows are never stale; under it    *)
(* every step is one of AlertLog's or invisible to it.                     *)
(***************************************************************************)
EXTENDS AlertSessions, FiniteSetTheorems, TLAPS

-----------------------------------------------------------------------------
(***************************************************************************)
(* The inductive invariant, for any number of sessions.                    *)
(***************************************************************************)
Evaluating(w) == w.kind \in {"evaluate", "batch"}

\* What a session holds: the alerts it has to go through, the rows it has loaded.
Task(w) ==
  /\ DOMAIN w = {"kind", "pc", "todo", "loaded", "now", "status", "mailed", "columns", "nulls",
                 "seen"}
  /\ w.kind \in {"none", "evaluate", "batch", "update", "delete"}
  /\ w.kind = "none" <=> w.pc = "idle"
  /\ Evaluating(w) =>
       w.pc \in {"check", "insert", "mail", "record", "commit", "respond", "escaped"}
  /\ w.kind = "update" => w.pc \in {"flush", "commit"}
  /\ w.kind = "delete" => w.pc \in {"delete", "commit"}
  /\ w.todo \in Seq(given)
  /\ w.pc # "idle" => w.todo # <<>>
  /\ DOMAIN w.loaded \subseteq given
  /\ \A a \in DOMAIN w.loaded : w.loaded[a].row \in Rows /\ w.loaded[a].basis \in Nat
  /\ w.now \in Times
  /\ w.status \in {"PENDING", "SENT", "FAILED"}
  /\ w.mailed \in BOOLEAN

\* The time of the n-th event, Never before the first.
TimeOf(history, n) == IF n = 0 THEN Never ELSE history[n].at

\* A row that was loaded is as it was when its alert had the events of its basis.
LoadedOnce(w) ==
  \A a \in DOMAIN w.loaded \cap DOMAIN alerts :
    /\ w.loaded[a].basis <= Len(events[a])
    /\ w.loaded[a].row.last_triggered_at = TimeOf(events[a], w.loaded[a].basis)

\* How far an evaluation or an update has come.
Decided(w) ==
  LET a == Head(w.todo) IN
  /\ Evaluating(w) /\ w.pc \in {"insert", "mail", "record", "commit"}
       => a \in DOMAIN w.loaded /\ ~ WithinCooldown(w.loaded[a].row, w.now)
  /\ Evaluating(w) /\ w.pc \in {"mail", "record", "commit"} => a \in DOMAIN alerts
  /\ Evaluating(w) /\ w.pc = "commit" => w.columns = [last_triggered_at |-> w.now]
  /\ w.kind = "update" => a \in DOMAIN w.loaded /\ Settable(w.columns)
  /\ w.mailed => Evaluating(w) /\ w.pc \in {"record", "commit"}
  /\ w.status = "SENT" => w.mailed
  /\ w.pc = "escaped" => a \notin DOMAIN alerts

Event == [at : Times, status : {"PENDING", "SENT", "FAILED"}, basis : Nat]

\* Ids are handed out once; an alert that is gone, or was never there, has no history.
TablesTyped ==
  /\ DOMAIN alerts \subseteq given
  /\ given \subseteq Ids
  /\ alerts \in [DOMAIN alerts -> Rows]
  /\ events \in [Ids -> Seq(Event)]
  /\ \A a \in Ids \ DOMAIN alerts : events[a] = <<>>
  /\ clock \in Times
  /\ mails \in [Ids -> Nat]
  /\ lost \in [Ids -> Nat]
  /\ \A a \in Ids \ given : mails[a] = 0 /\ lost[a] = 0

\* Nobody deletes an alert that somebody else is inserting an event of.
Excluded ==
  \A s, t \in Sessions : s # t => ~ (Shares(t, Target(t)) /\ Deletes(s, Target(t)))

AlertInv ==
  /\ TablesTyped
  /\ DOMAIN session = Sessions
  /\ \A s \in Sessions : Task(session[s]) /\ LoadedOnce(session[s]) /\ Decided(session[s])
  /\ Excluded
  /\ LastIsCommittedLast
  /\ OnlyStaleRowsBreakTheCooldown
  /\ MailsAreRecorded

-----------------------------------------------------------------------------
(***************************************************************************)
(* Rows.                                                                   *)
(***************************************************************************)
LEMMA WrittenTyped ==
  ASSUME NEW row \in Rows, NEW columns, Settable(columns)
  PROVE  /\ Written(row, columns) \in Rows
         /\ Written(row, columns).last_triggered_at = row.last_triggered_at
<1> DEFINE w == Written(row, columns)
<1>1. DOMAIN row = {"alert_type", "condition", "threshold", "is_active", "asset_id",
                    "portfolio_id", "last_triggered_at"}
  BY DEF Rows
<1>2. w = [name \in DOMAIN row |-> IF name \in DOMAIN columns THEN columns[name] ELSE row[name]]
  BY DEF Written
<1>3. "last_triggered_at" \notin DOMAIN columns
  BY DEF Settable, ColumnValues
<1>4. w.last_triggered_at = row.last_triggered_at
  BY <1>1, <1>2, <1>3
<1>5. /\ w.alert_type \in Types /\ w.condition \in Conditions /\ w.threshold \in Thresholds
      /\ w.is_active \in BOOLEAN /\ w.asset_id \in {"none", "listed"}
      /\ w.portfolio_id \in {"none", "own", "other"}
  BY <1>1, <1>2 DEF Settable, ColumnValues, Rows
<1>6. w.last_triggered_at \in Times \cup {Never}
  BY <1>4 DEF Rows
<1>7. w = [alert_type |-> w.alert_type, condition |-> w.condition, threshold |-> w.threshold,
           is_active |-> w.is_active, asset_id |-> w.asset_id, portfolio_id |-> w.portfolio_id,
           last_triggered_at |-> w.last_triggered_at]
  BY <1>1, <1>2
<1> HIDE DEF w
<1>8. w \in Rows
  BY <1>5, <1>6, <1>7 DEF Rows
<1> QED
  BY <1>4, <1>8 DEF w

LEMMA TriggeredTyped ==
  ASSUME NEW row \in Rows, NEW now \in Times
  PROVE  /\ Written(row, [last_triggered_at |-> now]) \in Rows
         /\ Written(row, [last_triggered_at |-> now]).last_triggered_at = now
         /\ Written(row, [last_triggered_at |-> now]) = [row EXCEPT !.last_triggered_at = now]
<1> DEFINE w == Written(row, [last_triggered_at |-> now])
<1>1. DOMAIN row = {"alert_type", "condition", "threshold", "is_active", "asset_id",
                    "portfolio_id", "last_triggered_at"}
  BY DEF Rows
<1>2. w = [name \in DOMAIN row |-> IF name = "last_triggered_at" THEN now ELSE row[name]]
  BY DEF Written
<1>3. w = [row EXCEPT !.last_triggered_at = now]
  BY <1>1, <1>2
<1>4. [row EXCEPT !.last_triggered_at = now] \in Rows
  BY DEF Rows
<1> QED
  BY <1>1, <1>2, <1>3, <1>4

LEMMA RowOfTyped ==
  ASSUME NEW fields \in Fields, NEW last \in Times \cup {Never}
  PROVE  RowOf(fields, last) \in Rows /\ RowOf(fields, last).last_triggered_at = last
  BY DEF Fields, Rows, RowOf

-----------------------------------------------------------------------------
(***************************************************************************)
(* Steps that leave the tables alone.                                      *)
(***************************************************************************)
tables == <<alerts, events, given, mails, lost, clock>>

\* A session that holds an event of alert a, one that deletes it.
Sharing(w, a) == Evaluating(w) /\ w.pc \in {"mail", "record", "commit"} /\ Head(w.todo) = a

Deleting(w, a) == w.kind = "delete" /\ w.pc = "commit" /\ Head(w.todo) = a

LEMMA LocksOf ==
  \A s, a : /\ Shares(s, a) <=> Sharing(session[s], a)
            /\ Deletes(s, a) <=> Deleting(session[s], a)
BY DEF Shares, Deletes, Sharing, Deleting, Evaluates, Evaluating, At, Target

\* What is known of a session holds as long as the tables stand.
LEMMA KnownLasts ==
  ASSUME UNCHANGED tables, NEW r \in Sessions,
         Task(session'[r]), LoadedOnce(session'[r]), Decided(session'[r])
  PROVE  (Task(session[r]) /\ LoadedOnce(session[r]) /\ Decided(session[r]))'
<1>1. given' = given /\ alerts' = alerts /\ events' = events
  BY DEF tables
<1>2. Task(session[r])'
  BY <1>1 DEF Task, Evaluating
<1>3. LoadedOnce(session[r])'
  BY <1>1 DEF LoadedOnce, TimeOf
<1>4. Decided(session[r])'
  BY <1>1 DEF Decided, Evaluating, WithinCooldown, Settable
<1> QED
  BY <1>2, <1>3, <1>4

\* A step of one session that takes no lock against the others.
LEMMA StillExcluded ==
  ASSUME Excluded, NEW s \in Sessions, NEW w,
         \A r \in Sessions : session'[r] = IF r = s THEN w ELSE session[r],
         \A a : Sharing(w, a) => Sharing(session[s], a) \/ MayInsertEvent(s, a),
         \A a : Deleting(w, a) => Deleting(session[s], a) \/ MayDelete(s, a)
  PROVE  Excluded'
<1>1. SUFFICES ASSUME NEW r \in Sessions, NEW t \in Sessions, NEW a, r # t,
                      Deleting(session'[r], a), Sharing(session'[t], a)
               PROVE  FALSE
  BY DEF Excluded, Shares, Deletes, Sharing, Deleting, Evaluates, Evaluating, At, Target
<1>2. Deletes(r, a) \/ (r = s /\ MayDelete(s, a))
  BY <1>1, LocksOf
<1>3. Shares(t, a) \/ (t = s /\ MayInsertEvent(s, a))
  BY <1>1, LocksOf
<1>4. ~ (Deletes(r, a) /\ Shares(t, a))
  BY <1>1 DEF Excluded, Shares, Target
<1>5. CASE r = s /\ MayDelete(s, a)
  BY <1>1, <1>3, <1>5 DEF MayDelete, Others
<1>6. CASE t = s /\ MayInsertEvent(s, a)
  BY <1>1, <1>2, <1>6 DEF MayInsertEvent, Others
<1> QED
  BY <1>2, <1>3, <1>4, <1>5, <1>6

LEMMA SessionStep ==
  ASSUME AlertInv, NEW s \in Sessions, NEW w, session' = [session EXCEPT ![s] = w],
         UNCHANGED tables,
         Task(w), LoadedOnce(w), Decided(w),
         w.mailed = session[s].mailed,
         w.mailed => Head(w.todo) = Head(session[s].todo),
         \A a : Sharing(w, a) => Sharing(session[s], a) \/ MayInsertEvent(s, a),
         \A a : Deleting(w, a) => Deleting(session[s], a) \/ MayDelete(s, a)
  PROVE  AlertInv'
<1>1. \A r \in Sessions : session'[r] = IF r = s THEN w ELSE session[r]
  BY DEF AlertInv
<1>2. \A r \in Sessions : Task(session'[r]) /\ LoadedOnce(session'[r]) /\ Decided(session'[r])
  BY <1>1 DEF AlertInv
<1>3. \A r \in Sessions : (Task(session[r]) /\ LoadedOnce(session[r]) /\ Decided(session[r]))'
  BY <1>2, KnownLasts
<1>4. TablesTyped'
  BY DEF AlertInv, TablesTyped, tables
<1>5. Excluded'
  <2>1. Excluded
    BY DEF AlertInv
  <2> QED
    BY <1>1, <2>1, StillExcluded
<1>6. LastIsCommittedLast' /\ OnlyStaleRowsBreakTheCooldown'
  BY DEF AlertInv, LastIsCommittedLast, OnlyStaleRowsBreakTheCooldown, tables
<1>7. MailsAreRecorded'
  <2>1. \A a : Mailing(a)' = Mailing(a)
    BY <1>1 DEF Mailing, Target
  <2>2. MailsAreRecorded
    BY DEF AlertInv
  <2> QED
    BY <2>1, <2>2 DEF MailsAreRecorded, tables
<1> QED
  BY <1>3, <1>4, <1>5, <1>6, <1>7 DEF AlertInv

-----------------------------------------------------------------------------
(***************************************************************************)
(* Beginning and ending.                                                   *)
(***************************************************************************)
\* A session that holds no lock, has sent no mail and has decided nothing.
LEMMA FreshStep ==
  ASSUME AlertInv, NEW s \in Sessions, NEW w, session' = [session EXCEPT ![s] = w],
         UNCHANGED tables, Task(w), LoadedOnce(w),
         w.pc \in {"idle", "check", "respond", "flush", "delete"},
         w.kind = "update" => Head(w.todo) \in DOMAIN w.loaded /\ Settable(w.columns),
         ~ w.mailed, ~ session[s].mailed, w.status # "SENT"
  PROVE  AlertInv'
<1>1. Decided(w)
  BY DEF Decided
<1>2. \A a : ~ Sharing(w, a) /\ ~ Deleting(w, a)
  BY DEF Sharing, Deleting
<1>3. w.mailed = session[s].mailed
  BY DEF Task, AlertInv
<1> QED
  BY <1>1, <1>2, <1>3, SessionStep

LEMMA IdleKnown ==
  ASSUME TablesTyped
  PROVE  /\ Task(Idle) /\ LoadedOnce(Idle) /\ Decided(Idle)
         /\ Idle.pc = "idle" /\ Idle.kind = "none" /\ ~ Idle.mailed /\ Idle.status = "PENDING"
<1>1. 0 \in Times
  BY AlertAssumption DEF Times
<1>2. /\ DOMAIN Idle.loaded = {} /\ Idle.todo \in Seq(given) /\ Idle.pc = "idle"
      /\ Idle.kind = "none" /\ Idle.mailed = FALSE /\ Idle.status = "PENDING" /\ Idle.now = 0
  BY DEF Idle
<1>3. Task(Idle)
  BY <1>1, <1>2 DEF Task, Idle, Evaluating
<1>4. LoadedOnce(Idle) /\ Decided(Idle)
  BY <1>2 DEF LoadedOnce, Decided, Evaluating
<1> QED
  BY <1>2, <1>3, <1>4

LEMMA EndKeeps ==
  ASSUME AlertInv, NEW s \in Sessions, End(s), ~ session[s].mailed, UNCHANGED tables
  PROVE  AlertInv'
<1>1. TablesTyped
  BY DEF AlertInv
<1>2. Idle.kind # "update"
  BY DEF Idle
<1> QED
  BY <1>1, <1>2, IdleKnown, FreshStep DEF End

\* What is known of a row that has been loaded of alert a.
RowKnown(a, loaded) ==
  /\ a \in given /\ loaded.row \in Rows /\ loaded.basis \in Nat
  /\ a \in DOMAIN alerts => /\ loaded.basis <= Len(events[a])
                            /\ loaded.row.last_triggered_at = TimeOf(events[a], loaded.basis)

\* A session that has just begun, or turns to its next alert.
LEMMA FreshKnown ==
  ASSUME NEW w,
         DOMAIN w = {"kind", "pc", "todo", "loaded", "now", "status", "mailed", "columns", "nulls",
                     "seen"},
         \/ w.kind \in {"evaluate", "batch"} /\ w.pc \in {"check", "respond"}
         \/ w.kind = "update" /\ w.pc = "flush"
         \/ w.kind = "delete" /\ w.pc = "delete",
         w.todo \in Seq(given), w.todo # <<>>,
         w.now = 0, w.status = "PENDING", w.mailed = FALSE,
         \A a \in DOMAIN w.loaded : RowKnown(a, w.loaded[a])
  PROVE  Task(w) /\ LoadedOnce(w)
<1>1. 0 \in Times
  BY AlertAssumption DEF Times
<1>2. Task(w)
  BY <1>1 DEF Task, Evaluating, RowKnown
<1>3. LoadedOnce(w)
  BY DEF LoadedOnce, RowKnown
<1> QED
  BY <1>2, <1>3

\* A loaded row is known once more events have come, or the alert is gone.
LEMMA LoadedKnown ==
  ASSUME AlertInv, NEW a \in DOMAIN alerts
  PROVE  RowKnown(a, Loaded(a))
<1>1. a \in Ids /\ a \in given /\ events[a] \in Seq(Event) /\ alerts[a] \in Rows
  BY DEF AlertInv, TablesTyped
<1>2. alerts[a].last_triggered_at = IF events[a] = <<>> THEN Never ELSE events[a][Len(events[a])].at
  BY DEF AlertInv, LastIsCommittedLast
<1>3. Len(events[a]) \in Nat /\ (Len(events[a]) = 0 <=> events[a] = <<>>)
  BY <1>1
<1> QED
  BY <1>1, <1>2, <1>3 DEF Loaded, TimeOf, RowKnown

LEMMA KnownOfSession ==
  ASSUME AlertInv, NEW s \in Sessions, NEW a \in DOMAIN session[s].loaded
  PROVE  RowKnown(a, session[s].loaded[a])
BY DEF AlertInv, Task, LoadedOnce, RowKnown

LEMMA BeginEvaluateKeeps ==
  ASSUME AlertInv, NEW s \in Sessions, BeginEvaluate(s)
  PROVE  AlertInv'
<1>1. PICK a \in DOMAIN alerts :
        session' = [session EXCEPT ![s] =
          [Idle EXCEPT !.kind = "evaluate", !.pc = "check", !.todo = <<a>>,
                       !.loaded = [b \in {a} |-> Loaded(a)]]]
  BY DEF BeginEvaluate, Start
<1> DEFINE loaded == [b \in {a} |-> Loaded(a)]
           w == [Idle EXCEPT !.kind = "evaluate", !.pc = "check", !.todo = <<a>>, !.loaded = loaded]
<1>2. UNCHANGED tables /\ ~ session[s].mailed
  BY DEF BeginEvaluate, MayBegin, At, tables, AlertInv, Decided
<1>3. <<a>> \in Seq(given) /\ <<a>> # <<>> /\ a \in given
  BY DEF AlertInv, TablesTyped
<1>4. DOMAIN loaded = {a} /\ loaded[a] = Loaded(a)
  OBVIOUS
<1> HIDE DEF loaded
<1>5. /\ w.kind = "evaluate" /\ w.pc = "check" /\ w.todo = <<a>> /\ w.loaded = loaded /\ w.now = 0
      /\ w.mailed = FALSE /\ w.status = "PENDING"
      /\ DOMAIN w = {"kind", "pc", "todo", "loaded", "now", "status", "mailed", "columns", "nulls",
                     "seen"}
  BY DEF Idle
<1>6. session' = [session EXCEPT ![s] = w]
  BY <1>1 DEF loaded
<1> HIDE DEF w
<1>7. \A b \in DOMAIN w.loaded : RowKnown(b, w.loaded[b])
  BY <1>4, <1>5, LoadedKnown
<1>8. Task(w) /\ LoadedOnce(w)
  BY <1>3, <1>5, <1>7, FreshKnown
<1> QED
  BY <1>2, <1>5, <1>6, <1>8, FreshStep

LEMMA BeginBatchKeeps ==
  ASSUME AlertInv, NEW s \in Sessions, BeginBatch(s)
  PROVE  AlertInv'
<1> DEFINE active == {a \in DOMAIN alerts : alerts[a].is_active}
           loaded == [a \in active |-> Loaded(a)]
<1>1. PICK todo \in [1 .. Cardinality(active) -> active] :
        session' = [session EXCEPT ![s] =
          [Idle EXCEPT !.kind = "batch", !.pc = "check", !.todo = todo, !.loaded = loaded]]
  BY DEF BeginBatch, Start
<1> DEFINE w == [Idle EXCEPT !.kind = "batch", !.pc = "check", !.todo = todo, !.loaded = loaded]
<1>2. UNCHANGED tables /\ ~ session[s].mailed
  BY DEF BeginBatch, MayBegin, At, tables, AlertInv, Decided
<1>3. active \subseteq DOMAIN alerts /\ active \subseteq given /\ active \subseteq Ids
  BY DEF AlertInv, TablesTyped
<1>4. IsFiniteSet(active) /\ active # {}
  BY <1>3, FS_Subset, SessionsAssumption DEF BeginBatch
<1>5. Cardinality(active) \in Nat /\ Cardinality(active) # 0
  BY <1>4, FS_CardinalityType, FS_EmptySet
<1>6. DOMAIN loaded = active /\ \A a \in active : loaded[a] = Loaded(a)
  OBVIOUS
<1> HIDE DEF active, loaded
<1>7. todo \in Seq(given) /\ todo # <<>>
  BY <1>3, <1>5
<1>8. /\ w.kind = "batch" /\ w.pc = "check" /\ w.todo = todo /\ w.loaded = loaded /\ w.now = 0
      /\ w.mailed = FALSE /\ w.status = "PENDING"
      /\ DOMAIN w = {"kind", "pc", "todo", "loaded", "now", "status", "mailed", "columns", "nulls",
                     "seen"}
  BY DEF Idle
<1>9. session' = [session EXCEPT ![s] = w]
  BY <1>1
<1> HIDE DEF w
<1>10. \A a \in DOMAIN w.loaded : RowKnown(a, w.loaded[a])
  BY <1>3, <1>6, <1>8, LoadedKnown
<1>11. Task(w) /\ LoadedOnce(w)
  BY <1>7, <1>8, <1>10, FreshKnown
<1> QED
  BY <1>2, <1>8, <1>9, <1>11, FreshStep

LEMMA BeginUpdateKeeps ==
  ASSUME AlertInv, NEW s \in Sessions, BeginUpdate(s)
  PROVE  AlertInv'
<1>1. PICK a \in DOMAIN alerts, change \in Changes :
        session' = [session EXCEPT ![s] =
          [Idle EXCEPT !.kind = "update", !.pc = "flush", !.todo = <<a>>,
                       !.loaded = [b \in {a} |-> Loaded(a)],
                       !.columns = change.set, !.nulls = change.nulls]]
  BY DEF BeginUpdate, Start
<1> DEFINE loaded == [b \in {a} |-> Loaded(a)]
           w == [Idle EXCEPT !.kind = "update", !.pc = "flush", !.todo = <<a>>, !.loaded = loaded,
                             !.columns = change.set, !.nulls = change.nulls]
<1>2. UNCHANGED tables /\ ~ session[s].mailed
  BY DEF BeginUpdate, MayBegin, At, tables, AlertInv, Decided
<1>3. a \in given /\ <<a>> \in Seq(given) /\ <<a>> # <<>> /\ Head(<<a>>) = a /\ Settable(change.set)
  BY SessionsAssumption DEF AlertInv, TablesTyped
<1>4. DOMAIN loaded = {a} /\ loaded[a] = Loaded(a)
  OBVIOUS
<1> HIDE DEF loaded
<1>5. /\ w.kind = "update" /\ w.pc = "flush" /\ w.todo = <<a>> /\ w.loaded = loaded /\ w.now = 0
      /\ w.mailed = FALSE /\ w.status = "PENDING" /\ w.columns = change.set
      /\ DOMAIN w = {"kind", "pc", "todo", "loaded", "now", "status", "mailed", "columns", "nulls",
                     "seen"}
  BY DEF Idle
<1>6. session' = [session EXCEPT ![s] = w]
  BY <1>1 DEF loaded
<1> HIDE DEF w
<1>7. \A b \in DOMAIN w.loaded : RowKnown(b, w.loaded[b])
  BY <1>4, <1>5, LoadedKnown
<1>8. Task(w) /\ LoadedOnce(w)
  BY <1>3, <1>5, <1>7, FreshKnown
<1> QED
  BY <1>2, <1>3, <1>4, <1>5, <1>6, <1>7, <1>8, FreshStep

LEMMA BeginDeleteKeeps ==
  ASSUME AlertInv, NEW s \in Sessions, BeginDelete(s)
  PROVE  AlertInv'
<1>1. PICK a \in DOMAIN alerts :
        session' = [session EXCEPT ![s] =
          [Idle EXCEPT !.kind = "delete", !.pc = "delete", !.todo = <<a>>,
                       !.seen = Len(events[a])]]
  BY DEF BeginDelete, Start
<1> DEFINE w == [Idle EXCEPT !.kind = "delete", !.pc = "delete", !.todo = <<a>>,
                             !.seen = Len(events[a])]
<1>2. UNCHANGED tables /\ ~ session[s].mailed
  BY DEF BeginDelete, MayBegin, At, tables, AlertInv, Decided
<1>3. a \in given /\ <<a>> \in Seq(given) /\ <<a>> # <<>>
  BY DEF AlertInv, TablesTyped
<1>4. /\ w.kind = "delete" /\ w.pc = "delete" /\ w.todo = <<a>> /\ w.loaded = <<>> /\ w.now = 0
      /\ w.mailed = FALSE /\ w.status = "PENDING"
      /\ DOMAIN w = {"kind", "pc", "todo", "loaded", "now", "status", "mailed", "columns", "nulls",
                     "seen"}
  BY DEF Idle
<1>5. session' = [session EXCEPT ![s] = w] /\ DOMAIN w.loaded = {}
  BY <1>1, <1>4
<1> HIDE DEF w
<1>6. Task(w) /\ LoadedOnce(w)
  BY <1>3, <1>4, <1>5, FreshKnown
<1> QED
  BY <1>2, <1>4, <1>5, <1>6, FreshStep

-----------------------------------------------------------------------------
(***************************************************************************)
(* Evaluating an alert, up to the mail.                                    *)
(***************************************************************************)
LEMMA RaiseKeeps ==
  ASSUME AlertInv, NEW s \in Sessions, ~ session[s].mailed, ~ At(s, "idle"), Raise(s), UNCHANGED tables
  PROVE  AlertInv'
<1>1. CASE session[s].kind = "batch"
  <2> DEFINE w == [Idle EXCEPT !.kind = "batch", !.pc = "respond", !.todo = session[s].todo]
  <2>1. session[s].todo \in Seq(given) /\ session[s].todo # <<>>
    BY DEF AlertInv, Task, At
  <2>2. /\ w.kind = "batch" /\ w.pc = "respond" /\ w.todo = session[s].todo /\ w.loaded = <<>>
        /\ w.now = 0 /\ w.mailed = FALSE /\ w.status = "PENDING"
        /\ DOMAIN w = {"kind", "pc", "todo", "loaded", "now", "status", "mailed", "columns", "nulls",
                       "seen"}
    BY DEF Idle
  <2>3. session' = [session EXCEPT ![s] = w] /\ DOMAIN w.loaded = {}
    BY <1>1, <2>2 DEF Raise
  <2> HIDE DEF w
  <2>4. Task(w) /\ LoadedOnce(w)
    BY <2>1, <2>2, <2>3, FreshKnown
  <2> QED
    BY <2>2, <2>3, <2>4, FreshStep
<1>2. CASE session[s].kind # "batch"
  BY <1>2, EndKeeps DEF Raise
<1> QED
  BY <1>1, <1>2

LEMMA ContinueKeeps ==
  ASSUME AlertInv, NEW s \in Sessions, ~ session[s].mailed, NEW loaded, Continue(s, loaded),
         UNCHANGED tables,
         DOMAIN loaded \subseteq DOMAIN session[s].loaded,
         \A a \in DOMAIN loaded : loaded[a] = session[s].loaded[a]
  PROVE  AlertInv'
<1>1. CASE session[s].kind = "batch" /\ Len(session[s].todo) > 1
  <2> DEFINE todo == Tail(session[s].todo)
             w == [Idle EXCEPT !.kind = "batch", !.pc = "check", !.todo = todo, !.loaded = loaded]
  <2>1. todo \in Seq(given) /\ todo # <<>>
    <3>1. session[s].todo \in Seq(given)
      BY DEF AlertInv, Task
    <3>2. \A q \in Seq(given) : Len(q) > 1 => Tail(q) \in Seq(given) /\ Len(Tail(q)) = Len(q) - 1
      OBVIOUS
    <3>3. todo \in Seq(given) /\ Len(todo) = Len(session[s].todo) - 1 /\ Len(session[s].todo) \in Nat
      BY <1>1, <3>1, <3>2
    <3>4. Len(todo) > 0
      BY <1>1, <3>3
    <3> HIDE DEF todo
    <3> QED
      BY <3>3, <3>4
  <2>2. /\ w.kind = "batch" /\ w.pc = "check" /\ w.todo = todo /\ w.loaded = loaded
        /\ w.now = 0 /\ w.mailed = FALSE /\ w.status = "PENDING"
        /\ DOMAIN w = {"kind", "pc", "todo", "loaded", "now", "status", "mailed", "columns", "nulls",
                       "seen"}
    BY DEF Idle
  <2>3. session' = [session EXCEPT ![s] = w]
    BY <1>1 DEF Continue
  <2> HIDE DEF w, todo
  <2>4. \A a \in DOMAIN w.loaded : RowKnown(a, w.loaded[a])
    BY <2>2, KnownOfSession
  <2>5. Task(w) /\ LoadedOnce(w)
    BY <2>1, <2>2, <2>4, FreshKnown
  <2> QED
    BY <2>2, <2>3, <2>5, FreshStep
<1>2. CASE ~ (session[s].kind = "batch" /\ Len(session[s].todo) > 1)
  BY <1>2, EndKeeps DEF Continue
<1> QED
  BY <1>1, <1>2

LEMMA CheckKeeps ==
  ASSUME AlertInv, NEW s \in Sessions, MissAlert(s) \/ StayQuiet(s) \/ FailToRead(s)
  PROVE  AlertInv'
<1>1. At(s, "check") /\ UNCHANGED tables
  BY DEF MissAlert, StayQuiet, FailToRead, MayCheck, tables
<1>2. ~ session[s].mailed
  BY <1>1 DEF AlertInv, Decided, At
<1>3. CASE StayQuiet(s)
  <2>1. Continue(s, LoadedOfRest(s))
    BY <1>3 DEF StayQuiet
  <2>2. /\ DOMAIN LoadedOfRest(s) \subseteq DOMAIN session[s].loaded
        /\ \A a \in DOMAIN LoadedOfRest(s) : LoadedOfRest(s)[a] = session[s].loaded[a]
    BY DEF LoadedOfRest
  <2> QED
    BY <1>1, <1>2, <2>1, <2>2, ContinueKeeps
<1>4. CASE MissAlert(s) \/ FailToRead(s)
  BY <1>1, <1>2, <1>4, RaiseKeeps DEF MissAlert, FailToRead, At
<1> QED
  BY <1>3, <1>4

\* The row decided on is the one at hand, and it is not within its cooldown.
LEMMA MeetConditionKeeps ==
  ASSUME AlertInv, NEW s \in Sessions, MeetCondition(s)
  PROVE  AlertInv'
<1> DEFINE a == Target(s)
           old == session[s]
           loaded == [b \in DOMAIN old.loaded \cup {a} |-> IF b = a THEN AtHand(s) ELSE old.loaded[b]]
           w == [old EXCEPT !.pc = "insert", !.now = clock, !.loaded = loaded]
<1>1. /\ old.pc = "check" /\ (Expired(s) => a \in DOMAIN alerts) /\ UNCHANGED tables
      /\ ~ WithinCooldown(AtHand(s).row, clock)
  BY DEF MeetCondition, MayCheck, At, tables
<1>2. session' = [session EXCEPT ![s] = w]
  BY DEF MeetCondition
<1>3. Task(old) /\ LoadedOnce(old) /\ Decided(old) /\ clock \in Times
  BY DEF AlertInv, TablesTyped
<1>4. a \in given /\ a = Head(old.todo)
  BY <1>1, <1>3 DEF Task, Target
<1>5. RowKnown(a, AtHand(s))
  <2>1. CASE Expired(s)
    BY <1>1, <2>1, LoadedKnown DEF AtHand
  <2>2. CASE ~ Expired(s)
    BY <2>2, KnownOfSession DEF AtHand, Expired
  <2> QED
    BY <2>1, <2>2
<1>6. /\ DOMAIN loaded = DOMAIN old.loaded \cup {a} /\ loaded[a] = AtHand(s)
      /\ \A b \in DOMAIN loaded : b # a => b \in DOMAIN old.loaded /\ loaded[b] = old.loaded[b]
  OBVIOUS
<1> HIDE DEF loaded, a
<1>7. /\ w.kind = old.kind /\ w.pc = "insert" /\ w.todo = old.todo /\ w.loaded = loaded
      /\ w.now = clock /\ w.mailed = old.mailed /\ w.status = old.status
      /\ DOMAIN w = DOMAIN old
  BY <1>3 DEF Task
<1>8. \A b \in DOMAIN loaded : RowKnown(b, loaded[b])
  BY <1>5, <1>6, KnownOfSession
<1> HIDE DEF w, old
<1>9. Task(w)
  <2>1. Evaluating(old)
    BY <1>1, <1>3 DEF Task, Evaluating
  <2>2. DOMAIN loaded \subseteq given
        /\ \A b \in DOMAIN loaded : loaded[b].row \in Rows /\ loaded[b].basis \in Nat
    BY <1>8 DEF RowKnown
  <2> QED
    BY <1>3, <1>7, <2>1, <2>2 DEF Task, Evaluating
<1>10. LoadedOnce(w)
  BY <1>7, <1>8 DEF LoadedOnce, RowKnown
<1>11. Decided(w)
  BY <1>1, <1>3, <1>4, <1>6, <1>7, <1>9 DEF Decided, Evaluating, Task
<1>12. \A b : ~ Sharing(w, b) /\ ~ Deleting(w, b)
  BY <1>7 DEF Sharing, Deleting
<1> QED
  BY <1>1, <1>2, <1>7, <1>9, <1>10, <1>11, <1>12, SessionStep DEF old

\* A session that goes on to its next statement.
LEMMA Moved ==
  ASSUME AlertInv, NEW s \in Sessions, NEW pc, Goto(s, pc)
  PROVE  \E w : /\ session' = [session EXCEPT ![s] = w]
                /\ DOMAIN w = DOMAIN session[s]
                /\ w.pc = pc
                /\ w.kind = session[s].kind /\ w.todo = session[s].todo
                /\ w.loaded = session[s].loaded /\ w.now = session[s].now
                /\ w.status = session[s].status /\ w.mailed = session[s].mailed
                /\ w.columns = session[s].columns
<1> DEFINE w == [session[s] EXCEPT !.pc = pc]
<1>1. session' = [session EXCEPT ![s] = w]
  BY DEF Goto
<1>2. DOMAIN session[s] = {"kind", "pc", "todo", "loaded", "now", "status", "mailed", "columns",
                           "nulls", "seen"}
  BY DEF AlertInv, Task
<1>3. /\ DOMAIN w = DOMAIN session[s]
      /\ w.pc = pc
      /\ w.kind = session[s].kind /\ w.todo = session[s].todo
      /\ w.loaded = session[s].loaded /\ w.now = session[s].now
      /\ w.status = session[s].status /\ w.mailed = session[s].mailed
      /\ w.columns = session[s].columns
  BY <1>2
<1> HIDE DEF w
<1> QED
  BY <1>1, <1>3

LEMMA InsertEventKeeps ==
  ASSUME AlertInv, NEW s \in Sessions, InsertEvent(s)
  PROVE  AlertInv'
<1> DEFINE old == session[s]
<1>1. old.pc = "insert" /\ UNCHANGED tables /\ MayInsertEvent(s, Target(s))
  BY DEF InsertEvent, At, tables
<1>2. Task(old) /\ LoadedOnce(old) /\ Decided(old)
  BY DEF AlertInv
<1>3. Evaluating(old) /\ ~ old.mailed /\ old.status # "SENT"
  BY <1>1, <1>2 DEF Task, Evaluating, Decided
<1>4. CASE Raise(s)
  BY <1>1, <1>3, <1>4, RaiseKeeps DEF At
<1>5. CASE Goto(s, "mail") /\ Target(s) \in DOMAIN alerts
  <2>1. PICK w : /\ session' = [session EXCEPT ![s] = w]
                 /\ DOMAIN w = DOMAIN old
                 /\ w.pc = "mail"
                 /\ w.kind = old.kind /\ w.todo = old.todo
                 /\ w.loaded = old.loaded /\ w.now = old.now
                 /\ w.status = old.status /\ w.mailed = old.mailed
    BY <1>5, Moved
  <2> HIDE DEF old
  <2>2. Task(w)
    BY <1>1, <1>2, <1>3, <2>1 DEF Task, Evaluating
  <2>3. LoadedOnce(w)
    BY <1>2, <2>1 DEF LoadedOnce
  <2>4. Decided(w)
    BY <1>1, <1>2, <1>3, <1>5, <2>1 DEF Decided, Evaluating, Target, old
  <2>5. \A a : ~ Deleting(w, a) /\ (Sharing(w, a) => MayInsertEvent(s, a))
    BY <1>1, <2>1 DEF Deleting, Sharing, Target, old
  <2> QED
    BY <1>1, <2>1, <2>2, <2>3, <2>4, <2>5, SessionStep DEF old
<1> QED
  BY <1>4, <1>5 DEF InsertEvent

LEMMA RecordTriggerKeeps ==
  ASSUME AlertInv, NEW s \in Sessions, RecordTrigger(s)
  PROVE  AlertInv'
<1> DEFINE old == session[s]
           columns == [last_triggered_at |-> old.now]
           w == [old EXCEPT !.pc = "commit", !.columns = columns]
<1>1. old.pc = "record" /\ UNCHANGED tables
  BY DEF RecordTrigger, At, tables
<1>2. session' = [session EXCEPT ![s] = w]
  BY DEF RecordTrigger
<1>3. Task(old) /\ LoadedOnce(old) /\ Decided(old)
  BY DEF AlertInv
<1>4. /\ DOMAIN w = DOMAIN old
      /\ w.pc = "commit" /\ w.columns = columns
      /\ w.kind = old.kind /\ w.todo = old.todo
      /\ w.loaded = old.loaded /\ w.now = old.now
      /\ w.status = old.status /\ w.mailed = old.mailed
  BY <1>3 DEF Task
<1> HIDE DEF w
<1>5. Evaluating(old) /\ old.kind # "delete" /\ old.kind # "update"
  BY <1>1, <1>3 DEF Task, Evaluating
<1>6. columns = [last_triggered_at |-> w.now]
  BY <1>4
<1> HIDE DEF old, columns
<1>7. Task(w)
  BY <1>1, <1>3, <1>4, <1>5 DEF Task, Evaluating
<1>8. LoadedOnce(w)
  BY <1>3, <1>4 DEF LoadedOnce
<1>9. Decided(w)
  BY <1>1, <1>3, <1>4, <1>5, <1>6 DEF Decided, Evaluating
<1>10. \A a : ~ Deleting(w, a) /\ (Sharing(w, a) => Sharing(old, a))
  BY <1>1, <1>4, <1>5 DEF Deleting, Sharing, Evaluating
<1> QED
  BY <1>1, <1>2, <1>4, <1>7, <1>8, <1>9, <1>10, SessionStep DEF old

LEMMA RespondKeeps ==
  ASSUME AlertInv, NEW s \in Sessions, Respond(s)
  PROVE  AlertInv'
<1> DEFINE old == session[s]
<1>1. old.pc = "respond" /\ UNCHANGED tables
  BY DEF Respond, At, tables
<1>2. Task(old) /\ LoadedOnce(old) /\ Decided(old)
  BY DEF AlertInv
<1>3. ~ old.mailed /\ old.status # "SENT" /\ old.kind # "update" /\ old.kind # "delete"
  BY <1>1, <1>2 DEF Decided, Task
<1>4. CASE Continue(s, <<>>)
  <2>1. DOMAIN <<>> = {}
    OBVIOUS
  <2> QED
    BY <1>1, <1>3, <1>4, <2>1, ContinueKeeps
<1>5. CASE Goto(s, "escaped") /\ old.kind = "batch" /\ Target(s) \notin DOMAIN alerts
  <2>1. PICK w : /\ session' = [session EXCEPT ![s] = w]
                 /\ DOMAIN w = DOMAIN old
                 /\ w.pc = "escaped"
                 /\ w.kind = old.kind /\ w.todo = old.todo
                 /\ w.loaded = old.loaded /\ w.now = old.now
                 /\ w.status = old.status /\ w.mailed = old.mailed
    BY <1>5, Moved
  <2> HIDE DEF old
  <2>2. Task(w)
    BY <1>1, <1>2, <1>5, <2>1 DEF Task, Evaluating
  <2>3. LoadedOnce(w)
    BY <1>2, <2>1 DEF LoadedOnce
  <2>4. Decided(w)
    BY <1>3, <1>5, <2>1 DEF Decided, Evaluating, Target, old
  <2>5. \A a : ~ Deleting(w, a) /\ ~ Sharing(w, a)
    BY <2>1 DEF Deleting, Sharing
  <2> QED
    BY <1>1, <2>1, <2>2, <2>3, <2>4, <2>5, SessionStep DEF old
<1> QED
  BY <1>4, <1>5 DEF Respond

LEMMA EscapeKeeps ==
  ASSUME AlertInv, NEW s \in Sessions, Escape(s)
  PROVE  AlertInv'
<1>1. UNCHANGED tables /\ End(s) /\ ~ session[s].mailed
  BY DEF Escape, At, tables, AlertInv, Decided
<1> QED
  BY <1>1, EndKeeps

-----------------------------------------------------------------------------
(***************************************************************************)
(* Updating and deleting, up to the commit.                                *)
(***************************************************************************)
LEMMA FlushUpdateKeeps ==
  ASSUME AlertInv, NEW s \in Sessions, FlushUpdate(s)
  PROVE  AlertInv'
<1> DEFINE old == session[s]
           w == [old EXCEPT !.pc = "commit", !.columns = Differing(s)]
<1>1. old.pc = "flush" /\ UNCHANGED tables
  BY DEF FlushUpdate, At, tables
<1>2. Task(old) /\ LoadedOnce(old) /\ Decided(old)
  BY DEF AlertInv
<1>3. ~ old.mailed /\ old.status # "SENT" /\ old.kind = "update"
  BY <1>1, <1>2 DEF Decided, Task, Evaluating
<1>4. CASE End(s)
  BY <1>1, <1>3, <1>4, EndKeeps
<1>5. CASE session' = [session EXCEPT ![s].pc = "commit", ![s].columns = Differing(s)]
  <2>1. session' = [session EXCEPT ![s] = w]
    BY <1>5
  <2>2. /\ DOMAIN w = DOMAIN old
        /\ w.pc = "commit" /\ w.columns = Differing(s)
        /\ w.kind = old.kind /\ w.todo = old.todo
        /\ w.loaded = old.loaded /\ w.now = old.now
        /\ w.status = old.status /\ w.mailed = old.mailed
    BY <1>2 DEF Task
  <2>3. Settable(Differing(s))
    <3>1. Settable(old.columns)
      BY <1>2, <1>3 DEF Decided
    <3> QED
      BY <3>1 DEF Differing, Settable
  <2> HIDE DEF w, old
  <2>4. Task(w)
    BY <1>2, <1>3, <2>2 DEF Task, Evaluating
  <2>5. LoadedOnce(w)
    BY <1>2, <2>2 DEF LoadedOnce
  <2>6. Decided(w)
    BY <1>2, <1>3, <2>2, <2>3 DEF Decided, Evaluating
  <2>7. \A a : ~ Deleting(w, a) /\ ~ Sharing(w, a)
    BY <1>3, <2>2 DEF Deleting, Sharing, Evaluating
  <2> QED
    BY <1>1, <2>1, <2>2, <2>4, <2>5, <2>6, <2>7, SessionStep DEF old
<1> QED
  BY <1>4, <1>5 DEF FlushUpdate

LEMMA FlushDeleteKeeps ==
  ASSUME AlertInv, NEW s \in Sessions, FlushDelete(s)
  PROVE  AlertInv'
<1> DEFINE old == session[s]
<1>1. old.pc = "delete" /\ UNCHANGED tables /\ MayDelete(s, Target(s))
  BY DEF FlushDelete, At, tables
<1>2. Task(old) /\ LoadedOnce(old) /\ Decided(old)
  BY DEF AlertInv
<1>3. ~ old.mailed /\ old.status # "SENT" /\ old.kind = "delete"
  BY <1>1, <1>2 DEF Decided, Task, Evaluating
<1>4. CASE End(s)
  BY <1>1, <1>3, <1>4, EndKeeps
<1>5. CASE Goto(s, "commit")
  <2>1. PICK w : /\ session' = [session EXCEPT ![s] = w]
                 /\ DOMAIN w = DOMAIN old
                 /\ w.pc = "commit"
                 /\ w.kind = old.kind /\ w.todo = old.todo
                 /\ w.loaded = old.loaded /\ w.now = old.now
                 /\ w.status = old.status /\ w.mailed = old.mailed
    BY <1>5, Moved
  <2> HIDE DEF old
  <2>2. Task(w)
    BY <1>2, <1>3, <2>1 DEF Task, Evaluating
  <2>3. LoadedOnce(w)
    BY <1>2, <2>1 DEF LoadedOnce
  <2>4. Decided(w)
    BY <1>3, <2>1 DEF Decided, Evaluating
  <2>5. \A a : ~ Sharing(w, a) /\ (Deleting(w, a) => MayDelete(s, a))
    BY <1>1, <1>3, <2>1 DEF Deleting, Sharing, Target, Evaluating, old
  <2> QED
    BY <1>1, <2>1, <2>2, <2>3, <2>4, <2>5, SessionStep DEF old
<1> QED
  BY <1>4, <1>5 DEF FlushDelete

-----------------------------------------------------------------------------
(***************************************************************************)
(* Steps that write the tables.                                            *)
(***************************************************************************)
\* Alerts come with new ids only, and a history grows as long as its alert is there.
TablesGrow ==
  /\ given \subseteq given'
  /\ DOMAIN alerts' \cap given \subseteq DOMAIN alerts
  /\ \A a \in DOMAIN alerts' \cap given :
       /\ Len(events[a]) <= Len(events'[a])
       /\ \A i \in 1 .. Len(events[a]) : events'[a][i] = events[a][i]

LEMMA OthersKnown ==
  ASSUME AlertInv, TablesTyped', TablesGrow, NEW r \in Sessions, session'[r] = session[r],
         \A a : Sharing(session[r], a) => a \in DOMAIN alerts'
  PROVE  (Task(session[r]) /\ LoadedOnce(session[r]) /\ Decided(session[r]))'
<1> DEFINE w == session[r]
<1>1. Task(w) /\ LoadedOnce(w) /\ Decided(w)
  BY DEF AlertInv
<1>2. Task(session[r])'
  <2>1. w.todo \in Seq(given')
    BY <1>1 DEF Task, TablesGrow
  <2>2. DOMAIN w.loaded \subseteq given'
    BY <1>1 DEF Task, TablesGrow
  <2> QED
    BY <1>1, <2>1, <2>2 DEF Task, Evaluating
<1>3. LoadedOnce(session[r])'
  <2>1. SUFFICES ASSUME NEW a \in DOMAIN w.loaded \cap DOMAIN alerts'
                 PROVE  /\ w.loaded[a].basis <= Len(events'[a])
                        /\ w.loaded[a].row.last_triggered_at = TimeOf(events'[a], w.loaded[a].basis)
    BY DEF LoadedOnce, TimeOf
  <2>2. a \in given /\ a \in DOMAIN alerts
    BY <1>1, <2>1 DEF Task, TablesGrow
  <2>3. /\ w.loaded[a].basis \in Nat
        /\ w.loaded[a].basis <= Len(events[a])
        /\ w.loaded[a].row.last_triggered_at = TimeOf(events[a], w.loaded[a].basis)
    BY <1>1, <2>1, <2>2 DEF Task, LoadedOnce
  <2>4. Len(events[a]) \in Nat /\ Len(events'[a]) \in Nat
    <3>1. a \in Ids /\ events[a] \in Seq(Event) /\ events'[a] \in Seq(Event)
      BY <2>2 DEF AlertInv, TablesTyped
    <3> QED
      BY <3>1
  <2>5. /\ Len(events[a]) <= Len(events'[a])
        /\ \A i \in 1 .. Len(events[a]) : events'[a][i] = events[a][i]
    BY <2>1, <2>2 DEF TablesGrow
  <2> HIDE DEF w
  <2> QED
    BY <2>3, <2>4, <2>5 DEF TimeOf
<1>4. Decided(session[r])'
  <2>1. Head(w.todo) \in given \/ w.pc = "idle"
    BY <1>1 DEF Task
  <2>2. w.pc = "escaped" => Head(w.todo) \notin DOMAIN alerts'
    BY <1>1, <2>1 DEF Decided, TablesGrow
  <2>3. Evaluating(w) /\ w.pc \in {"mail", "record", "commit"} => Head(w.todo) \in DOMAIN alerts'
    BY DEF Sharing
  <2> QED
    BY <1>1, <2>2, <2>3 DEF Decided, Evaluating, WithinCooldown, Settable
<1> QED
  BY <1>2, <1>3, <1>4

\* Counting who is mailing and what was sent.
LEMMA MailingFinite == \A a : IsFiniteSet(Mailing(a)) /\ Cardinality(Mailing(a)) \in Nat
<1> TAKE a
<1>1. Mailing(a) \subseteq Sessions
  BY DEF Mailing
<1> QED
  BY <1>1, SessionsAssumption, FS_Subset, FS_CardinalityType

LEMMA MailingWithout ==
  ASSUME NEW a, NEW s
  PROVE  /\ Cardinality(Mailing(a) \ {s}) \in Nat
         /\ Cardinality(Mailing(a) \ {s}) =
              Cardinality(Mailing(a)) - (IF s \in Mailing(a) THEN 1 ELSE 0)
<1>1. IsFiniteSet(Mailing(a)) /\ IsFiniteSet(Mailing(a) \ {s})
  BY MailingFinite, FS_RemoveElement
<1> QED
  BY <1>1, FS_RemoveElement, FS_CardinalityType

LEMMA MailingWith ==
  ASSUME NEW a, NEW s, s \notin Mailing(a)
  PROVE  Cardinality(Mailing(a) \cup {s}) = Cardinality(Mailing(a)) + 1
BY MailingFinite, FS_AddElement

SentOf(history) == {i \in DOMAIN history : history[i].status = "SENT"}

LEMMA SentFinite ==
  ASSUME NEW history \in Seq(Event)
  PROVE  IsFiniteSet(SentOf(history)) /\ Cardinality(SentOf(history)) \in Nat
<1>1. Len(history) \in Nat /\ SentOf(history) \subseteq 1 .. Len(history)
  BY DEF SentOf
<1>2. IsFiniteSet(1 .. Len(history))
  BY <1>1, FS_Interval
<1> QED
  BY <1>1, <1>2, FS_Subset, FS_CardinalityType

LEMMA SentWith ==
  ASSUME NEW history \in Seq(Event), NEW event \in Event
  PROVE  Cardinality(SentOf(Append(history, event))) =
           Cardinality(SentOf(history)) + (IF event.status = "SENT" THEN 1 ELSE 0)
<1> DEFINE n == Len(history) + 1
<1>1. /\ Len(history) \in Nat /\ n \notin DOMAIN history
      /\ DOMAIN Append(history, event) = DOMAIN history \cup {n}
      /\ Append(history, event)[n] = event
      /\ \A i \in DOMAIN history : Append(history, event)[i] = history[i]
  OBVIOUS
<1> HIDE DEF n
<1>2. CASE event.status = "SENT"
  <2>1. SentOf(Append(history, event)) = SentOf(history) \cup {n} /\ n \notin SentOf(history)
    BY <1>1, <1>2 DEF SentOf
  <2> QED
    BY <1>2, <2>1, SentFinite, FS_AddElement
<1>3. CASE event.status # "SENT"
  <2>1. SentOf(Append(history, event)) = SentOf(history)
    BY <1>1, <1>3 DEF SentOf
  <2> QED
    BY <1>3, <2>1, SentFinite
<1> QED
  BY <1>2, <1>3

LEMMA SendMailKeeps ==
  ASSUME AlertInv, NEW s \in Sessions, SendMail(s)
  PROVE  AlertInv'
<1> DEFINE old == session[s]
<1>0. PICK a : a = Target(s)
  OBVIOUS
<1>1. PICK sent \in BOOLEAN, status \in {"SENT", "FAILED"} :
        /\ status = "SENT" => sent
        /\ session' = [session EXCEPT ![s].pc = "record", ![s].status = status, ![s].mailed = sent]
        /\ mails' = IF sent THEN [mails EXCEPT ![Target(s)] = @ + 1] ELSE mails
  BY DEF SendMail
<1>2. old.pc = "mail" /\ UNCHANGED <<alerts, events, clock, given, lost>>
  BY DEF SendMail, At
<1> DEFINE w == [old EXCEPT !.pc = "record", !.status = status, !.mailed = sent]
<1>3. session' = [session EXCEPT ![s] = w]
  BY <1>1
<1>4. Task(old) /\ LoadedOnce(old) /\ Decided(old)
  BY DEF AlertInv
<1>5. /\ DOMAIN w = DOMAIN old
      /\ w.pc = "record" /\ w.status = status /\ w.mailed = sent
      /\ w.kind = old.kind /\ w.todo = old.todo
      /\ w.loaded = old.loaded /\ w.now = old.now /\ w.columns = old.columns
  BY <1>4 DEF Task
<1>6. /\ Evaluating(old) /\ ~ old.mailed /\ old.kind # "update" /\ old.kind # "delete"
      /\ a \in DOMAIN alerts /\ a \in given /\ a \in Ids /\ a = Head(old.todo)
  BY <1>0, <1>2, <1>4 DEF Task, Evaluating, Decided, Target, AlertInv, TablesTyped
<1>7. \A r \in Sessions : session'[r] = IF r = s THEN w ELSE session[r]
  BY <1>3 DEF AlertInv
<1> HIDE DEF w, old
<1>8. /\ mails' \in [Ids -> Nat]
      /\ \A b \in Ids : b # a => mails'[b] = mails[b]
      /\ mails'[a] = mails[a] + (IF sent THEN 1 ELSE 0)
  BY <1>0, <1>1, <1>6 DEF AlertInv, TablesTyped
<1>9. TablesTyped'
  BY <1>2, <1>6, <1>8 DEF AlertInv, TablesTyped
<1>10. Task(w) /\ LoadedOnce(w) /\ Decided(w)
  <2>1. Task(w)
    BY <1>2, <1>4, <1>5, <1>6 DEF Task, Evaluating
  <2>2. LoadedOnce(w)
    BY <1>4, <1>5 DEF LoadedOnce
  <2>3. Decided(w)
    BY <1>1, <1>2, <1>4, <1>5, <1>6 DEF Decided, Evaluating
  <2> QED
    BY <2>1, <2>2, <2>3
<1>11. (Task(session[s]) /\ LoadedOnce(session[s]) /\ Decided(session[s]))'
  <2>1. session'[s] = w /\ given' = given /\ alerts' = alerts /\ events' = events
    BY <1>2, <1>7
  <2> QED
    BY <1>10, <2>1 DEF Task, LoadedOnce, Decided, Evaluating, TimeOf, WithinCooldown, Settable
<1>12. \A r \in Sessions : (Task(session[r]) /\ LoadedOnce(session[r]) /\ Decided(session[r]))'
  <2>1. TablesGrow
    BY <1>2 DEF TablesGrow
  <2>2. \A r \in Sessions : \A b : Sharing(session[r], b) => b \in DOMAIN alerts'
    BY <1>2 DEF AlertInv, Decided, Sharing
  <2> QED
    BY <1>7, <1>9, <1>11, <2>1, <2>2, OthersKnown
<1>13. Excluded'
  <2>1. Excluded
    BY DEF AlertInv
  <2>2. \A b : ~ Deleting(w, b) /\ (Sharing(w, b) => Sharing(old, b))
    BY <1>2, <1>5, <1>6 DEF Deleting, Sharing, Evaluating
  <2> QED
    BY <1>7, <2>1, <2>2, StillExcluded DEF old
<1>14. LastIsCommittedLast' /\ OnlyStaleRowsBreakTheCooldown'
  BY <1>2 DEF AlertInv, LastIsCommittedLast, OnlyStaleRowsBreakTheCooldown
<1>15. MailsAreRecorded'
  <2>1. s \notin Mailing(a)
    BY <1>6 DEF Mailing, old
  <2>2. Mailing(a)' = IF sent THEN Mailing(a) \cup {s} ELSE Mailing(a)
    BY <1>5, <1>6, <1>7, <2>1 DEF Mailing, Target
  <2>3. \A b : b # a => Mailing(b)' = Mailing(b)
    BY <1>5, <1>6, <1>7 DEF Mailing, Target, old
  <2>4. Cardinality(Mailing(a)') = Cardinality(Mailing(a)) + (IF sent THEN 1 ELSE 0)
    BY <2>1, <2>2, MailingWith, MailingFinite
  <2>5. SUFFICES ASSUME NEW b \in DOMAIN alerts
                 PROVE  /\ mails'[b] <= Len(events[b]) + Cardinality(Mailing(b)') + lost[b]
                        /\ Cardinality(SentOf(events[b])) + Cardinality(Mailing(b)') + lost[b] <= mails'[b]
    <3>1. \A b \in DOMAIN alerts :
            /\ lost[b] \in Nat /\ Len(events[b]) \in Nat /\ Cardinality(SentOf(events[b])) \in Nat
            /\ Cardinality(Mailing(b)') \in Nat
      <4> TAKE b \in DOMAIN alerts
      <4>1. b \in Ids /\ lost[b] \in Nat /\ events[b] \in Seq(Event) /\ Cardinality(Mailing(b)) \in Nat
        BY MailingFinite DEF AlertInv, TablesTyped
      <4>2. Cardinality(Mailing(b)') \in Nat
        BY <2>3, <2>4, <4>1, MailingFinite
      <4> QED
        BY <4>1, <4>2, SentFinite
    <3> QED
      BY <1>2, <3>1 DEF MailsAreRecorded, SentOf
  <2>6. PICK L, C, k, k1, l, x, x1 :
          /\ L = Len(events[b]) /\ C = Cardinality(SentOf(events[b])) /\ l = lost[b]
          /\ k = Cardinality(Mailing(b)) /\ k1 = Cardinality(Mailing(b)') /\ x = mails[b] /\ x1 = mails'[b]
    OBVIOUS
  <2>7. L \in Nat /\ C \in Nat /\ k \in Nat /\ l \in Nat /\ x \in Nat /\ b \in Ids
    <3>1. /\ b \in Ids /\ mails[b] \in Nat /\ lost[b] \in Nat /\ events[b] \in Seq(Event)
          /\ Cardinality(Mailing(b)) \in Nat
      BY MailingFinite DEF AlertInv, TablesTyped
    <3> QED
      BY <2>6, <3>1, SentFinite
  <2>8. x <= L + k + l /\ C + k + l <= x
    <3>1. x <= L + (k + l) /\ C + (k + l) <= x
      BY <2>6 DEF AlertInv, MailsAreRecorded, SentOf
    <3> QED
      BY <2>7, <3>1
  <2>9. x1 = x + k1 - k /\ k1 \in Nat
    <3>1. CASE b = a /\ sent
      <4>1. x1 = x + 1 /\ k1 = k + 1
        BY <1>8, <2>4, <2>6, <3>1
      <4> QED
        BY <2>7, <4>1
    <3>2. CASE b = a /\ ~ sent
      <4>1. x1 = x + 0 /\ k1 = k + 0
        BY <1>8, <2>4, <2>6, <3>2
      <4> QED
        BY <2>7, <4>1
    <3>3. CASE b # a
      <4>1. x1 = x /\ k1 = k
        BY <1>8, <2>3, <2>6, <2>7, <3>3
      <4> QED
        BY <2>7, <4>1
    <3> QED
      BY <3>1, <3>2, <3>3
  <2>10. x1 <= L + k1 + l /\ C + k1 + l <= x1
    BY <2>7, <2>8, <2>9
  <2> QED
    BY <2>6, <2>10
<1> QED
  BY <1>3, <1>9, <1>12, <1>13, <1>14, <1>15 DEF AlertInv

LEMMA CommitTriggerKeeps ==
  ASSUME AlertInv, NEW s \in Sessions, CommitTrigger(s)
  PROVE  AlertInv'
<1> DEFINE old == session[s]
<1>0. PICK a : a = Target(s)
  OBVIOUS
<1> DEFINE event == [at |-> old.now, status |-> old.status, basis |-> old.loaded[a].basis]
           w == [Idle EXCEPT !.kind = old.kind, !.pc = "respond", !.todo = old.todo]
<1>1. /\ old.pc = "commit" /\ Evaluating(old)
      /\ alerts' = [alerts EXCEPT ![a] = Written(@, old.columns)]
      /\ events' = [events EXCEPT ![a] = Append(@, event)]
      /\ session' = [session EXCEPT ![s] = w]
      /\ UNCHANGED <<clock, given, mails, lost>>
  BY <1>0 DEF CommitTrigger, At, Evaluates, Evaluating
<1>2. Task(old) /\ LoadedOnce(old) /\ Decided(old) /\ TablesTyped
  BY DEF AlertInv
<1>3. /\ old.columns = [last_triggered_at |-> old.now] /\ a = Head(old.todo)
      /\ a \in DOMAIN alerts /\ a \in Ids /\ a \in given /\ a \in DOMAIN old.loaded
      /\ ~ WithinCooldown(old.loaded[a].row, old.now)
      /\ old.todo \in Seq(given) /\ old.todo # <<>> /\ old.now \in Times
      /\ old.kind \in {"evaluate", "batch"} /\ (old.status = "SENT" => old.mailed)
      /\ alerts[a] \in Rows /\ events[a] \in Seq(Event)
  BY <1>0, <1>1, <1>2 DEF Task, Decided, Target, TablesTyped, Evaluating
<1>4. /\ event \in Event /\ event.at = old.now /\ event.status = old.status
      /\ event.basis = old.loaded[a].basis
  BY <1>2, <1>3 DEF Task, Event
<1>5. /\ w.kind = old.kind /\ w.pc = "respond" /\ w.todo = old.todo /\ w.loaded = <<>>
      /\ w.now = 0 /\ w.mailed = FALSE /\ w.status = "PENDING"
      /\ DOMAIN w = {"kind", "pc", "todo", "loaded", "now", "status", "mailed", "columns", "nulls",
                     "seen"}
  BY DEF Idle
<1>6. \A r \in Sessions : session'[r] = IF r = s THEN w ELSE session[r]
  BY <1>1 DEF AlertInv
<1>7. /\ DOMAIN alerts' = DOMAIN alerts
      /\ alerts'[a] \in Rows /\ alerts'[a].last_triggered_at = old.now
      /\ \A b \in DOMAIN alerts : b # a => alerts'[b] = alerts[b]
  <2>1. PICK row, at, columns : row = alerts[a] /\ at = old.now /\ columns = old.columns
    OBVIOUS
  <2>2. row \in Rows /\ at \in Times /\ columns = [last_triggered_at |-> at]
    BY <1>3, <2>1
  <2>3. Written(row, columns) \in Rows /\ Written(row, columns).last_triggered_at = at
    BY <2>2, TriggeredTyped
  <2> HIDE DEF old
  <2> QED
    BY <1>1, <1>3, <2>1, <2>3
<1> HIDE DEF w, event, old
<1>8. /\ events' \in [Ids -> Seq(Event)]
      /\ events'[a] = Append(events[a], event)
      /\ \A b \in Ids : b # a => events'[b] = events[b]
  BY <1>1, <1>2, <1>3, <1>4 DEF TablesTyped
<1>9. /\ Len(events[a]) \in Nat /\ Len(events'[a]) = Len(events[a]) + 1
      /\ events'[a] # <<>>
      /\ events'[a][Len(events'[a])] = event
      /\ \A i \in 1 .. Len(events[a]) : events'[a][i] = events[a][i]
      /\ DOMAIN events'[a] = 1 .. Len(events[a]) + 1
  BY <1>3, <1>4, <1>8
<1>10. TablesTyped'
  <2>1. alerts' \in [DOMAIN alerts' -> Rows]
    BY <1>1, <1>2, <1>7 DEF TablesTyped
  <2>2. \A b \in Ids \ DOMAIN alerts' : events'[b] = <<>>
    BY <1>2, <1>3, <1>7, <1>8 DEF TablesTyped
  <2> QED
    BY <1>1, <1>2, <1>7, <1>8, <2>1, <2>2 DEF TablesTyped
<1>11. \A r \in Sessions : (Task(session[r]) /\ LoadedOnce(session[r]) /\ Decided(session[r]))'
  <2>1. TablesGrow
    <3>1. given' = given /\ given \subseteq Ids
      BY <1>1, <1>2 DEF TablesTyped
    <3>2. \A b \in Ids : b # a => events'[b] = events[b] /\ Len(events[b]) \in Nat
      BY <1>2, <1>8 DEF TablesTyped
    <3>3. ASSUME NEW b \in Ids
          PROVE  /\ Len(events[b]) <= Len(events'[b])
                 /\ \A i \in 1 .. Len(events[b]) : events'[b][i] = events[b][i]
      <4>1. CASE b = a
        BY <1>9, <4>1
      <4>2. CASE b # a
        BY <3>2, <4>2
      <4> QED
        BY <4>1, <4>2
    <3> QED
      BY <1>7, <3>1, <3>3 DEF TablesGrow
  <2>2. \A r \in Sessions : \A b : Sharing(session[r], b) => b \in DOMAIN alerts'
    BY <1>7 DEF AlertInv, Decided, Sharing
  <2>3. DOMAIN w.loaded = {} /\ 0 \in Times /\ session'[s] = w /\ given' = given
    BY <1>1, <1>5, <1>6, AlertAssumption DEF Times
  <2>4. Task(session[s])'
    BY <1>3, <1>5, <2>3 DEF Task, Evaluating
  <2>5. LoadedOnce(session[s])'
    BY <2>3 DEF LoadedOnce
  <2>6. Decided(session[s])'
    BY <1>3, <1>5, <2>3 DEF Decided, Evaluating
  <2> QED
    BY <1>6, <1>10, <2>1, <2>2, <2>4, <2>5, <2>6, OthersKnown
<1>12. Excluded'
  <2>1. Excluded
    BY DEF AlertInv
  <2>2. \A b : ~ Deleting(w, b) /\ ~ Sharing(w, b)
    BY <1>5 DEF Deleting, Sharing
  <2> QED
    BY <1>6, <2>1, <2>2, StillExcluded
<1>13. LastIsCommittedLast'
  BY <1>2, <1>4, <1>7, <1>8, <1>9 DEF AlertInv, LastIsCommittedLast, TablesTyped
<1>14. OnlyStaleRowsBreakTheCooldown'
  <2>1. SUFFICES ASSUME NEW b \in Ids, NEW i \in DOMAIN events'[b],
                        i > 1, events'[b][i].basis = i - 1
                 PROVE  events'[b][i].at - events'[b][i - 1].at >= Cooldown
    BY DEF OnlyStaleRowsBreakTheCooldown
  <2>2. OnlyStaleRowsBreakTheCooldown
    BY DEF AlertInv
  <2>3. CASE b # a
    BY <1>8, <2>1, <2>2, <2>3 DEF OnlyStaleRowsBreakTheCooldown
  <2>4. CASE b = a /\ i \in 1 .. Len(events[a])
    <3>1. i \in DOMAIN events[a] /\ i - 1 \in 1 .. Len(events[a]) /\ a \in Ids
      BY <1>3, <1>9, <2>1, <2>4
    <3> QED
      BY <1>9, <2>1, <2>2, <2>4, <3>1 DEF OnlyStaleRowsBreakTheCooldown
  <2>5. CASE b = a /\ i = Len(events[a]) + 1
    <3>1. /\ events'[a][i] = event /\ event.basis = Len(events[a]) /\ Len(events[a]) # 0
          /\ events'[a][i - 1] = events[a][Len(events[a])]
      BY <1>9, <2>1, <2>5
    <3>2. old.loaded[a].row.last_triggered_at = TimeOf(events[a], old.loaded[a].basis)
      BY <1>2, <1>3 DEF LoadedOnce
    <3>3. old.loaded[a].row.last_triggered_at = events[a][Len(events[a])].at
      BY <1>4, <3>1, <3>2 DEF TimeOf
    <3>4. events[a][Len(events[a])] \in Event
      <4>1. Len(events[a]) \in 1 .. Len(events[a])
        BY <1>9, <3>1
      <4> QED
        BY <1>3, <4>1
    <3>5. events[a][Len(events[a])].at \in Nat /\ old.now \in Nat /\ Cooldown \in Nat
      BY <1>3, <3>4, AlertAssumption DEF Times, Event
    <3>6. ~ (old.now - events[a][Len(events[a])].at < Cooldown)
      BY <1>3, <3>3, <3>5 DEF WithinCooldown, Never
    <3> QED
      BY <1>4, <2>5, <3>1, <3>5, <3>6
  <2> QED
    BY <1>9, <2>1, <2>3, <2>4, <2>5
<1>15. MailsAreRecorded'
  <2>1. /\ s \in Mailing(a) <=> old.mailed
        /\ Mailing(a)' = Mailing(a) \ {s}
    BY <1>0, <1>5, <1>6 DEF Mailing, Target, old
  <2>2. \A b : b # a => Mailing(b)' = Mailing(b)
    BY <1>0, <1>5, <1>6 DEF Mailing, Target
  <2>3. /\ Cardinality(Mailing(a)') \in Nat
        /\ Cardinality(Mailing(a)') = Cardinality(Mailing(a)) - (IF old.mailed THEN 1 ELSE 0)
    BY <2>1, MailingWithout
  <2>4. SUFFICES ASSUME NEW b \in DOMAIN alerts
                 PROVE  LET accounted == Cardinality(Mailing(b)') + lost[b] IN
                        /\ mails[b] <= Len(events'[b]) + accounted
                        /\ Cardinality(SentOf(events'[b])) + accounted <= mails[b]
    BY <1>1, <1>7 DEF MailsAreRecorded, SentOf
  <2>5. LET accounted == Cardinality(Mailing(b)) + lost[b] IN
        /\ mails[b] <= Len(events[b]) + accounted
        /\ Cardinality(SentOf(events[b])) + accounted <= mails[b]
    BY DEF AlertInv, MailsAreRecorded, SentOf
  <2>6. /\ b \in Ids /\ mails[b] \in Nat /\ lost[b] \in Nat /\ events[b] \in Seq(Event)
        /\ Cardinality(Mailing(b)) \in Nat
    BY MailingFinite DEF AlertInv, TablesTyped
  <2>7. Len(events[b]) \in Nat /\ Cardinality(SentOf(events[b])) \in Nat
    BY <2>6, SentFinite
  <2>8. CASE b = a
    <3>1. Cardinality(SentOf(events'[a])) =
            Cardinality(SentOf(events[a])) + (IF old.status = "SENT" THEN 1 ELSE 0)
      BY <1>3, <1>4, <1>8, SentWith
    <3>2. CASE old.mailed
      <4> DEFINE n == Len(events[a])
                 sent == Cardinality(SentOf(events[a]))
                 sent1 == Cardinality(SentOf(events'[a]))
                 c == Cardinality(Mailing(a))
                 c1 == Cardinality(Mailing(a)')
      <4>1. sent1 = sent \/ sent1 = sent + 1
        BY <2>7, <2>8, <3>1
      <4>2. c1 = c - 1
        BY <2>3, <3>2
      <4>3. n \in Nat /\ sent \in Nat /\ c \in Nat /\ mails[a] \in Nat /\ lost[a] \in Nat
        BY <2>6, <2>7, <2>8
      <4>4. mails[a] <= n + (c + lost[a]) /\ sent + (c + lost[a]) <= mails[a]
        BY <2>5, <2>8
      <4> HIDE DEF n, sent, sent1, c, c1
      <4>5. mails[a] <= (n + 1) + (c1 + lost[a]) /\ sent1 + (c1 + lost[a]) <= mails[a]
        BY <4>1, <4>2, <4>3, <4>4
      <4> QED
        BY <1>9, <2>8, <4>5 DEF n, sent1, c1
    <3>3. CASE ~ old.mailed /\ old.status # "SENT"
      <4> DEFINE n == Len(events[a])
                 sent == Cardinality(SentOf(events[a]))
                 sent1 == Cardinality(SentOf(events'[a]))
                 c == Cardinality(Mailing(a))
                 c1 == Cardinality(Mailing(a)')
      <4>1. n \in Nat /\ sent \in Nat /\ c \in Nat /\ mails[a] \in Nat /\ lost[a] \in Nat
        BY <2>6, <2>7, <2>8
      <4>2. sent1 = sent /\ c1 = c
        <5>1. sent1 = sent + 0 /\ c1 = c - 0
          BY <2>3, <3>1, <3>3
        <5> QED
          BY <4>1, <5>1
      <4>3. mails[a] <= n + (c + lost[a]) /\ sent + (c + lost[a]) <= mails[a]
        BY <2>5, <2>8
      <4> HIDE DEF n, sent, sent1, c, c1
      <4>4. mails[a] <= (n + 1) + (c1 + lost[a]) /\ sent1 + (c1 + lost[a]) <= mails[a]
        BY <4>1, <4>2, <4>3
      <4> QED
        BY <1>9, <2>8, <4>4 DEF n, sent1, c1
    <3> QED
      BY <1>3, <3>2, <3>3
  <2>9. CASE b # a
    BY <1>8, <2>2, <2>5, <2>6, <2>9
  <2> QED
    BY <2>8, <2>9
<1> QED
  BY <1>1, <1>10, <1>11, <1>12, <1>13, <1>14, <1>15 DEF AlertInv

\* A session that ends when it has mailed nothing counts nowhere.
LEMMA EndedQuietly ==
  ASSUME AlertInv, NEW s \in Sessions, End(s), ~ session[s].mailed
  PROVE  /\ \A r \in Sessions : session'[r] = IF r = s THEN Idle ELSE session[r]
         /\ DOMAIN session' = Sessions
         /\ Excluded'
         /\ \A a : Mailing(a)' = Mailing(a)
<1>1. /\ \A r \in Sessions : session'[r] = IF r = s THEN Idle ELSE session[r]
      /\ DOMAIN session' = Sessions
  BY DEF AlertInv, End
<1>2. ~ Idle.mailed /\ Idle.pc = "idle"
  BY DEF Idle
<1>3. \A a : ~ Deleting(Idle, a) /\ ~ Sharing(Idle, a)
  BY <1>2 DEF Deleting, Sharing
<1>4. Excluded
  BY DEF AlertInv
<1>5. \A a : Mailing(a)' = Mailing(a)
  BY <1>1, <1>2 DEF Mailing, Target
<1> QED
  BY <1>1, <1>3, <1>4, <1>5, StillExcluded

LEMMA IdleKnownAfter ==
  ASSUME TablesTyped', NEW s \in Sessions, session'[s] = Idle
  PROVE  (Task(session[s]) /\ LoadedOnce(session[s]) /\ Decided(session[s]))'
<1>1. /\ DOMAIN Idle.loaded = {} /\ Idle.todo \in Seq(given') /\ Idle.pc = "idle"
      /\ Idle.kind = "none" /\ Idle.mailed = FALSE /\ Idle.status = "PENDING" /\ Idle.now = 0
      /\ 0 \in Times
  BY AlertAssumption DEF Idle, Times
<1>2. Task(session[s])'
  BY <1>1 DEF Task, Idle, Evaluating
<1>3. LoadedOnce(session[s])' /\ Decided(session[s])'
  BY <1>1 DEF LoadedOnce, Decided, Evaluating
<1> QED
  BY <1>2, <1>3

LEMMA CommitUpdateKeeps ==
  ASSUME AlertInv, NEW s \in Sessions, CommitUpdate(s)
  PROVE  AlertInv'
<1> DEFINE old == session[s]
           a == Target(s)
<1>1. /\ old.pc = "commit" /\ old.kind = "update" /\ End(s)
      /\ alerts' = IF a \in DOMAIN alerts
                   THEN [alerts EXCEPT ![a] = Written(@, old.columns)] ELSE alerts
      /\ UNCHANGED <<events, clock, given, mails, lost>>
  BY DEF CommitUpdate, At
<1>2. ~ old.mailed /\ Settable(old.columns)
  BY <1>1 DEF AlertInv, Decided, Evaluating
<1>3. a \in DOMAIN alerts => /\ Written(alerts[a], old.columns) \in Rows
                             /\ Written(alerts[a], old.columns).last_triggered_at =
                                  alerts[a].last_triggered_at
  BY <1>2, WrittenTyped DEF AlertInv, TablesTyped
<1> HIDE DEF old, a
<1>4. /\ DOMAIN alerts' = DOMAIN alerts
      /\ \A b \in DOMAIN alerts :
           alerts'[b] \in Rows /\ alerts'[b].last_triggered_at = alerts[b].last_triggered_at
  BY <1>1, <1>3 DEF AlertInv, TablesTyped
<1>5. TablesTyped'
  BY <1>1, <1>4 DEF AlertInv, TablesTyped
<1>6. /\ \A r \in Sessions : session'[r] = IF r = s THEN Idle ELSE session[r]
      /\ DOMAIN session' = Sessions
      /\ Excluded'
      /\ \A b : Mailing(b)' = Mailing(b)
  BY <1>1, <1>2, EndedQuietly DEF old
<1>7. \A r \in Sessions : (Task(session[r]) /\ LoadedOnce(session[r]) /\ Decided(session[r]))'
  <2>1. TablesGrow
    BY <1>1, <1>4 DEF TablesGrow
  <2>2. \A r \in Sessions : \A b : Sharing(session[r], b) => b \in DOMAIN alerts'
    BY <1>4 DEF AlertInv, Decided, Sharing
  <2> QED
    BY <1>5, <1>6, <2>1, <2>2, OthersKnown, IdleKnownAfter
<1>8. LastIsCommittedLast'
  BY <1>1, <1>4 DEF AlertInv, LastIsCommittedLast
<1>9. OnlyStaleRowsBreakTheCooldown'
  BY <1>1 DEF AlertInv, OnlyStaleRowsBreakTheCooldown
<1>10. MailsAreRecorded'
  BY <1>1, <1>4, <1>6 DEF AlertInv, MailsAreRecorded
<1> QED
  BY <1>5, <1>6, <1>7, <1>8, <1>9, <1>10 DEF AlertInv

LEMMA CommitDeleteKeeps ==
  ASSUME AlertInv, NEW s \in Sessions, CommitDelete(s)
  PROVE  AlertInv'
<1> DEFINE old == session[s]
<1>0. PICK a : a = Target(s)
  OBVIOUS
<1>1. /\ old.pc = "commit" /\ old.kind = "delete" /\ End(s)
      /\ alerts' = [b \in DOMAIN alerts \ {a} |-> alerts[b]]
      /\ events' = [events EXCEPT ![a] = <<>>]
      /\ UNCHANGED <<clock, given, mails, lost>>
  BY <1>0 DEF CommitDelete, At
<1>2. ~ old.mailed
  BY <1>1 DEF AlertInv, Decided, Evaluating
<1>3. TablesTyped
  BY DEF AlertInv
<1>4. /\ DOMAIN alerts' = DOMAIN alerts \ {a}
      /\ \A b \in DOMAIN alerts' : alerts'[b] = alerts[b] /\ events'[b] = events[b]
      /\ \A b \in Ids : events'[b] = events[b] \/ (b = a /\ events'[b] = <<>>)
  BY <1>1, <1>3 DEF TablesTyped
<1>5. TablesTyped'
  <2>1. events \in [Ids -> Seq(Event)] /\ <<>> \in Seq(Event)
    BY <1>3 DEF TablesTyped
  <2>2. events' \in [Ids -> Seq(Event)]
    BY <1>1, <2>1
  <2> QED
    BY <1>1, <1>3, <1>4, <2>2 DEF TablesTyped
<1>6. /\ \A r \in Sessions : session'[r] = IF r = s THEN Idle ELSE session[r]
      /\ DOMAIN session' = Sessions
      /\ Excluded'
      /\ \A b : Mailing(b)' = Mailing(b)
  BY <1>1, <1>2, EndedQuietly
<1>7. \A r \in Sessions : (Task(session[r]) /\ LoadedOnce(session[r]) /\ Decided(session[r]))'
  <2>1. TablesGrow
    <3>1. \A b \in DOMAIN alerts' : events'[b] = events[b] /\ Len(events[b]) \in Nat
      BY <1>3, <1>4 DEF TablesTyped
    <3> QED
      BY <1>1, <1>4, <3>1 DEF TablesGrow
  <2>2. ASSUME NEW r \in Sessions, NEW b, r # s, Sharing(session[r], b)
        PROVE  b \in DOMAIN alerts'
    <3>1. b \in DOMAIN alerts
      BY <2>2 DEF AlertInv, Decided, Sharing
    <3>2. ~ (Shares(r, Target(r)) /\ Deletes(s, Target(r)))
      BY <2>2 DEF AlertInv, Excluded
    <3>3. Target(r) = b /\ Shares(r, b) /\ (b = a => Deletes(s, b))
      BY <1>0, <1>1, <2>2 DEF Sharing, Shares, Deletes, At, Target, Evaluates, Evaluating
    <3> QED
      BY <1>4, <3>1, <3>2, <3>3
  <2>3. \A r \in Sessions : r # s => \A b : Sharing(session[r], b) => b \in DOMAIN alerts'
    BY <2>2
  <2> QED
    BY <1>5, <1>6, <2>1, <2>3, OthersKnown, IdleKnownAfter
<1>8. LastIsCommittedLast'
  BY <1>4 DEF AlertInv, LastIsCommittedLast
<1>9. OnlyStaleRowsBreakTheCooldown'
  <2>1. OnlyStaleRowsBreakTheCooldown
    BY DEF AlertInv
  <2>2. \A b \in Ids : events'[b] = events[b] \/ events'[b] = <<>>
    BY <1>4
  <2> QED
    BY <2>1, <2>2 DEF OnlyStaleRowsBreakTheCooldown
<1>10. MailsAreRecorded'
  BY <1>1, <1>4, <1>6 DEF AlertInv, MailsAreRecorded
<1> QED
  BY <1>5, <1>6, <1>7, <1>8, <1>9, <1>10 DEF AlertInv

LEMMA CreateAlertKeeps ==
  ASSUME AlertInv, NEW s \in Sessions, CreateAlert(s)
  PROVE  AlertInv'
<1>1. PICK a \in Ids \ given, fields \in Created :
        /\ given' = given \cup {a}
        /\ alerts' = [b \in DOMAIN alerts \cup {a} |->
                       IF b = a THEN RowOf(fields, Never) ELSE alerts[b]]
        /\ UNCHANGED <<events, clock, session, mails, lost>>
  BY DEF CreateAlert
<1>2. TablesTyped
  BY DEF AlertInv
<1>3. RowOf(fields, Never) \in Rows /\ RowOf(fields, Never).last_triggered_at = Never
  BY RowOfTyped, SessionsAssumption
<1>4. /\ a \notin DOMAIN alerts /\ events[a] = <<>> /\ mails[a] = 0 /\ lost[a] = 0
      /\ DOMAIN alerts' = DOMAIN alerts \cup {a}
      /\ alerts'[a] = RowOf(fields, Never)
      /\ \A b \in DOMAIN alerts : alerts'[b] = alerts[b]
  BY <1>1, <1>2 DEF TablesTyped
<1>5. TablesTyped'
  BY <1>1, <1>2, <1>3, <1>4 DEF TablesTyped
<1>6. \A r \in Sessions : (Task(session[r]) /\ LoadedOnce(session[r]) /\ Decided(session[r]))'
  <2>1. TablesGrow
    <3>1. \A b \in DOMAIN alerts' \cap given : events'[b] = events[b] /\ Len(events[b]) \in Nat
      BY <1>1, <1>2, <1>4 DEF TablesTyped
    <3> QED
      BY <1>1, <1>4, <3>1 DEF TablesGrow
  <2>2. \A r \in Sessions : \A b : Sharing(session[r], b) => b \in DOMAIN alerts'
    BY <1>4 DEF AlertInv, Decided, Sharing
  <2> QED
    BY <1>1, <1>5, <2>1, <2>2, OthersKnown
<1>7. Excluded'
  BY <1>1 DEF AlertInv, Excluded, Shares, Deletes, At, Target, Evaluates
<1>8. LastIsCommittedLast'
  BY <1>1, <1>3, <1>4 DEF AlertInv, LastIsCommittedLast
<1>9. OnlyStaleRowsBreakTheCooldown'
  BY <1>1 DEF AlertInv, OnlyStaleRowsBreakTheCooldown
<1>10. MailsAreRecorded'
  <2>1. \A b : Mailing(b)' = Mailing(b)
    BY <1>1 DEF Mailing, Target
  <2>2. Mailing(a) = {}
    <3>1. \A r \in Sessions : session[r].mailed => Head(session[r].todo) \in DOMAIN alerts
      BY DEF AlertInv, Decided
    <3> QED
      BY <1>4, <3>1 DEF Mailing, Target
  <2>3. SentOf(events[a]) = {} /\ Len(events[a]) = 0 /\ Cardinality({}) = 0
    BY <1>4, FS_EmptySet DEF SentOf
  <2>4. MailsAreRecorded
    BY DEF AlertInv
  <2>5. SUFFICES ASSUME NEW b \in DOMAIN alerts'
                 PROVE  LET accounted == Cardinality(Mailing(b)) + lost[b] IN
                        /\ mails[b] <= Len(events[b]) + accounted
                        /\ Cardinality(SentOf(events[b])) + accounted <= mails[b]
    BY <1>1, <2>1 DEF MailsAreRecorded, SentOf
  <2>6. CASE b = a
    <3>1. Cardinality(Mailing(b)) = 0 /\ Cardinality(SentOf(events[b])) = 0
      BY <2>2, <2>3, <2>6
    <3>2. mails[b] = 0 /\ lost[b] = 0 /\ Len(events[b]) = 0
      BY <1>4, <2>3, <2>6
    <3> QED
      BY <3>1, <3>2
  <2>7. CASE b \in DOMAIN alerts
    BY <2>4, <2>7 DEF MailsAreRecorded, SentOf
  <2> QED
    BY <1>4, <2>6, <2>7
<1> QED
  BY <1>1, <1>5, <1>6, <1>7, <1>8, <1>9, <1>10 DEF AlertInv

\* A mail whose process dies is counted as lost, and the session no more.
LEMMA CrashKeeps ==
  ASSUME AlertInv, NEW s \in Sessions, Crash(s)
  PROVE  AlertInv'
<1> DEFINE old == session[s]
<1>0. PICK a : a = Target(s)
  OBVIOUS
<1>1. /\ End(s)
      /\ lost' = IF old.mailed THEN [lost EXCEPT ![a] = @ + 1] ELSE lost
      /\ UNCHANGED <<alerts, events, clock, given, mails>>
  BY <1>0 DEF Crash
<1>2. CASE ~ old.mailed
  <2>1. UNCHANGED tables
    BY <1>1, <1>2 DEF tables
  <2> QED
    BY <1>1, <1>2, <2>1, EndKeeps
<1>3. CASE old.mailed
  <2>1. TablesTyped /\ Excluded
    BY DEF AlertInv
  <2>2. a \in DOMAIN alerts /\ a \in given /\ a \in Ids
    BY <1>0, <1>3 DEF AlertInv, Decided, Target, TablesTyped
  <2>3. /\ \A r \in Sessions : session'[r] = IF r = s THEN Idle ELSE session[r]
        /\ DOMAIN session' = Sessions
    BY <1>1 DEF AlertInv, End
  <2>4. ~ Idle.mailed /\ Idle.pc = "idle"
    BY DEF Idle
  <2>5. /\ lost' \in [Ids -> Nat]
        /\ lost'[a] = lost[a] + 1
        /\ \A b \in Ids : b # a => lost'[b] = lost[b]
    BY <1>1, <1>3, <2>1, <2>2 DEF TablesTyped
  <2>6. TablesTyped'
    BY <1>1, <2>1, <2>2, <2>5 DEF TablesTyped
  <2>7. \A r \in Sessions : (Task(session[r]) /\ LoadedOnce(session[r]) /\ Decided(session[r]))'
    <3>1. TablesGrow
      BY <1>1 DEF TablesGrow
    <3>2. \A r \in Sessions : \A b : Sharing(session[r], b) => b \in DOMAIN alerts'
      BY <1>1 DEF AlertInv, Decided, Sharing
    <3> QED
      BY <2>3, <2>6, <3>1, <3>2, OthersKnown, IdleKnownAfter
  <2>8. Excluded'
    <3>1. \A b : ~ Deleting(Idle, b) /\ ~ Sharing(Idle, b)
      BY <2>4 DEF Deleting, Sharing
    <3> QED
      BY <2>1, <2>3, <3>1, StillExcluded
  <2>9. LastIsCommittedLast' /\ OnlyStaleRowsBreakTheCooldown'
    BY <1>1 DEF AlertInv, LastIsCommittedLast, OnlyStaleRowsBreakTheCooldown
  <2>10. MailsAreRecorded'
    <3>1. s \in Mailing(a) /\ Mailing(a)' = Mailing(a) \ {s}
      BY <1>0, <1>3, <2>3, <2>4 DEF Mailing, Target
    <3>2. \A b : b # a => Mailing(b)' = Mailing(b)
      BY <1>0, <2>3, <2>4 DEF Mailing, Target
    <3>3. Cardinality(Mailing(a)') = Cardinality(Mailing(a)) - 1
      BY <3>1, MailingWithout
    <3>4. MailsAreRecorded
      BY DEF AlertInv
    <3>5. SUFFICES ASSUME NEW b \in DOMAIN alerts
                   PROVE  LET accounted == Cardinality(Mailing(b)') + lost'[b] IN
                          /\ mails[b] <= Len(events[b]) + accounted
                          /\ Cardinality(SentOf(events[b])) + accounted <= mails[b]
      BY <1>1 DEF MailsAreRecorded, SentOf
    <3>6. b \in Ids /\ lost[b] \in Nat /\ Cardinality(Mailing(b)) \in Nat
      BY <2>1, MailingFinite DEF TablesTyped
    <3>7. Cardinality(Mailing(b)') + lost'[b] = Cardinality(Mailing(b)) + lost[b]
      BY <2>5, <3>2, <3>3, <3>6
    <3> QED
      BY <3>4, <3>7 DEF MailsAreRecorded, SentOf
  <2> QED
    BY <2>3, <2>6, <2>7, <2>8, <2>9, <2>10 DEF AlertInv
<1> QED
  BY <1>2, <1>3

\* Nothing that is known is known of the clock's present.
LEMMA StandsStill ==
  ASSUME AlertInv, clock' \in Times, UNCHANGED <<alerts, events, given, session, mails, lost>>
  PROVE  AlertInv'
<1>1. TablesTyped'
  BY DEF AlertInv, TablesTyped
<1>2. \A r \in Sessions : (Task(session[r]) /\ LoadedOnce(session[r]) /\ Decided(session[r]))'
  <2> SUFFICES ASSUME NEW r \in Sessions
               PROVE  Task(session[r])' /\ LoadedOnce(session[r])' /\ Decided(session[r])'
    OBVIOUS
  <2>1. Task(session[r]) /\ LoadedOnce(session[r]) /\ Decided(session[r])
    BY DEF AlertInv
  <2>2. Task(session[r])'
    BY <2>1 DEF Task, Evaluating
  <2>3. LoadedOnce(session[r])'
    BY <2>1 DEF LoadedOnce
  <2>4. Decided(session[r])'
    BY <2>1 DEF Decided, Evaluating, TimeOf, WithinCooldown, Settable
  <2> QED
    BY <2>2, <2>3, <2>4
<1>3. Excluded'
  BY DEF AlertInv, Excluded, Shares, Deletes, At, Target, Evaluates
<1>4. LastIsCommittedLast' /\ OnlyStaleRowsBreakTheCooldown'
  BY DEF AlertInv, LastIsCommittedLast, OnlyStaleRowsBreakTheCooldown
<1>5. MailsAreRecorded'
  <2>1. \A b : Mailing(b)' = Mailing(b)
    BY DEF Mailing, Target
  <2> QED
    BY <2>1 DEF AlertInv, MailsAreRecorded
<1> QED
  BY <1>1, <1>2, <1>3, <1>4, <1>5 DEF AlertInv

-----------------------------------------------------------------------------
LEMMA Initial == Init => AlertInv
<1> SUFFICES ASSUME Init PROVE AlertInv
  OBVIOUS
<1>1. \A a \in DOMAIN Initially : /\ Initially[a] \in Rows
                                  /\ Initially[a].last_triggered_at = Never
  BY SessionsAssumption, RowOfTyped
<1>2. TablesTyped
  BY <1>1, SessionsAssumption, AlertAssumption DEF Init, TablesTyped, Times
<1>3. DOMAIN session = Sessions /\ \A s \in Sessions : session[s] = Idle
  BY DEF Init
<1>4. \A s \in Sessions : Task(session[s]) /\ LoadedOnce(session[s]) /\ Decided(session[s])
  BY <1>2, <1>3, IdleKnown
<1>5. Excluded
  BY <1>3 DEF Excluded, Shares, At, Idle, Evaluates
<1>6. LastIsCommittedLast /\ OnlyStaleRowsBreakTheCooldown
  BY <1>1, SessionsAssumption DEF Init, LastIsCommittedLast, OnlyStaleRowsBreakTheCooldown
<1>7. MailsAreRecorded
  <2>1. \A a : Mailing(a) = {}
    BY <1>3 DEF Mailing, Idle
  <2>2. \A a \in DOMAIN alerts : events[a] = <<>> /\ mails[a] = 0 /\ lost[a] = 0
    BY SessionsAssumption DEF Init
  <2>3. Cardinality({}) = 0
    BY FS_EmptySet
  <2>4. SUFFICES ASSUME NEW a \in DOMAIN alerts
                 PROVE  /\ mails[a] <= Len(events[a]) + (Cardinality(Mailing(a)) + lost[a])
                        /\ Cardinality(SentOf(events[a])) + (Cardinality(Mailing(a)) + lost[a])
                             <= mails[a]
    BY DEF MailsAreRecorded, SentOf
  <2>5. SentOf(events[a]) = {} /\ Len(events[a]) = 0
    BY <2>2 DEF SentOf
  <2>6. Cardinality(Mailing(a)) = 0 /\ Cardinality(SentOf(events[a])) = 0
    BY <2>1, <2>3, <2>5
  <2> QED
    BY <2>2, <2>5, <2>6
<1> QED
  BY <1>2, <1>3, <1>4, <1>5, <1>6, <1>7 DEF AlertInv

LEMMA NextKeeps == AlertInv /\ [Next]_vars => AlertInv'
<1> SUFFICES ASSUME AlertInv, [Next]_vars PROVE AlertInv'
  OBVIOUS
<1>1. ASSUME NEW s \in Sessions, Begin(s) PROVE AlertInv'
  BY <1>1, CreateAlertKeeps, BeginEvaluateKeeps, BeginBatchKeeps, BeginUpdateKeeps, BeginDeleteKeeps
     DEF Begin
<1>2. ASSUME NEW s \in Sessions, Work(s) PROVE AlertInv'
  BY <1>2, CheckKeeps, MeetConditionKeeps, InsertEventKeeps, SendMailKeeps, RecordTriggerKeeps,
     CommitTriggerKeeps, RespondKeeps, EscapeKeeps, FlushUpdateKeeps, CommitUpdateKeeps,
     FlushDeleteKeeps, CommitDeleteKeeps DEF Work
<1>3. CASE Tick
  <2>1. clock' \in Times
    BY <1>3, AlertAssumption DEF Tick, AlertInv, TablesTyped, Times
  <2> QED
    BY <1>3, <2>1, StandsStill DEF Tick
<1>4. CASE UNCHANGED vars
  BY <1>4, StandsStill DEF vars, AlertInv, TablesTyped
<1> QED
  BY <1>1, <1>2, <1>3, <1>4, CrashKeeps DEF Next

LEMMA AlwaysAlertInv == Spec => []AlertInv
  BY Initial, NextKeeps, PTL DEF Spec

-----------------------------------------------------------------------------
\* Rows, histories and what sessions hold keep their types, and an alert that is gone
\* leaves no history (alert_service.py:90).
THEOREM HistoriesGoWithTheirAlerts == Spec => []TablesTyped
  BY AlwaysAlertInv, PTL DEF AlertInv

\* However evaluations, updates and deletions interleave and die, last_triggered_at is
\* the time of the event committed last (alert_service.py:81, 239).
THEOREM LastIsAlwaysCommittedLast == Spec => []LastIsCommittedLast
  BY AlwaysAlertInv, PTL DEF AlertInv

\* Only a trigger that was decided on a row loaded before the last trigger of its
\* alert committed breaks the cooldown, for any cooldown (alert_service.py:148).
THEOREM OnlyStaleRowsEverBreakTheCooldown == Spec => []OnlyStaleRowsBreakTheCooldown
  BY AlwaysAlertInv, PTL DEF AlertInv

\* Every mail is recorded, about to be, or lost to a crash, and none is recorded as
\* sent that was not (alert_service.py:226).
THEOREM MailsAreAlwaysRecorded == Spec => []MailsAreRecorded
  BY AlwaysAlertInv, PTL DEF AlertInv

\* However many tasks and requests there are, the loop of the task is left by an
\* exception only when the alert it is at was deleted (alert_service.py:135).
THEOREM OnlyDeletionsStopBatches == Spec => []OnlyDeletionStopsABatch
<1>1. AlertInv => OnlyDeletionStopsABatch
  BY DEF AlertInv, Decided, OnlyDeletionStopsABatch, At, Target
<1> QED
  BY <1>1, AlwaysAlertInv, PTL

-----------------------------------------------------------------------------
(***************************************************************************)
(* One session: requests and tasks are served one after the other.         *)
(***************************************************************************)
\* What the only session holds is what the tables say, and what it has decided of it
\* still stands.
Held(w) ==
  LET a == Head(w.todo) IN
  /\ \A b \in DOMAIN w.loaded :
       b \in DOMAIN alerts /\ w.loaded[b].row = alerts[b] /\ w.loaded[b].basis = Len(events[b])
  /\ Evaluating(w) /\ w.pc \in {"insert", "mail", "record", "commit"}
       => w.now <= clock /\ CanFire(alerts[a])
  /\ w.kind = "update" /\ w.pc = "flush"
       => Passes(alerts[a], [set |-> w.columns, nulls |-> w.nulls])
  /\ w.kind = "update" /\ w.pc = "commit" => Acceptable(Written(alerts[a], w.columns))

\* Every row passes the checks of create and update, every trigger was decided on the
\* history it extends.
SoundTables ==
  /\ \A a \in DOMAIN alerts : Acceptable(alerts[a])
  /\ \A a \in Ids : \A i \in DOMAIN events[a] : events[a][i].basis = i - 1

AloneInv ==
  /\ AlertInv
  /\ \A s \in Sessions : Held(session[s])
  /\ SoundTables

\* No two sessions.
Alone == \A s, t \in Sessions : s = t

\* AlertLog takes its rules from AlertRules as well.
LEMMA SameRules ==
  /\ Log!Fields = Fields /\ Log!Rows = Rows /\ Log!Never = Never
  /\ \A alert : Log!Acceptable(alert) <=> Acceptable(alert)
  /\ \A fields, last : Log!RowOf(fields, last) = RowOf(fields, last)
  /\ \A alert, now : Log!WithinCooldown(alert, now) <=> WithinCooldown(alert, now)
<1>1. Log!Conditions = Conditions /\ Log!Times = Times /\ Log!Never = Never
  BY DEF Log!Conditions, Conditions, Log!Times, Times, Log!Never, Never
<1>2. \A type : Log!ConditionsOf(type) = ConditionsOf(type)
  BY DEF Log!ConditionsOf, ConditionsOf
<1> QED
  BY <1>1, <1>2 DEF Log!Fields, Fields, Log!Rows, Rows, Log!Acceptable, Acceptable, Log!RowOf,
     RowOf, Log!WithinCooldown, WithinCooldown

LEMMA SameFiring == \A alert : Log!CanFire(alert) <=> CanFire(alert)
<1>1. Log!Readings = Readings
  BY DEF Log!Readings, Readings, Log!NoBase, NoBase
<1>2. \A alert, reading : Log!ConditionMet(alert, reading) <=> ConditionMet(alert, reading)
  BY DEF Log!ConditionMet, ConditionMet, Log!Distance, Distance
<1>3. \A alert : Log!Readable(alert) <=> Readable(alert)
  BY DEF Log!Readable, Readable, Log!Referenced, Referenced, Log!Owned, Owned
<1> QED
  BY <1>1, <1>2, <1>3 DEF Log!CanFire, CanFire

\* The times of a history's triggers.
TimesOf(history) == [i \in DOMAIN history |-> history[i].at]

LEMMA TimesOfNone == TimesOf(<<>>) = <<>>
BY DEF TimesOf

LEMMA TimesOfAppended ==
  ASSUME NEW history \in Seq(Event), NEW event \in Event
  PROVE  TimesOf(Append(history, event)) = Append(TimesOf(history), event.at)
<1> DEFINE n == Len(history)
           times == TimesOf(history)
           longer == Append(history, event)
<1>1. /\ n \in Nat /\ DOMAIN history = 1 .. n /\ DOMAIN longer = 1 .. n + 1
      /\ longer[n + 1] = event /\ \A i \in 1 .. n : longer[i] = history[i]
      /\ \A i \in 1 .. n : history[i] \in Event
  OBVIOUS
<1>2. DOMAIN times = 1 .. n /\ \A i \in 1 .. n : times[i] = history[i].at
  BY <1>1 DEF TimesOf
<1>3. times \in Seq(Times) /\ Len(times) = n /\ event.at \in Times
  <2>1. times = [i \in 1 .. n |-> history[i].at]
    BY <1>1 DEF TimesOf
  <2>2. \A i \in 1 .. n : history[i].at \in Times
    BY <1>1 DEF Event
  <2> HIDE DEF n
  <2> QED
    BY <1>1, <2>1, <2>2 DEF Event
<1>4. /\ DOMAIN Append(times, event.at) = 1 .. n + 1
      /\ Append(times, event.at)[n + 1] = event.at
      /\ \A i \in 1 .. n : Append(times, event.at)[i] = times[i]
      /\ Append(times, event.at) \in Seq(Times)
  BY <1>3
<1>5. TimesOf(longer) = [i \in 1 .. n + 1 |-> longer[i].at]
  BY <1>1 DEF TimesOf
<1>6. Append(times, event.at) = [i \in 1 .. n + 1 |-> Append(times, event.at)[i]]
  BY <1>4
<1> HIDE DEF n, times, longer
<1>7. \A i \in 1 .. n + 1 : Append(times, event.at)[i] = longer[i].at
  BY <1>1, <1>2, <1>4
<1> QED
  BY <1>5, <1>6, <1>7 DEF times, longer

\* The history AlertLog sees.
History == [a \in Ids |-> TimesOf(events[a])]

\* A step of the only session leaves it holding the truth, and AlertLog can do it too.
Served ==
  /\ (\A s \in Sessions : Held(session[s]))'
  /\ SoundTables'
  /\ [Log!Next]_(Log!vars)

LEMMA LogStands ==
  ASSUME UNCHANGED <<alerts, events, given, clock>>
  PROVE  [Log!Next]_(Log!vars)
BY DEF Log!vars

LEMMA LogSteps == Log!Next => [Log!Next]_(Log!vars)
  OBVIOUS

-----------------------------------------------------------------------------
\* A session that has decided nothing holds what it has loaded.
LEMMA HeldAtRest ==
  ASSUME NEW w,
         \A a \in DOMAIN w.loaded : /\ a \in DOMAIN alerts /\ w.loaded[a].row = alerts[a]
                                    /\ w.loaded[a].basis = Len(events[a]),
         w.kind \in {"none", "delete"} \/ w.pc \in {"check", "respond", "escaped"}
  PROVE  Held(w)
BY DEF Held, Evaluating

LEMMA QuietStep ==
  ASSUME Alone, AloneInv, NEW s \in Sessions, NEW w, session' = [session EXCEPT ![s] = w],
         UNCHANGED <<alerts, events, given, clock>>, Held(w)
  PROVE  Served
<1>1. \A r \in Sessions : session'[r] = w
  BY DEF AloneInv, AlertInv, Alone
<1>2. (\A r \in Sessions : Held(session[r]))'
  BY <1>1 DEF Held, Evaluating, Passes, Written
<1>3. SoundTables'
  BY DEF AloneInv, SoundTables
<1> QED
  BY <1>2, <1>3, LogStands DEF Served

LEMMA QuietEnd ==
  ASSUME Alone, AloneInv, NEW s \in Sessions, End(s), UNCHANGED <<alerts, events, given, clock>>
  PROVE  Served
<1>1. Held(Idle)
  <2>1. Idle.kind = "none" /\ DOMAIN Idle.loaded = {}
    BY DEF Idle
  <2> QED
    BY <2>1, HeldAtRest
<1> QED
  BY <1>1, QuietStep DEF End

LEMMA QuietRaise ==
  ASSUME Alone, AloneInv, NEW s \in Sessions, Raise(s), UNCHANGED <<alerts, events, given, clock>>
  PROVE  Served
<1>1. CASE session[s].kind = "batch"
  <2> DEFINE w == [Idle EXCEPT !.kind = "batch", !.pc = "respond", !.todo = session[s].todo]
  <2>1. w.pc = "respond" /\ DOMAIN w.loaded = {}
    BY DEF Idle
  <2>2. session' = [session EXCEPT ![s] = w]
    BY <1>1 DEF Raise
  <2> HIDE DEF w
  <2>3. Held(w)
    BY <2>1, HeldAtRest
  <2> QED
    BY <2>2, <2>3, QuietStep
<1> QED
  BY <1>1, QuietEnd DEF Raise

LEMMA QuietContinue ==
  ASSUME Alone, AloneInv, NEW s \in Sessions, NEW loaded, Continue(s, loaded),
         UNCHANGED <<alerts, events, given, clock>>,
         DOMAIN loaded \subseteq DOMAIN session[s].loaded,
         \A a \in DOMAIN loaded : loaded[a] = session[s].loaded[a]
  PROVE  Served
<1>1. CASE session[s].kind = "batch" /\ Len(session[s].todo) > 1
  <2> DEFINE w == [Idle EXCEPT !.kind = "batch", !.pc = "check", !.todo = Tail(session[s].todo),
                               !.loaded = loaded]
  <2>1. w.pc = "check" /\ w.loaded = loaded
    BY DEF Idle
  <2>2. session' = [session EXCEPT ![s] = w]
    BY <1>1 DEF Continue
  <2> HIDE DEF w
  <2>3. Held(session[s])
    BY DEF AloneInv
  <2>4. Held(w)
    BY <2>1, <2>3, HeldAtRest DEF Held
  <2> QED
    BY <2>2, <2>4, QuietStep
<1> QED
  BY <1>1, QuietEnd DEF Continue

LEMMA BeginsServed ==
  ASSUME Alone, AloneInv, NEW s \in Sessions,
         BeginEvaluate(s) \/ BeginBatch(s) \/ BeginUpdate(s) \/ BeginDelete(s)
  PROVE  Served
<1>1. UNCHANGED <<alerts, events, given, clock>>
  BY DEF BeginEvaluate, BeginBatch, BeginUpdate, BeginDelete
<1>2. CASE BeginEvaluate(s)
  <2>1. PICK a \in DOMAIN alerts :
          session' = [session EXCEPT ![s] =
            [Idle EXCEPT !.kind = "evaluate", !.pc = "check", !.todo = <<a>>,
                         !.loaded = [b \in {a} |-> Loaded(a)]]]
    BY <1>2 DEF BeginEvaluate, Start
  <2> DEFINE w == [Idle EXCEPT !.kind = "evaluate", !.pc = "check", !.todo = <<a>>,
                               !.loaded = [b \in {a} |-> Loaded(a)]]
  <2>2. w.pc = "check" /\ w.loaded = [b \in {a} |-> Loaded(a)]
    BY DEF Idle
  <2>3. session' = [session EXCEPT ![s] = w]
    BY <2>1
  <2> HIDE DEF w
  <2>4. Held(w)
    BY <2>2, HeldAtRest DEF Loaded
  <2> QED
    BY <1>1, <2>3, <2>4, QuietStep
<1>3. CASE BeginBatch(s)
  <2> DEFINE active == {a \in DOMAIN alerts : alerts[a].is_active}
             loaded == [a \in active |-> Loaded(a)]
  <2>1. PICK todo \in [1 .. Cardinality(active) -> active] :
          session' = [session EXCEPT ![s] =
            [Idle EXCEPT !.kind = "batch", !.pc = "check", !.todo = todo, !.loaded = loaded]]
    BY <1>3 DEF BeginBatch, Start
  <2> DEFINE w == [Idle EXCEPT !.kind = "batch", !.pc = "check", !.todo = todo, !.loaded = loaded]
  <2>2. w.pc = "check" /\ w.loaded = loaded
    BY DEF Idle
  <2>3. session' = [session EXCEPT ![s] = w]
    BY <2>1
  <2> HIDE DEF w
  <2>4. Held(w)
    BY <2>2, HeldAtRest DEF Loaded
  <2> QED
    BY <1>1, <2>3, <2>4, QuietStep
<1>4. CASE BeginUpdate(s)
  <2>1. PICK a \in DOMAIN alerts, change \in Changes :
          /\ Passes(alerts[a], change)
          /\ session' = [session EXCEPT ![s] =
               [Idle EXCEPT !.kind = "update", !.pc = "flush", !.todo = <<a>>,
                            !.loaded = [b \in {a} |-> Loaded(a)],
                            !.columns = change.set, !.nulls = change.nulls]]
    BY <1>4 DEF BeginUpdate, Start
  <2> DEFINE w == [Idle EXCEPT !.kind = "update", !.pc = "flush", !.todo = <<a>>,
                               !.loaded = [b \in {a} |-> Loaded(a)],
                               !.columns = change.set, !.nulls = change.nulls]
  <2>2. /\ w.kind = "update" /\ w.pc = "flush" /\ w.loaded = [b \in {a} |-> Loaded(a)]
        /\ w.todo = <<a>> /\ w.columns = change.set /\ w.nulls = change.nulls
    BY DEF Idle
  <2>3. session' = [session EXCEPT ![s] = w]
    BY <2>1
  <2> HIDE DEF w
  <2>4. Passes(alerts[a], [set |-> w.columns, nulls |-> w.nulls])
    BY <2>1, <2>2 DEF Passes
  <2>5. Head(w.todo) = a
    BY <2>2
  <2>6. Held(w)
    BY <2>2, <2>4, <2>5 DEF Held, Loaded, Evaluating
  <2> QED
    BY <1>1, <2>3, <2>6, QuietStep
<1>5. CASE BeginDelete(s)
  <2>1. PICK a \in DOMAIN alerts :
          session' = [session EXCEPT ![s] =
            [Idle EXCEPT !.kind = "delete", !.pc = "delete", !.todo = <<a>>,
                         !.seen = Len(events[a])]]
    BY <1>5 DEF BeginDelete, Start
  <2> DEFINE w == [Idle EXCEPT !.kind = "delete", !.pc = "delete", !.todo = <<a>>,
                               !.seen = Len(events[a])]
  <2>2. w.kind = "delete" /\ DOMAIN w.loaded = {}
    BY DEF Idle
  <2>3. session' = [session EXCEPT ![s] = w]
    BY <2>1
  <2> HIDE DEF w
  <2>4. Held(w)
    BY <2>2, HeldAtRest
  <2> QED
    BY <1>1, <2>3, <2>4, QuietStep
<1> QED
  BY <1>2, <1>3, <1>4, <1>5

LEMMA ChecksServed ==
  ASSUME Alone, AloneInv, NEW s \in Sessions, MissAlert(s) \/ StayQuiet(s) \/ FailToRead(s)
  PROVE  Served
<1>1. UNCHANGED <<alerts, events, given, clock>>
  BY DEF MissAlert, StayQuiet, FailToRead
<1>2. CASE StayQuiet(s)
  <2>1. /\ DOMAIN LoadedOfRest(s) \subseteq DOMAIN session[s].loaded
        /\ \A a \in DOMAIN LoadedOfRest(s) : LoadedOfRest(s)[a] = session[s].loaded[a]
    BY DEF LoadedOfRest
  <2> QED
    BY <1>1, <1>2, <2>1, QuietContinue DEF StayQuiet
<1> QED
  BY <1>1, <1>2, QuietRaise DEF MissAlert, FailToRead

\* The row at hand is the alert's, whether it was read again or not.
LEMMA MeetConditionServed ==
  ASSUME Alone, AloneInv, NEW s \in Sessions, MeetCondition(s)
  PROVE  Served
<1> DEFINE a == Target(s)
           old == session[s]
           loaded == [b \in DOMAIN old.loaded \cup {a} |-> IF b = a THEN AtHand(s) ELSE old.loaded[b]]
           w == [old EXCEPT !.pc = "insert", !.now = clock, !.loaded = loaded]
<1>1. /\ old.pc = "check" /\ (Expired(s) => a \in DOMAIN alerts)
      /\ UNCHANGED <<alerts, events, given, clock>>
      /\ CanFire(AtHand(s).row)
  BY DEF MeetCondition, MayCheck, At
<1>2. session' = [session EXCEPT ![s] = w]
  BY DEF MeetCondition
<1>3. Held(old) /\ Task(old) /\ clock \in Times
  BY DEF AloneInv, AlertInv, TablesTyped
<1>4. /\ a \in DOMAIN alerts /\ AtHand(s).row = alerts[a]
      /\ AtHand(s).basis = Len(events[a])
  BY <1>1, <1>3 DEF Held, AtHand, Expired, Loaded
<1>5. /\ DOMAIN loaded = DOMAIN old.loaded \cup {a} /\ loaded[a] = AtHand(s)
      /\ \A b \in DOMAIN loaded : b # a => b \in DOMAIN old.loaded /\ loaded[b] = old.loaded[b]
  OBVIOUS
<1> HIDE DEF loaded
<1>6. /\ w.kind = old.kind /\ w.pc = "insert" /\ w.todo = old.todo /\ w.loaded = loaded
      /\ w.now = clock
  BY <1>3 DEF Task
<1> HIDE DEF w
<1>7. \A b \in DOMAIN loaded : /\ b \in DOMAIN alerts /\ loaded[b].row = alerts[b]
                               /\ loaded[b].basis = Len(events[b])
  BY <1>3, <1>4, <1>5 DEF Held
<1>8. w.now <= clock
  BY <1>3, <1>6 DEF Times
<1>9. CanFire(alerts[Head(w.todo)])
  BY <1>1, <1>4, <1>6 DEF Target
<1>10. Held(w)
  BY <1>6, <1>7, <1>8, <1>9 DEF Held
<1> QED
  BY <1>1, <1>2, <1>10, QuietStep

LEMMA SendsServed ==
  ASSUME Alone, AloneInv, NEW s \in Sessions, InsertEvent(s) \/ SendMail(s) \/ RecordTrigger(s)
  PROVE  Served
<1> DEFINE old == session[s]
<1>1. Held(old) /\ Task(old) /\ old.pc \in {"insert", "mail", "record"} /\ Evaluating(old)
  BY DEF AloneInv, AlertInv, InsertEvent, SendMail, RecordTrigger, At, Task, Evaluating
<1>2. UNCHANGED <<alerts, events, given, clock>>
  BY DEF InsertEvent, SendMail, RecordTrigger
<1>3. ASSUME NEW w, session' = [session EXCEPT ![s] = w],
             w.kind = old.kind, w.pc \in {"mail", "record", "commit"}, w.todo = old.todo,
             w.loaded = old.loaded, w.now = old.now
      PROVE  Served
  <2>1. Held(w)
    BY <1>1, <1>3 DEF Held, Evaluating
  <2> QED
    BY <1>2, <1>3, <2>1, QuietStep
<1>4. CASE InsertEvent(s)
  <2>1. CASE Goto(s, "mail")
    <3>1. PICK w : /\ session' = [session EXCEPT ![s] = w]
                   /\ w.pc = "mail"
                   /\ w.kind = old.kind /\ w.todo = old.todo
                   /\ w.loaded = old.loaded /\ w.now = old.now
      BY <2>1, Moved DEF AloneInv
    <3> QED
      BY <1>3, <3>1
  <2>2. CASE Raise(s)
    BY <1>2, <2>2, QuietRaise
  <2> QED
    BY <1>4, <2>1, <2>2 DEF InsertEvent
<1>5. CASE SendMail(s)
  <2>1. PICK sent \in BOOLEAN, status \in {"SENT", "FAILED"} :
          session' = [session EXCEPT ![s].pc = "record", ![s].status = status, ![s].mailed = sent]
    BY <1>5 DEF SendMail
  <2> DEFINE w == [old EXCEPT !.pc = "record", !.status = status, !.mailed = sent]
  <2>2. session' = [session EXCEPT ![s] = w]
    BY <2>1
  <2>3. /\ w.pc = "record" /\ w.kind = old.kind /\ w.todo = old.todo
        /\ w.loaded = old.loaded /\ w.now = old.now
    BY <1>1 DEF Task
  <2> HIDE DEF w
  <2> QED
    BY <1>3, <2>2, <2>3
<1>6. CASE RecordTrigger(s)
  <2> DEFINE w == [old EXCEPT !.pc = "commit", !.columns = [last_triggered_at |-> old.now]]
  <2>1. session' = [session EXCEPT ![s] = w]
    BY <1>6 DEF RecordTrigger
  <2>2. /\ w.pc = "commit" /\ w.kind = old.kind /\ w.todo = old.todo
        /\ w.loaded = old.loaded /\ w.now = old.now
    BY <1>1 DEF Task
  <2> HIDE DEF w
  <2> QED
    BY <1>3, <2>1, <2>2
<1> QED
  BY <1>4, <1>5, <1>6

LEMMA AnswersServed ==
  ASSUME Alone, AloneInv, NEW s \in Sessions, Respond(s) \/ Escape(s) \/ Crash(s)
  PROVE  Served
<1>1. UNCHANGED <<alerts, events, given, clock>>
  BY DEF Respond, Escape, Crash
<1>2. CASE Escape(s) \/ Crash(s)
  BY <1>1, <1>2, QuietEnd DEF Escape, Crash
<1>3. CASE Continue(s, <<>>)
  <2>1. DOMAIN <<>> = {}
    OBVIOUS
  <2> QED
    BY <1>1, <1>3, <2>1, QuietContinue
<1>4. CASE Goto(s, "escaped")
  <2>1. PICK w : session' = [session EXCEPT ![s] = w] /\ w.pc = "escaped"
                 /\ w.loaded = session[s].loaded
    BY <1>4, Moved DEF AloneInv
  <2>2. Held(session[s])
    BY DEF AloneInv
  <2>3. Held(w)
    BY <2>1, <2>2, HeldAtRest DEF Held
  <2> QED
    BY <1>1, <2>1, <2>3, QuietStep
<1> QED
  BY <1>2, <1>3, <1>4 DEF Respond

\* Writing the columns that differ leaves the row that writing all of them would.
LEMMA FlushesServed ==
  ASSUME Alone, AloneInv, NEW s \in Sessions, FlushUpdate(s) \/ FlushDelete(s)
  PROVE  Served
<1> DEFINE old == session[s]
<1>1. Held(old) /\ Task(old) /\ Decided(old)
  BY DEF AloneInv, AlertInv
<1>2. UNCHANGED <<alerts, events, given, clock>>
  BY DEF FlushUpdate, FlushDelete
<1>3. CASE End(s)
  BY <1>2, <1>3, QuietEnd
<1>4. CASE FlushDelete(s) /\ Goto(s, "commit")
  <2>1. PICK w : /\ session' = [session EXCEPT ![s] = w]
                 /\ w.kind = old.kind /\ w.loaded = old.loaded
    BY <1>4, Moved DEF AloneInv
  <2>2. old.kind = "delete"
    BY <1>1, <1>4 DEF FlushDelete, At, Task, Evaluating
  <2>3. Held(w)
    BY <1>1, <2>1, <2>2, HeldAtRest DEF Held
  <2> QED
    BY <1>2, <2>1, <2>3, QuietStep
<1>5. CASE FlushUpdate(s) /\ ~ End(s)
  <2> DEFINE a == Target(s)
             w == [old EXCEPT !.pc = "commit", !.columns = Differing(s)]
  <2>1. /\ old.pc = "flush" /\ old.nulls = {} /\ a \in DOMAIN alerts
        /\ session' = [session EXCEPT ![s] = w]
    BY <1>5 DEF FlushUpdate, At
  <2>2. old.kind = "update" /\ a = Head(old.todo)
    BY <1>1, <2>1 DEF Task, Evaluating, Target
  <2>3. a \in DOMAIN old.loaded /\ old.loaded[a].row = alerts[a] /\ Acceptable(Written(alerts[a], old.columns))
    BY <1>1, <2>1, <2>2 DEF Decided, Held, Passes
  <2>4. Written(alerts[a], Differing(s)) = Written(alerts[a], old.columns)
    BY <2>3 DEF Written, Differing
  <2>5. /\ w.kind = "update" /\ w.pc = "commit" /\ w.todo = old.todo /\ w.loaded = old.loaded
        /\ w.columns = Differing(s)
    BY <1>1, <2>2 DEF Task
  <2> HIDE DEF w
  <2>6. Acceptable(Written(alerts[Head(w.todo)], w.columns))
    BY <2>2, <2>3, <2>4, <2>5
  <2>7. Held(w)
    BY <1>1, <2>5, <2>6 DEF Held, Evaluating
  <2> QED
    BY <1>2, <2>1, <2>7, QuietStep
<1> QED
  BY <1>3, <1>4, <1>5 DEF FlushDelete

-----------------------------------------------------------------------------
(***************************************************************************)
(* The steps AlertLog sees.                                                *)
(***************************************************************************)
LEMMA LogVars ==
  /\ Log!vars = <<alerts, History, clock, given>>
  /\ Log!vars' = <<alerts', History', clock', given'>>
BY DEF Log!vars, History, TimesOf

\* Only the session that stepped is there, and it holds nothing.
LEMMA EmptyHanded ==
  ASSUME Alone, AloneInv, NEW s \in Sessions,
         NEW w, session' = [session EXCEPT ![s] = w],
         DOMAIN w.loaded = {}, w.kind = "none" \/ w.pc = "respond"
  PROVE  (\A r \in Sessions : Held(session[r]))'
<1>1. \A r \in Sessions : session'[r] = w
  BY DEF AloneInv, AlertInv, Alone
<1> QED
  BY <1>1 DEF Held, Evaluating

LEMMA IdleHanded ==
  ASSUME Alone, AloneInv, NEW s \in Sessions, End(s)
  PROVE  (\A r \in Sessions : Held(session[r]))'
<1>1. DOMAIN Idle.loaded = {} /\ Idle.kind = "none"
  BY DEF Idle
<1> QED
  BY <1>1, EmptyHanded DEF End

LEMMA CreateAlertServed ==
  ASSUME Alone, AloneInv, NEW s \in Sessions, CreateAlert(s)
  PROVE  Served
<1>1. PICK a \in Ids \ given, fields \in Created :
        /\ MayBegin(s)
        /\ \A b \in Ids \ given : a <= b
        /\ Acceptable(fields)
        /\ given' = given \cup {a}
        /\ alerts' = [b \in DOMAIN alerts \cup {a} |->
                       IF b = a THEN RowOf(fields, Never) ELSE alerts[b]]
        /\ UNCHANGED <<events, clock, session, mails, lost>>
  BY DEF CreateAlert
<1>2. fields \in Fields /\ a \notin DOMAIN alerts
  BY <1>1, SessionsAssumption DEF AloneInv, AlertInv, TablesTyped
<1>3. (\A r \in Sessions : Held(session[r]))'
  <2>1. SUFFICES ASSUME NEW r \in Sessions PROVE Held(session[r])'
    OBVIOUS
  <2>2. r = s /\ session'[r] = session[s] /\ session[s].pc = "idle"
    BY <1>1 DEF Alone, MayBegin, At
  <2>3. session[s].kind = "none" /\ Held(session[s])
    BY <2>2 DEF AloneInv, AlertInv, Task
  <2>4. \A b \in DOMAIN session[s].loaded :
          b \in DOMAIN alerts' /\ alerts'[b] = alerts[b] /\ events'[b] = events[b]
    BY <1>1, <1>2, <2>3 DEF Held
  <2> QED
    BY <2>2, <2>3, <2>4 DEF Held, Evaluating
<1>4. SoundTables'
  <2>1. Acceptable(RowOf(fields, Never))
    BY <1>1 DEF Acceptable, RowOf
  <2>2. \A b \in DOMAIN alerts' : alerts'[b] = RowOf(fields, Never) \/
                                  (b \in DOMAIN alerts /\ alerts'[b] = alerts[b])
    BY <1>1, <1>2
  <2> QED
    BY <1>1, <2>1, <2>2 DEF AloneInv, SoundTables
<1>5. Log!CreateAlert
  <2>1. Log!NewId(a)
    BY <1>1 DEF Log!NewId
  <2>2. fields \in Log!Fields /\ Log!Acceptable(fields)
        /\ RowOf(fields, Never) = Log!RowOf(fields, Log!Never)
    BY <1>1, <1>2, SameRules
  <2> QED
    BY <1>1, <2>1, <2>2 DEF Log!CreateAlert
<1> QED
  BY <1>3, <1>4, <1>5, LogSteps DEF Served, Log!Next

\* The row is the one the decision was made on.
LEMMA CommitTriggerServed ==
  ASSUME Alone, AloneInv, NEW s \in Sessions, CommitTrigger(s)
  PROVE  Served
<1> DEFINE old == session[s]
<1>0. PICK a, now, event :
        /\ a = Target(s) /\ now = old.now
        /\ event = [at |-> now, status |-> old.status, basis |-> old.loaded[a].basis]
  OBVIOUS
<1>1. /\ old.pc = "commit" /\ Evaluating(old)
      /\ alerts' = [alerts EXCEPT ![a] = Written(alerts[a], old.columns)]
      /\ events' = [events EXCEPT ![a] = Append(events[a], event)]
      /\ session' = [session EXCEPT ![s] = [Idle EXCEPT
           !.kind = old.kind, !.pc = "respond", !.todo = old.todo]]
      /\ UNCHANGED <<clock, given>>
  BY <1>0 DEF CommitTrigger, At, Evaluates, Evaluating
<1>2. Task(old) /\ Decided(old) /\ Held(old) /\ TablesTyped /\ SoundTables
  BY DEF AloneInv, AlertInv
<1>3. /\ a \in DOMAIN old.loaded /\ a \in DOMAIN alerts /\ a \in Ids /\ now \in Times
      /\ ~ WithinCooldown(alerts[a], now) /\ now <= clock /\ CanFire(alerts[a])
      /\ old.loaded[a].basis = Len(events[a])
      /\ old.columns = [last_triggered_at |-> now]
  BY <1>0, <1>1, <1>2 DEF Target, Decided, Held, Task, TablesTyped
<1>4. /\ event \in Event /\ event.at = now /\ event.basis = Len(events[a])
      /\ events[a] \in Seq(Event) /\ alerts[a] \in Rows
  BY <1>0, <1>2, <1>3 DEF Event, Task, TablesTyped
<1>5. alerts' = [alerts EXCEPT ![a] = [alerts[a] EXCEPT !.last_triggered_at = now]]
  <2>1. Written(alerts[a], old.columns) = [alerts[a] EXCEPT !.last_triggered_at = now]
    BY <1>3, <1>4, TriggeredTyped
  <2> QED
    BY <1>1, <2>1
<1>6. (\A r \in Sessions : Held(session[r]))'
  <2> DEFINE w == [Idle EXCEPT !.kind = old.kind, !.pc = "respond", !.todo = old.todo]
  <2>1. w.pc = "respond" /\ DOMAIN w.loaded = {}
    BY DEF Idle
  <2>2. session' = [session EXCEPT ![s] = w]
    BY <1>1
  <2> HIDE DEF w
  <2> QED
    BY <2>1, <2>2, EmptyHanded
<1>7. SoundTables'
  <2>1. ASSUME NEW b \in DOMAIN alerts' PROVE Acceptable(alerts'[b])
    <3>1. b \in DOMAIN alerts /\ Acceptable(alerts[b])
      BY <1>2, <1>5, <2>1 DEF SoundTables
    <3>2. CASE b = a
      <4>1. alerts'[b] = [alerts[a] EXCEPT !.last_triggered_at = now]
        BY <1>3, <1>5, <3>2
      <4>2. /\ alerts'[b].condition = alerts[a].condition
            /\ alerts'[b].alert_type = alerts[a].alert_type
            /\ alerts'[b].asset_id = alerts[a].asset_id
            /\ alerts'[b].portfolio_id = alerts[a].portfolio_id
        BY <1>4, <4>1 DEF Rows
      <4> QED
        BY <3>1, <3>2, <4>2 DEF Acceptable
    <3>3. CASE b # a
      BY <1>5, <3>1, <3>3
    <3> QED
      BY <3>2, <3>3
  <2>2. ASSUME NEW b \in Ids, NEW i \in DOMAIN events'[b] PROVE events'[b][i].basis = i - 1
    <3>1. events \in [Ids -> Seq(Event)] /\ \A j \in DOMAIN events[b] : events[b][j].basis = j - 1
      BY <1>2 DEF TablesTyped, SoundTables
    <3>2. CASE b # a
      BY <1>1, <2>2, <3>1, <3>2
    <3>3. CASE b = a
      <4>1. events'[b] = Append(events[b], event)
        BY <1>1, <3>1, <3>3
      <4>2. /\ Len(events[b]) \in Nat /\ DOMAIN events'[b] = 1 .. Len(events[b]) + 1
            /\ DOMAIN events[b] = 1 .. Len(events[b])
            /\ events'[b][Len(events[b]) + 1] = event
            /\ \A j \in 1 .. Len(events[b]) : events'[b][j] = events[b][j]
        BY <1>4, <3>3, <4>1
      <4> QED
        BY <1>4, <2>2, <3>1, <3>3, <4>2
    <3> QED
      BY <3>2, <3>3
  <2> QED
    BY <2>1, <2>2 DEF SoundTables
<1>8. Log!Trigger
  <2>1. History' = [History EXCEPT ![a] = Append(@, now)]
    <3>1. events \in [Ids -> Seq(Event)]
      BY <1>2 DEF TablesTyped
    <3>2. TimesOf(events'[a]) = Append(TimesOf(events[a]), now)
      BY <1>1, <1>3, <1>4, <3>1, TimesOfAppended
    <3>3. \A b \in Ids : b # a => events'[b] = events[b]
      BY <1>1, <3>1
    <3>4. History' = [b \in Ids |-> TimesOf(events'[b])]
      BY DEF History, TimesOf
    <3> QED
      BY <1>3, <3>2, <3>3, <3>4 DEF History
  <2>2. now \in 0 .. clock
    BY <1>2, <1>3 DEF Times, TablesTyped
  <2>3. ~ Log!WithinCooldown(alerts[a], now) /\ Log!CanFire(alerts[a])
    BY <1>3, SameRules, SameFiring
  <2>4. alerts' = [alerts EXCEPT ![a].last_triggered_at = now]
    BY <1>5
  <2> QED
    BY <1>1, <1>3, <2>1, <2>2, <2>3, <2>4 DEF Log!Trigger, History, TimesOf
<1> QED
  BY <1>6, <1>7, <1>8, LogSteps DEF Served, Log!Next

\* An update leaves an acceptable row with the last_triggered_at it had.
LEMMA CommitUpdateServed ==
  ASSUME Alone, AloneInv, NEW s \in Sessions, CommitUpdate(s)
  PROVE  Served
<1> DEFINE old == session[s]
<1>0. PICK a, row : a = Target(s) /\ row = Written(alerts[a], old.columns)
  OBVIOUS
<1>1. /\ old.pc = "commit" /\ old.kind = "update" /\ End(s)
      /\ alerts' = IF a \in DOMAIN alerts THEN [alerts EXCEPT ![a] = row] ELSE alerts
      /\ UNCHANGED <<events, clock, given>>
  BY <1>0 DEF CommitUpdate, At
<1>2. Decided(old) /\ Held(old) /\ TablesTyped /\ SoundTables
  BY DEF AloneInv, AlertInv
<1>3. a \in DOMAIN alerts /\ Acceptable(row) /\ Settable(old.columns) /\ alerts[a] \in Rows
  BY <1>0, <1>1, <1>2 DEF Decided, Held, Target, TablesTyped
<1>4. row \in Rows /\ row.last_triggered_at = alerts[a].last_triggered_at
  BY <1>0, <1>3, WrittenTyped
<1>5. (\A r \in Sessions : Held(session[r]))'
  BY <1>1, IdleHanded
<1>6. SoundTables'
  BY <1>1, <1>2, <1>3 DEF SoundTables
<1>7. Log!UpdateAlert
  <2> DEFINE fields == [alert_type |-> row.alert_type, condition |-> row.condition,
                        threshold |-> row.threshold, is_active |-> row.is_active,
                        asset_id |-> row.asset_id, portfolio_id |-> row.portfolio_id]
  <2>1. fields \in Fields /\ Acceptable(fields)
    BY <1>3, <1>4 DEF Fields, Rows, Acceptable
  <2>2. RowOf(fields, alerts[a].last_triggered_at) = row
    BY <1>4 DEF RowOf, Rows
  <2> HIDE DEF fields
  <2>3. alerts' = [alerts EXCEPT ![a] = Log!RowOf(fields, @.last_triggered_at)]
    BY <1>1, <1>3, <2>2, SameRules
  <2>4. History' = History
    BY <1>1 DEF History, TimesOf
  <2>5. fields \in Log!Fields /\ Log!Acceptable(fields)
    BY <2>1, SameRules
  <2> QED
    BY <1>1, <1>3, <2>3, <2>4, <2>5 DEF Log!UpdateAlert, History, TimesOf
<1> QED
  BY <1>5, <1>6, <1>7, LogSteps DEF Served, Log!Next

\* Deleting an alert that is gone already changes nothing.
LEMMA CommitDeleteServed ==
  ASSUME Alone, AloneInv, NEW s \in Sessions, CommitDelete(s)
  PROVE  Served
<1>0. PICK a : a = Target(s)
  OBVIOUS
<1>1. /\ End(s)
      /\ alerts' = [b \in DOMAIN alerts \ {a} |-> alerts[b]]
      /\ events' = [events EXCEPT ![a] = <<>>]
      /\ UNCHANGED <<clock, given>>
  BY <1>0 DEF CommitDelete
<1>2. TablesTyped /\ SoundTables
  BY DEF AloneInv, AlertInv
<1>3. events \in [Ids -> Seq(Event)] /\ DOMAIN alerts \subseteq Ids
  BY <1>2 DEF TablesTyped
<1>4. (\A r \in Sessions : Held(session[r]))'
  BY <1>1, IdleHanded
<1>5. SoundTables'
  <2>1. \A b \in DOMAIN alerts' : b \in DOMAIN alerts /\ alerts'[b] = alerts[b]
    BY <1>1
  <2>2. \A b \in Ids : events'[b] = events[b] \/ events'[b] = <<>>
    BY <1>1, <1>3
  <2> QED
    BY <1>2, <2>1, <2>2 DEF SoundTables
<1>6. History' = [History EXCEPT ![a] = <<>>]
  <2>1. History' = [b \in Ids |-> TimesOf(events'[b])]
    BY DEF History, TimesOf
  <2>2. \A b \in Ids : TimesOf(events'[b]) = IF b = a THEN <<>> ELSE TimesOf(events[b])
    BY <1>1, <1>3, TimesOfNone
  <2> QED
    BY <2>1, <2>2 DEF History
<1>7. CASE a \in DOMAIN alerts
  <2>1. Log!DeleteAlert
    BY <1>1, <1>6, <1>7 DEF Log!DeleteAlert, History, TimesOf
  <2> QED
    BY <1>4, <1>5, <2>1, LogSteps DEF Served, Log!Next
<1>8. CASE a \notin DOMAIN alerts
  <2>1. alerts' = alerts
    <3>1. alerts = [b \in DOMAIN alerts |-> alerts[b]]
      BY <1>2 DEF TablesTyped
    <3> QED
      BY <1>1, <1>8, <3>1
  <2>2. events' = events
    <3>1. a \in Ids => events[a] = <<>>
      BY <1>2, <1>8 DEF TablesTyped
    <3> QED
      BY <1>1, <1>3, <3>1
  <2> QED
    BY <1>1, <1>4, <1>5, <2>1, <2>2, LogStands DEF Served
<1> QED
  BY <1>7, <1>8

LEMMA TickServed ==
  ASSUME AloneInv, Tick
  PROVE  Served
<1>1. UNCHANGED <<alerts, events, given, session>> /\ clock' = clock + 1 /\ clock < MaxTime
  BY DEF Tick
<1>2. clock \in Nat /\ \A r \in Sessions : session[r].now \in Nat
  BY AlertAssumption DEF AloneInv, AlertInv, TablesTyped, Task, Times
<1>3. (\A r \in Sessions : Held(session[r]))'
  <2>1. SUFFICES ASSUME NEW r \in Sessions PROVE Held(session[r])'
    OBVIOUS
  <2>2. Held(session[r])
    BY DEF AloneInv
  <2>3. session[r].now <= clock => session[r].now <= clock'
    BY <1>1, <1>2
  <2> QED
    BY <1>1, <2>2, <2>3 DEF Held, Evaluating, Passes, Written
<1>4. SoundTables'
  BY <1>1 DEF AloneInv, SoundTables
<1>5. Log!Tick
  BY <1>1 DEF Log!Tick
<1> QED
  BY <1>3, <1>4, <1>5, LogSteps DEF Served, Log!Next

LEMMA NextServed ==
  ASSUME Alone, AloneInv, [Next]_vars
  PROVE  AloneInv' /\ [Log!Next]_(Log!vars)
<1>1. AlertInv'
  BY NextKeeps DEF AloneInv
<1>2. ASSUME NEW s \in Sessions, Begin(s) PROVE Served
  BY <1>2, CreateAlertServed, BeginsServed DEF Begin
<1>3. ASSUME NEW s \in Sessions, Work(s) PROVE Served
  BY <1>3, ChecksServed, MeetConditionServed, SendsServed, CommitTriggerServed, AnswersServed,
     FlushesServed, CommitUpdateServed, CommitDeleteServed DEF Work
<1>4. ASSUME NEW s \in Sessions, Crash(s) PROVE Served
  BY <1>4, AnswersServed
<1>5. ASSUME UNCHANGED vars PROVE Served
  <2>1. UNCHANGED <<alerts, events, given, clock, session>>
    BY <1>5 DEF vars
  <2>2. (\A s \in Sessions : Held(session[s]))' /\ SoundTables'
    BY <2>1 DEF AloneInv, Held, Evaluating, Passes, Written, SoundTables
  <2> QED
    BY <2>1, <2>2, LogStands DEF Served
<1>6. Served
  BY <1>2, <1>3, <1>4, <1>5, TickServed DEF Next
<1> QED
  BY <1>1, <1>6 DEF AloneInv, Served

LEMMA InitServed == Init => AloneInv /\ Log!Init
<1> SUFFICES ASSUME Init PROVE AloneInv /\ Log!Init
  OBVIOUS
<1>1. AlertInv
  BY Initial
<1>2. \A s \in Sessions : Held(session[s])
  <2>1. Idle.kind = "none" /\ DOMAIN Idle.loaded = {} /\ \A s \in Sessions : session[s] = Idle
    BY DEF Init, Idle
  <2> QED
    BY <2>1, HeldAtRest
<1>3. \A a \in DOMAIN Initially : Acceptable(Initially[a])
  <2>1. SUFFICES ASSUME NEW a \in DOMAIN Initially PROVE Acceptable(Initially[a])
    OBVIOUS
  <2>2. PICK fields \in Fields : Acceptable(fields) /\ Initially[a] = RowOf(fields, Never)
    BY SessionsAssumption
  <2> QED
    BY <2>2 DEF Acceptable, RowOf
<1>4. SoundTables
  BY <1>3 DEF Init, SoundTables
<1>5. Log!Init
  <2>1. {Log!RowOf(fields, Log!Never) : fields \in {f \in Log!Fields : Log!Acceptable(f)}}
          = {RowOf(fields, Never) : fields \in {f \in Fields : Acceptable(f)}}
    BY SameRules
  <2>2. alerts \in [given -> {RowOf(fields, Never) : fields \in {f \in Fields : Acceptable(f)}}]
    BY SessionsAssumption DEF Init
  <2>3. History = [a \in Ids |-> <<>>]
    BY TimesOfNone DEF Init, History
  <2>4. given \in SUBSET Ids /\ clock = 0
    BY SessionsAssumption DEF Init
  <2> QED
    BY <2>1, <2>2, <2>3, <2>4 DEF Log!Init, History, TimesOf
<1> QED
  BY <1>1, <1>2, <1>4, <1>5 DEF AloneInv

LEMMA AlwaysAloneInv ==
  ASSUME Alone
  PROVE  Spec => []AloneInv
<1>1. Init => AloneInv
  BY InitServed
<1>2. AloneInv /\ [Next]_vars => AloneInv'
  BY NextServed
<1> QED
  BY <1>1, <1>2, PTL DEF Spec

\* Values on either side of every threshold, and a change that exceeds it.
EveryThresholdCanBePassed ==
  \A threshold \in Thresholds :
    /\ \E value \in Values : value > threshold
    /\ \E value \in Values : value < threshold
    /\ \E value, base \in Values :
         base > 0 /\ Distance(value, base) * 100 > threshold * base

LEMMA AcceptableCanFire ==
  ASSUME EveryThresholdCanBePassed, NEW row \in Rows, Acceptable(row)
  PROVE  CanFire(row)
<1>1. Readable(row)
  BY DEF Readable, Referenced, Owned, Acceptable
<1>2. /\ row.threshold \in Thresholds
      /\ row.condition \in ConditionsOf(row.alert_type)
      /\ row.alert_type \in AlertTypes
  BY AlertAssumption DEF Rows, Acceptable
<1>3. CASE row.condition = "ABOVE"
  <2>1. PICK value \in Values : value > row.threshold
    BY <1>2 DEF EveryThresholdCanBePassed
  <2>2. [current |-> value, base |-> NoBase] \in Readings
    BY DEF Readings
  <2> QED
    BY <1>1, <1>3, <2>1, <2>2 DEF CanFire, ConditionMet
<1>4. CASE row.condition = "BELOW"
  <2>1. PICK value \in Values : value < row.threshold
    BY <1>2 DEF EveryThresholdCanBePassed
  <2>2. [current |-> value, base |-> NoBase] \in Readings
    BY DEF Readings
  <2>3. row.alert_type \in {"PRICE", "PORTFOLIO_VALUE", "PORTFOLIO_PNL"}
    BY <1>2, <1>4 DEF ConditionsOf, AlertTypes
  <2> QED
    BY <1>1, <1>4, <2>1, <2>2, <2>3 DEF CanFire, ConditionMet
<1>5. CASE row.condition = "PERCENT_CHANGE"
  <2>1. PICK value \in Values, base \in Values :
          base > 0 /\ Distance(value, base) * 100 > row.threshold * base
    BY <1>2 DEF EveryThresholdCanBePassed
  <2>2. [current |-> value, base |-> base] \in Readings
    BY DEF Readings
  <2>3. row.alert_type = "PRICE"
    BY <1>2, <1>5 DEF ConditionsOf, AlertTypes
  <2> QED
    BY <1>1, <1>5, <2>1, <2>2, <2>3 DEF CanFire, ConditionMet
<1> QED
  BY <1>2, <1>3, <1>4, <1>5 DEF ConditionsOf, AlertTypes

\* Served one at a time, requests and tasks do to the tables what AlertLog promises and
\* nothing else, whatever clients ask for and wherever processes die.
THEOREM SessionsAloneImplementAlertLog ==
  ASSUME Alone
  PROVE  Spec => ImplementsAlertLog
<1>1. Init => Log!Init
  BY InitServed
<1>2. AloneInv /\ [Next]_vars => [Log!Next]_(Log!vars)
  BY NextServed
<1> QED
  BY <1>1, <1>2, AlwaysAloneInv, PTL DEF Spec, ImplementsAlertLog, Log!Spec

\* Served one at a time, no update leaves an alert that could never fire, as long as
\* metrics can pass the thresholds (alert_service.py:301).
THEOREM StoredAlertsCanAlwaysFire ==
  ASSUME Alone, EveryThresholdCanBePassed
  PROVE  Spec => []StoredAlertsCanFire
<1>1. AloneInv => StoredAlertsCanFire
  BY AcceptableCanFire DEF AloneInv, AlertInv, TablesTyped, SoundTables, StoredAlertsCanFire
<1> QED
  BY <1>1, AlwaysAloneInv, PTL

\* Served one at a time, triggers keep the cooldown the service is documented to have; with two
\* sessions they do not (alert_service.py:156).
THEOREM AloneTheCooldownHolds ==
  ASSUME Alone
  PROVE  Spec => []TriggersAreSpaced
<1>1. AloneInv => TriggersAreSpaced
  BY DEF AloneInv, AlertInv, SoundTables, OnlyStaleRowsBreakTheCooldown, TriggersAreSpaced
<1> QED
  BY <1>1, AlwaysAloneInv, PTL
=============================================================================
