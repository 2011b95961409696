---------------------------- MODULE UserRecords ----------------------------
(***************************************************************************)
(* The rows users keep besides their trades and alerts: settings, API keys *)
(* (modules/settings), portfolios (modules/portfolio) and the assets that  *)
(* all share (modules/asset).  Each request is a database session of its   *)
(* own under READ COMMITTED: it reads, flushes one row, commits and then   *)
(* builds its answer, for which the ORM reads the row again (a committed   *)
(* object is expired).  An error before the commit rolls back.             *)
(*                                                                         *)
(* A row keeps the columns that tell two updates apart.  The column secret *)
(* of an API key holds the number of the encryption key it is encrypted    *)
(* with, and the column symbol of an asset and the owner of settings are   *)
(* unique.  Trades, positions and alerts refer to a portfolio by foreign   *)
(* keys: here they are the flag used.                                      *)
(***************************************************************************)
EXTENDS Naturals, FiniteSets

CONSTANTS
  Users,
  RecordSessions,  \* requests the API serves at a time
  Values,          \* what a request may set a column to
  Unfit,           \* those of them that the schema lets through and no column takes:
                   \* a timezone of null, a currency that capitals make longer
  MaxRows,         \* bound on rows ever inserted
  MaxRequests,     \* bound on requests
  MaxRotations     \* bound on restarts with another API_KEY_ENCRYPTION_KEY

ASSUME RecordsAssumption ==
  0 \in Values \ Unfit /\ {MaxRows, MaxRequests, MaxRotations} \subseteq Nat

VARIABLES
  rows,       \* the committed rows by id
  lastId,     \* ids are handed out once, to rows that were rolled back too
  key,        \* the encryption key this process has read
  request,    \* request[s]: the request session s is serving, or has answered, and
              \* (history) if another has committed since it read
  requests    \* requests so far

recordVars == <<rows, lastId, key, request, requests>>

Columns ==
  [setting |-> {"currency", "interval"}, key |-> {"name", "secret"},
   portfolio |-> {"name", "currency"}, asset |-> {"symbol", "name"}]

NoRow == [kind |-> "none", owner |-> "none", col |-> <<>>, used |-> FALSE]

\* _create_default_user_settings.
DefaultSettings(u) ==
  [kind |-> "setting", owner |-> u, used |-> FALSE,
   col |-> [c \in Columns["setting"] |-> 0]]

Committed(id) == IF id \in DOMAIN rows THEN rows[id] ELSE NoRow

\* uq_user_settings_user_id and the unique symbol of assets.
Rivals(r1, r2) ==
  \/ r1.kind = "setting" /\ r2.kind = "setting" /\ r1.owner = r2.owner
  \/ r1.kind = "asset" /\ r2.kind = "asset" /\ r1.col["symbol"] = r2.col["symbol"]

Taken(row, id) == \E i \in DOMAIN rows \ {id} : Rivals(rows[i], row)

\* The row the request writes: the columns asked for, over what is there.
Over(row, ask, columns) ==
  [row EXCEPT !.col = [c \in DOMAIN @ |-> IF c \in columns THEN ask[c] ELSE @[c]]]

\* A column set to what the session has read is not in its UPDATE; what is
\* encrypted again is never what it was.
Changed(q) == {c \in DOMAIN q.ask : c = "secret" \/ q.ask[c] # q.seen.col[c]}

\* It asks for a value that the database refuses.
AsksUnfit(q) == \E c \in DOMAIN q.ask \ {"secret"} : q.ask[c] \in Unfit

NoRequest ==
  [phase |-> "idle", op |-> "none", id |-> 0, seen |-> NoRow, ask |-> <<>>,
   work |-> NoRow, answer |-> 0, overtaken |-> FALSE]

RecordsInit ==
  /\ rows = <<>>
  /\ lastId = 0
  /\ key = 0
  /\ request = [s \in RecordSessions |-> NoRequest]
  /\ requests = 0

------------------------------------------------------------------------------
(***************************************************************************)
(* A request arrives and reads.                                            *)
(***************************************************************************)
Asked(kind, columns, v) == [c \in columns |-> IF c = "secret" THEN key ELSE v]

\* What was answered before is of the past.
Receives(s, q) ==
  /\ request[s].phase = "idle"
  /\ requests < MaxRequests
  /\ requests' = requests + 1
  /\ request' = [t \in RecordSessions |->
       IF t = s THEN q ELSE IF request[t].phase = "idle" THEN NoRequest ELSE request[t]]
  /\ UNCHANGED <<rows, lastId, key>>

Read(op, id, seen, ask) ==
  [phase |-> "read", op |-> op, id |-> id, seen |-> seen, ask |-> ask,
   work |-> NoRow, answer |-> 0, overtaken |-> FALSE]

\* A request that has been answered leaves nothing behind but its answer.
Answered(code) == [NoRequest EXCEPT !.answer = code]

\* get_user_settings and update_user_settings: the row may not be there yet.
SettingsOf(u) == {i \in DOMAIN rows : rows[i].kind = "setting" /\ rows[i].owner = u}

ReceiveGetSettings(s) ==
  \E u \in Users :
    LET there == SettingsOf(u)
    IN Receives(s, IF there = {} THEN Read("insert", 0, DefaultSettings(u), <<>>)
                   ELSE Answered(200))

ReceiveUpdateSettings(s) ==
  \E u \in Users, columns \in SUBSET Columns["setting"], v \in Values :
    LET there == SettingsOf(u)
        ask == Asked("setting", columns, v)
    IN Receives(s,
         IF there = {}
         THEN Read(IF columns = {} THEN "insert-for-nothing" ELSE "insert", 0, DefaultSettings(u), ask)
         ELSE LET id == CHOOSE i \in there : TRUE
              IN IF columns = {} THEN Answered(422)
                 ELSE Read("update", id, rows[id], ask))

\* A slip: nobody asks if there is an asset of the symbol.
ReceiveCreateUnasked(s) ==
  \E u \in Users, kind \in {"key", "portfolio", "asset"}, v \in Values :
    LET ask == Asked(kind, Columns[kind], v)
    IN Receives(s, Read("insert", 0, [kind |-> kind, owner |-> u, used |-> FALSE, col |-> ask], ask))

\* create_api_key, create_portfolio and create_asset, which asks for the symbol.
ReceiveCreate(s) ==
  \E u \in Users, kind \in {"key", "portfolio", "asset"}, v \in Values :
    LET ask == Asked(kind, Columns[kind], v)
        row == [kind |-> kind, owner |-> u, used |-> FALSE, col |-> ask]
    IN Receives(s, IF kind = "asset" /\ Taken(row, 0) THEN Answered(409)
                   ELSE Read("insert", 0, row, ask))

\* list_api_keys: one key that cannot be decrypted refuses the whole list.
ReceiveListKeys(s) ==
  \E u \in Users :
    LET kept == {i \in DOMAIN rows : rows[i].kind = "key" /\ rows[i].owner = u}
    IN Receives(s, Answered(IF \A i \in kept : rows[i].col["secret"] = key THEN 200 ELSE 422))

\* _get_owned_api_key, _get_owned_portfolio and _get_asset.
Sees(u, id) ==
  /\ id \in DOMAIN rows
  /\ rows[id].kind # "setting"
  /\ rows[id].kind = "asset" \/ rows[id].owner = u

ReceiveUpdate(s) ==
  \E u \in Users, id \in 1..lastId, v \in Values :
    IF ~Sees(u, id) THEN Receives(s, Answered(404))
    ELSE \E columns \in SUBSET Columns[rows[id].kind] :
           LET row == rows[id]
               ask == Asked(row.kind, columns, v)
           IN Receives(s,
                IF columns = {} THEN Answered(422)
                ELSE IF "symbol" \in columns /\ Taken(Over(row, ask, columns), id)
                     THEN Answered(409)
                ELSE Read("update", id, row, ask))

\* delete_api_key and delete_portfolio; assets are never deleted.
ReceiveDelete(s) ==
  \E u \in Users, id \in 1..lastId :
    IF ~Sees(u, id) THEN Receives(s, Answered(404))
    ELSE /\ rows[id].kind # "asset"
         /\ Receives(s, Read("delete", id, rows[id], <<>>))

------------------------------------------------------------------------------
(***************************************************************************)
(* It flushes its row: an INSERT waits for one with the same unique value, *)
(* an UPDATE and a DELETE for whoever has written the row.                 *)
(***************************************************************************)
Writing(t) == request[t].phase = "written"

Waits(s, row) ==
  \E t \in RecordSessions \ {s} :
    Writing(t) /\ (request[t].id = request[s].id \/ Rivals(request[t].work, row))

Wrote(s, id, work) ==
  /\ request' = [request EXCEPT ![s].phase = "written", ![s].id = id, ![s].work = work]
  /\ UNCHANGED <<rows, key, requests>>

Fails(s, code) ==
  /\ request' = [request EXCEPT ![s] = Answered(code)]
  /\ UNCHANGED <<rows, key, requests>>

\* An INSERT of a value unfit, or that meets its unique value, is an unhandled IntegrityError.  An
\* update without a field is refused after the defaults are flushed.
Insert(s) ==
  LET q == request[s]
      row == Over(q.seen, q.ask, DOMAIN q.ask)
  IN /\ q.phase = "read"
     /\ q.op \in {"insert", "insert-for-nothing"}
     /\ lastId < MaxRows
     /\ ~Waits(s, row)
     /\ lastId' = lastId + 1
     /\ IF AsksUnfit(q) \/ Taken(row, 0) THEN Fails(s, 500)
        ELSE IF q.op = "insert" THEN Wrote(s, lastId + 1, row)
        ELSE Fails(s, 422)

\* The UPDATE applies to the row as it now is; a row that is gone, or a value
\* unfit or now taken, is an error nobody handles.  With nothing to change no
\* statement is sent, but the refresh that follows needs the row.
Update(s) ==
  LET q == request[s]
      now == Committed(q.id)
      row == Over(now, q.ask, Changed(q))
  IN /\ q.phase = "read"
     /\ q.op = "update"
     /\ UNCHANGED lastId
     /\ IF now = NoRow THEN ~Waits(s, NoRow) /\ Fails(s, 500)
        ELSE \/ /\ Changed(q) = {}
                /\ request' = [request EXCEPT ![s].phase = "committed"]
                /\ UNCHANGED <<rows, key, requests>>
             \/ /\ Changed(q) # {}
                /\ ~Waits(s, row)
                /\ IF AsksUnfit(q) \/ Taken(row, q.id) THEN Fails(s, 500)
                   ELSE Wrote(s, q.id, row)

\* A DELETE that finds no row is only warned of; one that finds the portfolio
\* referred to is an unhandled IntegrityError.
Delete(s) ==
  LET q == request[s]
  IN /\ q.phase = "read"
     /\ q.op = "delete"
     /\ ~Waits(s, NoRow)
     /\ UNCHANGED lastId
     /\ IF Committed(q.id).used THEN Fails(s, 500) ELSE Wrote(s, q.id, NoRow)

Committing(s) ==
  request' = [t \in RecordSessions |->
    IF t = s THEN [request[t] EXCEPT !.phase = "committed"]
    ELSE IF request[t].phase = "idle" THEN NoRequest
    ELSE [request[t] EXCEPT !.overtaken = TRUE]]

\* The committed rows once row id is as given, or gone.
With(id, row) ==
  [i \in IF row = NoRow THEN DOMAIN rows \ {id} ELSE DOMAIN rows \cup {id} |->
     IF i = id THEN row ELSE rows[i]]

\* A slip: the whole row is written as the session has prepared it.
CommitStale(s) ==
  LET q == request[s]
  IN /\ q.phase = "written"
     /\ rows' = With(q.id, IF q.op = "update" THEN Over(q.seen, q.ask, DOMAIN q.ask) ELSE q.work)
     /\ Committing(s)
     /\ UNCHANGED <<lastId, key, requests>>

Commit(s) ==
  LET q == request[s]
  IN /\ q.phase = "written"
     /\ rows' = With(q.id, q.work)
     /\ Committing(s)
     /\ UNCHANGED <<lastId, key, requests>>

\* The row is read again for the answer, and a key whose value was not in the
\* request is decrypted to be masked.
Answer(s) ==
  LET q == request[s]
      row == Committed(q.id)
  IN /\ q.phase = "committed"
     /\ Fails(s, IF q.op = "delete" THEN 200
                 ELSE IF row = NoRow THEN 500
                 ELSE IF row.kind = "key" /\ "secret" \notin DOMAIN q.ask /\ row.col["secret"] # key
                      THEN 422 ELSE 200)
     /\ UNCHANGED lastId

------------------------------------------------------------------------------
\* A trade, position or alert of another request refers to the portfolio, or the last of
\* them goes.  The foreign key makes it wait for a deletion, and for no update.
Refer(id) ==
  LET updating == {t \in RecordSessions : Writing(t) /\ request[t].id = id}
  IN /\ id \in DOMAIN rows
     /\ rows[id].kind = "portfolio"
     /\ \A t \in updating : request[t].work # NoRow
     /\ requests < MaxRequests
     /\ requests' = requests + 1
     /\ rows' = [rows EXCEPT ![id].used = ~@]
     /\ request' = [t \in RecordSessions |->
          IF t \in updating THEN [request[t] EXCEPT !.work.used = ~@] ELSE request[t]]
     /\ UNCHANGED <<lastId, key>>

\* The process starts again, with another key in its environment: open
\* sessions roll back, clients get no answer.
RotateKey ==
  /\ key < MaxRotations
  /\ key' = key + 1
  /\ request' = [s \in RecordSessions |-> NoRequest]
  /\ UNCHANGED <<rows, lastId, requests>>

RecordsNext ==
  \/ \E s \in RecordSessions :
       \/ ReceiveGetSettings(s) \/ ReceiveUpdateSettings(s) \/ ReceiveCreate(s)
       \/ ReceiveListKeys(s) \/ ReceiveUpdate(s) \/ ReceiveDelete(s)
       \/ Insert(s) \/ Update(s) \/ Delete(s) \/ Commit(s) \/ Answer(s)
  \/ \E id \in DOMAIN rows : Refer(id)
  \/ RotateKey

RecordsSpec == RecordsInit /\ [][RecordsNext]_recordVars

------------------------------------------------------------------------------
(***************************************************************************)
(* Properties.                                                             *)
(***************************************************************************)
Answers(s) == request[s].phase # "idle" /\ request'[s].phase = "idle" /\ request'[s].answer # 0

\* A request that no other overtakes is never answered 500, and answered 200 once it has
\* committed: names that are looked up, rows that are loaded, defaults that are missing stay
\* so until it has written.  Three things may refuse it all the same: the portfolio to delete
\* is in use (no code looks, portfolio_service.py:60), the value asked for is none of the
\* column's (settings_service.py:57), and the key just updated cannot be decrypted for its
\* answer (settings_service.py:113).
OnlyOverlapBreaksARequest ==
  [][\A s \in RecordSessions :
       LET q    == request[s]
           code == request'[s].answer
           row  == Committed(q.id)
       IN (Answers(s) /\ ~q.overtaken) =>
            /\ code = 500 => (q.op = "delete" /\ row.used) \/ AsksUnfit(q)
            /\ q.phase = "committed" /\ code # 200 => row.kind = "key" /\ row.col["secret"] < key
    ]_recordVars

\* A commit changes no column the request did not ask for, and sets those it
\* asked for, except one that held what was asked when it was read: that one
\* keeps whatever another request has committed meanwhile.
UpdatesStickUnlessStale ==
  [][\A s \in RecordSessions :
       LET q == request[s]
           before == Committed(q.id)
       IN (q.phase = "written" /\ request'[s].phase = "committed" /\ q.op = "update")
            => /\ DOMAIN rows' = DOMAIN rows
               /\ before # NoRow
               /\ \A c \in DOMAIN before.col :
                    rows'[q.id].col[c] =
                      IF c \in DOMAIN q.ask /\ (c = "secret" \/ q.ask[c] # q.seen.col[c])
                      THEN q.ask[c] ELSE before.col[c]]_recordVars
=============================================================================
