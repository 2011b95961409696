--------------------------- MODULE MCAlertSessions ---------------------------
(***************************************************************************)
(* AlertSessions on one or two alerts.                                     *)
(***************************************************************************)
EXTENDS AlertSessions, TLC

CONSTANTS s1, s2

Row(type, condition, asset, portfolio) ==
  [alert_type |-> type, condition |-> condition, threshold |-> 1, is_active |-> TRUE,
   asset_id |-> asset, portfolio_id |-> portfolio, last_triggered_at |-> Never]

PriceAlert == Row("PRICE", "ABOVE", "listed", "own")

\* Only its type makes somebody else's portfolio acceptable.
ForeignAlert == Row("PRICE", "BELOW", "listed", "other")

OneAlert == 1 :> PriceAlert

TwoAlerts == (1 :> PriceAlert) @@ (2 :> ForeignAlert)

OneForeign == 1 :> ForeignAlert

FieldsOf(row) ==
  [alert_type |-> row.alert_type, condition |-> row.condition, threshold |-> row.threshold,
   is_active |-> row.is_active, asset_id |-> row.asset_id, portfolio_id |-> row.portfolio_id]

NoneCreated == {}

SomeCreated == {FieldsOf(PriceAlert), FieldsOf(ForeignAlert), FieldsOf(Row("DRAWDOWN", "BELOW", "none", "own"))}

Set(columns) == [set |-> columns, nulls |-> {}]

Deactivate == {Set([is_active |-> FALSE])}

\* What turns a price alert into another, good or bad, and what breaks NOT NULL.
ManyChanges ==
  Deactivate \cup
  {Set([condition |-> "BELOW"]), Set([condition |-> "PERCENT_CHANGE"]),
   Set([alert_type |-> "DRAWDOWN"]), Set([portfolio_id |-> "other"]),
   Set([alert_type |-> "DRAWDOWN", condition |-> "ABOVE", portfolio_id |-> "own"]),
   [set |-> <<>>, nulls |-> {"alert_type"}], [set |-> [condition |-> "BELOW"], nulls |-> {"is_active"}]}
=============================================================================
