----------------------------- MODULE AlertRules ------------------------------
(***************************************************************************)
(* Alerts without their concurrency: the rows, what the service accepts    *)
(* as an alert, when an alert's condition is met and when its cooldown     *)
(* silences it.                                                            *)
(***************************************************************************)
EXTENDS Integers, Sequences, FiniteSets

CONSTANTS
  Ids,           \* alert ids the sequence may hand out, 1..n
  Cooldown,      \* COOLDOWN_HOURS in units of the clock
  MaxTime,       \* bound on the clock
  Types,         \* the alert types in use
  Thresholds,    \* thresholds in use
  Values         \* values a metric may have

AlertTypes == {"PRICE", "PORTFOLIO_VALUE", "PORTFOLIO_PNL", "DRAWDOWN", "CONCENTRATION"}

Conditions == {"ABOVE", "BELOW", "PERCENT_CHANGE"}

ASSUME AlertAssumption ==
  /\ Ids \subseteq Nat \ {0}
  /\ Cooldown \in Nat \ {0}
  /\ MaxTime \in Nat
  /\ Types \subseteq AlertTypes
  /\ Thresholds \subseteq Nat \ {0}
  /\ Values \subseteq Nat

\* last_triggered_at is None.
Never == -1

Times == 0 .. MaxTime

-----------------------------------------------------------------------------
\* asset_id and portfolio_id are None or name a row; "other" is a portfolio of
\* somebody else.  asset_id names a catalogued asset: assets are never deleted.
Fields ==
  [alert_type : Types, condition : Conditions, threshold : Thresholds,
   is_active : BOOLEAN, asset_id : {"none", "listed"},
   portfolio_id : {"none", "own", "other"}]

Rows ==
  [alert_type : Types, condition : Conditions, threshold : Thresholds,
   is_active : BOOLEAN, asset_id : {"none", "listed"},
   portfolio_id : {"none", "own", "other"},
   last_triggered_at : Times \cup {Never}]

\* The columns that a client may write, and what may be written to them.
ColumnValues ==
  [alert_type |-> Types, condition |-> Conditions, threshold |-> Thresholds,
   is_active |-> BOOLEAN, asset_id |-> {"none", "listed"},
   portfolio_id |-> {"none", "own", "other"}]

Settable(columns) ==
  \A name \in DOMAIN columns :
    name \in DOMAIN ColumnValues /\ columns[name] \in ColumnValues[name]

\* A row after some of its columns have been written.
Written(row, columns) ==
  [name \in DOMAIN row |-> IF name \in DOMAIN columns THEN columns[name] ELSE row[name]]

RowOf(fields, last) ==
  [alert_type |-> fields.alert_type, condition |-> fields.condition,
   threshold |-> fields.threshold, is_active |-> fields.is_active,
   asset_id |-> fields.asset_id, portfolio_id |-> fields.portfolio_id,
   last_triggered_at |-> last]

\* What a portfolio metric may be compared with.
ConditionsOf(type) ==
  CASE type = "PRICE" -> {"ABOVE", "BELOW", "PERCENT_CHANGE"}
    [] type \in {"PORTFOLIO_VALUE", "PORTFOLIO_PNL"} -> {"ABOVE", "BELOW"}
    [] type \in {"DRAWDOWN", "CONCENTRATION"} -> {"ABOVE"}

Acceptable(alert) ==
  /\ alert.condition \in ConditionsOf(alert.alert_type)
  /\ IF alert.alert_type = "PRICE"
     THEN alert.asset_id = "listed"
     ELSE alert.portfolio_id = "own"

-----------------------------------------------------------------------------
\* What evaluating an alert may read of its metric.  A price comes with the price
\* before it, if the last 30 days have one; a base_value of 0 is a price of 0.
NoBase == -1

Readings == [current : Values, base : Values \cup {NoBase}]

Distance(m, n) == IF m < n THEN n - m ELSE m - n

\* ABOVE and BELOW are strict, and so is the change in percent of the base.
ConditionMet(alert, reading) ==
  \/ /\ alert.condition = "ABOVE"
     /\ reading.current > alert.threshold
  \/ /\ alert.condition = "BELOW"
     /\ alert.alert_type \in {"PRICE", "PORTFOLIO_VALUE", "PORTFOLIO_PNL"}
     /\ reading.current < alert.threshold
  \/ /\ alert.condition = "PERCENT_CHANGE"
     /\ alert.alert_type = "PRICE"
     /\ reading.base > 0
     /\ Distance(reading.current, reading.base) * 100 > alert.threshold * reading.base

\* The reference a metric needs is there.
Referenced(alert) ==
  IF alert.alert_type = "PRICE" THEN alert.asset_id # "none" ELSE alert.portfolio_id # "none"

\* The analytics look a portfolio up among its owner's.
Owned(alert) == alert.alert_type = "PRICE" \/ alert.portfolio_id # "other"

Readable(alert) == Referenced(alert) /\ Owned(alert)

CanFire(alert) == Readable(alert) /\ \E reading \in Readings : ConditionMet(alert, reading)

\* A slip: one unit too short.
WithinCooldownByOne(alert, now) ==
  /\ alert.last_triggered_at # Never
  /\ now - alert.last_triggered_at < Cooldown - 1

\* A trigger ahead of now silences as well.
WithinCooldown(alert, now) ==
  /\ alert.last_triggered_at # Never
  /\ now - alert.last_triggered_at < Cooldown
=============================================================================
