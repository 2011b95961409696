------------------------------ MODULE Dashboard ------------------------------
(***************************************************************************)
(* What the dashboard shows of all the portfolios of a user                *)
(* (dashboard/services/dashboard_service.py): their value now, as the      *)
(* analytics have it, and at the start of the day, from the positions of   *)
(* now and the prices of then.                                             *)
(***************************************************************************)
EXTENDS PortfolioReports

CONSTANTS
  FirstHour,    \* the instants of the first hour of a day, after its first
  Near,         \* the instants that are near: two hours
  Week          \* the instants of seven days

\* A day's start is near to no other, and what is older than a week is in no value series.
ASSUME DashboardAssumption ==
  /\ FirstHour \in Nat /\ Near \in Nat /\ Week \in Nat
  /\ FirstHour <= Near /\ Near <= Week
  /\ Week + DayLength <= Lookback * DayLength + 1

NoPrice == 0

DayStart == Date(now) * DayLength

\* The first of some prices by their time; among equal times any.
FirstOf(known) == (CHOOSE x \in known : \A y \in known : x.stamp <= y.stamp).price

\* A slip: of the prices of the week, the first one.
PriceNearOldest(a, instant) ==
  LET near == Between(a, instant - Near, instant + Near)
      Gap(x) == IF x.stamp < instant THEN instant - x.stamp ELSE x.stamp - instant
      older == Between(a, instant - Week, instant)
  IN  IF near # {} THEN FirstOf({x \in near : \A y \in near : Gap(x) <= Gap(y)})
      ELSE IF older # {} THEN FirstOf(older)
      ELSE NoPrice

\* The price closest to an instant, the earlier of two as close; or the last of the week
\* before it.
PriceNear(a, instant) ==
  LET near == Between(a, instant - Near, instant + Near)
      Gap(x) == IF x.stamp < instant THEN instant - x.stamp ELSE x.stamp - instant
      older == Between(a, instant - Week, instant)
  IN  IF near # {} THEN FirstOf({x \in near : \A y \in near : Gap(x) <= Gap(y)})
      ELSE IF older # {} THEN LastOf(older)
      ELSE NoPrice

\* The first price of the day's first hour, or one from around its start.
PriceAtDayStart(a) ==
  LET opening == Between(a, DayStart, DayStart + FirstHour)
  IN  IF opening # {} THEN FirstOf(opening) ELSE PriceNear(a, DayStart)

\* What is held now, at the prices of the day's start.  A position without such a price has
\* no part in it, though it has one in the value of now.
StartOfDayValue ==
  LET Priced(p) == {a \in Valued(p) : PriceAtDayStart(a) # NoPrice}
      Value(p)  == Total(LAMBDA a : Fraction(Position(p, a).quantity * PriceAtDayStart(a)),
                         Priced(p))
  IN  Total(Value, Portfolios)

-----------------------------------------------------------------------------
Held == {a \in Assets : \E p \in Portfolios : IsOpen(p, a)}

\* Nothing was traded today; of everything held the last price before today is known, of
\* the last week, alone at its time, and no price is near after the start of the day.
StartIsPlain ==
  /\ \A t \in trades : t.executed_at < DayStart
  /\ \A a \in Held :
       LET before == Between(a, DayStart - Week, DayStart - 1)
       IN  /\ before # {} /\ ~ Ambiguous(before)
           /\ Between(a, DayStart, DayStart + Near) = {}

\* On a day without trades the dashboard starts with the value that the series of the risk
\* service has for yesterday (dashboard_service.py:227, risk_service.py:278), however old
\* the prices are that yesterday ended with.
DayStartsWhereYesterdayEnded ==
  StartIsPlain =>
    Same(StartOfDayValue,
         Total(LAMBDA p : Fraction(ValueOnDate(p, Date(now) - 1)), Portfolios))
=============================================================================
