---------------------------- MODULE PositionSizing ----------------------------
(***************************************************************************)
(* How much to stake, after Kelly, from what the exits of a portfolio      *)
(* brought (risk_service.py:360, risk/calculators/position_sizing.py).     *)
(***************************************************************************)
EXTENDS PortfolioReports

\* The answer None.
NoKelly == [known |-> FALSE]

Over(x, y) == <<x[1] * y[2], x[2] * y[1]>>

Product(x, y) == <<x[1] * y[1], x[2] * y[2]>>

\* The exits of a portfolio, numbered asset by asset, and what each of them brought.
Exits(p) == UNION {{a} \X DOMAIN Walk(LedgerOf(p, a)).outcomes : a \in Traded(p)}

Outcome(p, exit) == Walk(LedgerOf(p, exit[1])).outcomes[exit[2]]

\* What broke even is neither, but counts among the exits.
Wins(p)   == {x \in Exits(p) : Outcome(p, x)[1] > 0}
Losses(p) == {x \in Exits(p) : Outcome(p, x)[1] < 0}

Mean(p, exits) == Over(Total(LAMBDA x : Outcome(p, x), exits), Fraction(Cardinality(exits)))

\* The rate of wins and the means of wins and losses, unless one of them is missing.
KellyInputs(p) ==
  IF Wins(p) = {} \/ Losses(p) = {}
  THEN NoKelly
  ELSE [known |-> TRUE, rate |-> <<Cardinality(Wins(p)), Cardinality(Exits(p))>>,
        win |-> Mean(p, Wins(p)), loss |-> Times(-1, Mean(p, Losses(p)))]

\* A slip: the payoff is the loss in units of the win.
FractionUpsideDown(inputs) ==
  LET payoff == Over(inputs.loss, inputs.win)
  IN  Over(Minus(Product(inputs.rate, payoff), Minus(Fraction(1), inputs.rate)), payoff)

\* calculate_kelly_criterion; everything that is not won counts as lost.
KellyFraction(inputs) ==
  LET payoff == Over(inputs.win, inputs.loss)
  IN  Over(Minus(Product(inputs.rate, payoff), Minus(Fraction(1), inputs.rate)), payoff)

-----------------------------------------------------------------------------
\* What the exits of a portfolio brought, told by its cash: entries that are still held,
\* at their cost, are no loss when LONG and no gain when SHORT.
ProfitTaken(p) ==
  LET open    == {a \in Assets : IsOpen(p, a)}
      Cost(a) == Position(p, a).total_cost
      Held(a) == IF Position(p, a).position_type = "LONG" THEN Cost(a) ELSE Times(-1, Cost(a))
  IN  Plus(Cash(p), Total(Held, open))

\* The stake is a part of the capital, and there is one only for a portfolio whose exits
\* made a profit; there is one for every such portfolio that both won and lost, unless some
\* exit broke even: those count as losses (position_sizing.py:38).
KellyFollowsProfit ==
  \A p \in Portfolios :
    LET inputs == KellyInputs(p)
        stake  == KellyFraction(inputs)
        Even   == \E x \in Exits(p) : Outcome(p, x)[1] = 0
    IN  inputs.known =>
          /\ AtMost(stake, Fraction(1))
          /\ stake[1] > 0 => ProfitTaken(p)[1] > 0
          /\ ProfitTaken(p)[1] > 0 => stake[1] > 0 \/ Even
=============================================================================
