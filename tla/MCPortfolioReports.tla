-------------------------- MODULE MCPortfolioReports --------------------------
(***************************************************************************)
(* The reports of two portfolios, of which one trades an asset in every    *)
(* way.                                                                    *)
(***************************************************************************)
EXTENDS PositionSizing, Dashboard

CONSTANTS p1, p2, a1, a2

Offer(p, a, type, quantity, price) ==
  [portfolio |-> p, asset |-> a, trade_type |-> type, quantity |-> quantity, price |-> price]

MCOffers ==
  {Offer(p1, a1, "BUY", 3, 3), Offer(p1, a1, "SELL", 1, 5), Offer(p1, a1, "SELL", 1, 3),
   Offer(p1, a1, "SELL", 1, 2), Offer(p1, a1, "SHORT", 1, 5), Offer(p1, a1, "COVER", 1, 4),
   Offer(p2, a1, "BUY", 1, 4), Offer(p2, a2, "BUY", 1, 4)}

MCQuotes ==
  {[asset |-> a1, price |-> price] : price \in {2, 3, 5}} \cup {[asset |-> a2, price |-> 2]}
=============================================================================
