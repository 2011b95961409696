--------------------------- MODULE MCTradeSessions ---------------------------
(***************************************************************************)
(* TradeSessions on one portfolio, served by one or two sessions.          *)
(***************************************************************************)
EXTENDS TradeSessions, TLC

CONSTANTS u1, p1, btc, eth, s1, s2

MCOwner == [p \in Portfolios |-> u1]

Data(asset, type, quantity, price, time) ==
  [asset_id |-> asset, trade_type |-> type, quantity |-> quantity,
   price |-> price, executed_at |-> time]

\* One asset: entries at two prices and an exit.
OneAsset ==
  {Data(btc, "BUY", 1, 1, 1), Data(btc, "BUY", 1, 3, 1), Data(btc, "SELL", 1, 1, 2)}

\* Two assets between which trades move.
TwoAssets == {Data(btc, "BUY", 1, 1, 1), Data(eth, "BUY", 1, 1, 1)}

\* The same with an exit, whose entry may be moved away from it.
TwoAssetsAndExit == TwoAssets \cup {Data(eth, "SELL", 1, 1, 2)}

Empty == <<>>
OneEntry == <<<<p1, Data(btc, "BUY", 1, 1, 1)>>>>
TwoEntries == <<<<p1, Data(btc, "BUY", 1, 1, 1)>>, <<p1, Data(eth, "BUY", 1, 1, 1)>>>>

Symmetric == Permutations(Sessions)
=============================================================================
