--------------------------- MODULE MCTradeJournal ---------------------------
(***************************************************************************)
(* The replay loop over every ledger, and TradeJournal on portfolios of    *)
(* two users.  The requests replay whole ledgers in one step: a behaviour  *)
(* shows the loop or the requests.                                         *)
(***************************************************************************)
EXTENDS TradeJournal, ReplayLoop, TLC

CONSTANTS u1, u2, p1, p2, btc, eth, unlisted

MCOwner == [p \in Portfolios |-> IF p = p1 THEN u1 ELSE u2]

VARIABLE shown     \* what this behaviour shows

MCInit ==
  /\ shown \in {"loop", "requests"}
  /\ Init
  /\ LoopInit

MCNext ==
  \/ shown = "loop" /\ LoopNext /\ UNCHANGED <<shown, vars>>
  \/ shown = "requests" /\ Next /\ UNCHANGED <<shown, loopVars>>

MCSpec == MCInit /\ [][MCNext]_<<shown, vars, loopVars>>
=============================================================================
