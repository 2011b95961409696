---------------------------- MODULE MCMarketFeeds ----------------------------
(***************************************************************************)
(* The two feeds over two assets, all or none switched on at first.  They  *)
(* have nothing in common but the assets, which neither changes: a         *)
(* behaviour shows one of them.                                            *)
(***************************************************************************)
EXTENDS PriceFeed, NewsFeed

CONSTANTS
  a1, a2,
  MaxEdits     \* bound on how often assets are switched on or off

VARIABLES
  feed,        \* the feed this behaviour shows
  edits        \* how often assets were switched on or off

vars == <<feed, edits, active, priceVars, newsVars>>

Story(url, title, on, fits) == [url |-> url, title |-> title, day |-> on, fits |-> fits]

\* Two addresses of one story, one that both assets have, and one that does not fit.
First  == Story("u1", "t1", 0, TRUE)
Second == Story("u2", "t1", 0, TRUE)
Shared == Story("u3", "t2", 0, TRUE)
Long   == Story("u4", "t3", 1, FALSE)

MCStories == {First, Second, Shared, Long}

MCLists == a1 :> {First, Second, Shared} @@ a2 :> {Shared, Long}

Init ==
  /\ feed \in {"prices", "news"}
  /\ edits = 0
  /\ AssetsInit
  /\ active \in {{}, Assets}
  /\ PriceInit
  /\ NewsInit

Edit ==
  /\ edits < MaxEdits
  /\ edits' = edits + 1
  /\ UpdateAsset
  /\ UNCHANGED <<feed, priceVars, newsVars>>

Next ==
  \/ feed = "prices" /\ PriceNext /\ UNCHANGED <<feed, edits, newsVars>>
  \/ feed = "news" /\ NewsNext /\ UNCHANGED <<feed, edits, priceVars>>
  \/ Edit

Spec == Init /\ [][Next]_vars /\ PriceFairness
=============================================================================
