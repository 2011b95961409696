---------------------------- MODULE MarketAssets -----------------------------
(***************************************************************************)
(* The assets whose prices and news are fetched (modules/asset).  They are *)
(* created and switched on and off through the API, never deleted; of what *)
(* can be edited, the feeds depend on is_active alone.                     *)
(***************************************************************************)
CONSTANT Assets

VARIABLE active      \* the assets whose committed is_active is true

\* Assets may have been switched off before.
AssetsInit == active \in SUBSET Assets

SwitchOn(a) == a \notin active /\ active' = active \cup {a}

SwitchOff(a) == a \in active /\ active' = active \ {a}

UpdateAsset == \E a \in Assets : SwitchOn(a) \/ SwitchOff(a)
=============================================================================
