---------------------------- MODULE MCPositions ----------------------------
(* Instances of Positions for TLC: a trade of one asset that is bought and *)
(* one that is sold, which close each other, a trade of another asset, one *)
(* that was bought in an earlier session, and one that another application *)
(* makes in the other asset.                                               *)
EXTENDS Positions

AllTrades == {"long", "short", "other", "kept", "alien"}
AssetOfTrade == [t \in AllTrades |-> IF t \in {"other", "alien"} THEN "NQ" ELSE "ES"]
SideOfTrade == [t \in AllTrades |-> IF t = "short" THEN "Sell" ELSE "Buy"]
FlatOrLong == {0, 1}
Flat == {0}
=============================================================================
