------------------------------ MODULE MCPlugin ------------------------------
(* Instances of Plugin for TLC. *)
EXTENDS Plugin

OneOrTwo == {1, 2}

(* Two servers; "west" is a gateway of the second, "east" of both.         *)
TwoServers == <<"Paper", "Live">>
TheirGateways == [s \in {"Paper", "Live"} |-> IF s = "Paper" THEN <<"east">> ELSE <<"east", "west">>]

(* From an earlier configuration: a gateway, and a server, that are gone.  *)
ObsoleteChoices == {[server |-> "Live", gateway |-> "north"], [server |-> "Old", gateway |-> "west"]}

(* The last session was with the second gateway of the second server.      *)
SavedWest == {[server |-> "Live", gateway |-> "west"]}
=============================================================================
