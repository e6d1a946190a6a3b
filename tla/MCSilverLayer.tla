---------------------------- MODULE MCSilverLayer ----------------------------
(* Instances of SilverLayer: three of the five sources.  Players refer to    *)
(* clubs (current_club_id), appearances to players, and the builder of       *)
(* fact_appearances needs the frame of dim_players.                          *)
EXTENDS SilverLayer, TLC

CONSTANTS clubs, players, appearances, f_clubs, f_players, f_appearances

MCSourceOf == (f_clubs :> clubs) @@ (f_players :> players) @@ (f_appearances :> appearances)
MCFileOf   == (clubs :> f_clubs) @@ (players :> f_players) @@ (appearances :> f_appearances)
MCRegistry == <<clubs, players, appearances>>

MCReferences == (clubs :> {}) @@ (players :> {clubs}) @@ (appearances :> {players})
MCNeeds      == (clubs :> {}) @@ (players :> {}) @@ (appearances :> {players})

MCRowsOf     == [s \in Source |-> 4]
(* Every appearance breaks a rule, one of them only a foreign key rule. *)
MCBadRows    == (clubs :> 1) @@ (players :> 1) @@ (appearances :> 4)
MCOrphanRows == (clubs :> 0) @@ (players :> 0) @@ (appearances :> 1)

PlayersBefore == (clubs :> 0) @@ (players :> 3) @@ (appearances :> 0)
=============================================================================
