----------------------------- MODULE MCGoldLayer -----------------------------
(* Two Silver tables and the one that is read from Bronze, which has a view  *)
(* whether or not an artifact asks for it; two artifacts of the same tables  *)
(* that share their primary source, as in artifacts.py.                      *)
EXTENDS GoldLayer

CONSTANTS b1, b2, dim_players, fact_appearances, player_valuations,
          top_scorers_by_season, top_players_all_time, appearances

MCArtifacts     == <<top_scorers_by_season, top_players_all_time>>
MCReads         == [a \in Artifact |-> {dim_players, fact_appearances}]
MCPrimarySource == [a \in Artifact |-> appearances]
=============================================================================
