---------------------------- MODULE MCStarSchema ----------------------------
(* Instances of StarSchema: the rules of configs/dq_rules.yaml for the       *)
(* columns that are modelled, and deliveries with the rows that the rules    *)
(* are about.  Months count from a January: 31 is an August, 30 the July     *)
(* before it, and batches are of the months 36 and 38.                       *)
EXTENDS StarSchema, TLC

MCRules ==
    { NotNullRule("competitions", {"competition_id", "name"}, "critical"),
      UniqueRule("competitions", {"competition_id"}, "critical"),
      NotNullRule("clubs", {"club_id", "name", "domestic_competition_id"}, "critical"),
      UniqueRule("clubs", {"club_id"}, "critical"),
      ForeignKeyRule("clubs", "domestic_competition_id", "competitions", "competition_id", "critical"),
      NotNullRule("players", {"player_id", "current_club_id"}, "critical"),
      UniqueRule("players", {"player_id"}, "critical"),
      ForeignKeyRule("players", "current_club_id", "clubs", "club_id", "critical"),
      RangeRule("players", "market_value_in_eur", 0, 500, "warning"),
      NotNullRule("games", {"game_id", "date", "home_club_id", "away_club_id"}, "critical"),
      UniqueRule("games", {"game_id"}, "critical"),
      ForeignKeyRule("games", "home_club_id", "clubs", "club_id", "critical"),
      ForeignKeyRule("games", "away_club_id", "clubs", "club_id", "critical"),
      ForeignKeyRule("games", "competition_id", "competitions", "competition_id", "critical"),
      RangeRule("games", "home_club_goals", 0, 30, "warning"),
      RangeRule("games", "away_club_goals", 0, 30, "warning"),
      NotNullRule("appearances", {"appearance_id", "player_id", "game_id", "date"}, "critical"),
      UniqueRule("appearances", {"appearance_id"}, "critical"),
      ForeignKeyRule("appearances", "player_id", "players", "player_id", "critical"),
      ForeignKeyRule("appearances", "game_id", "games", "game_id", "critical"),
      RangeRule("appearances", "minutes_played", 0, 120, "warning"),
      RangeRule("appearances", "goals", 0, 10, "warning"),
      NotNullRule("player_valuations", {"player_id", "date", "market_value_in_eur"}, "critical"),
      ForeignKeyRule("player_valuations", "player_id", "players", "player_id", "critical"),
      RangeRule("player_valuations", "market_value_in_eur", 0, 500, "warning") }

Competition(id, name) == [competition_id |-> id, name |-> name]
Club(id, name, competition) == [club_id |-> id, name |-> name, domestic_competition_id |-> competition]
PlayerRow(id, club, value) == [player_id |-> id, current_club_id |-> club, market_value_in_eur |-> value]
Game(id, date, home, away, hg, ag) ==
    [ game_id |-> id, date |-> date, home_club_id |-> home, away_club_id |-> away,
      home_club_goals |-> hg, away_club_goals |-> ag, competition_id |-> 1 ]
Appearance(id, player, game, date, goals) ==
    [ appearance_id |-> id, player_id |-> player, game_id |-> game, date |-> date,
      goals |-> goals, minutes_played |-> 90 ]
Valuation(player, date, value) == [player_id |-> player, date |-> date, market_value_in_eur |-> value]

MCAttr == [current_club_id : {1, 2, 9}, market_value_in_eur : {5, 7, NULL}]

(* The second competition has a name, or it has none and is quarantined. *)
Competitions == { <<Competition(1, "A"), Competition(2, n)>> : n \in {"B", NULL} }

(* The second club is of the second competition, or of one that is unknown,
   or has no name.                                                         *)
Clubs == { <<Club(1, "x", 1), c>> : c \in {Club(2, "y", 2), Club(2, "y", 9), Club(2, NULL, 1)} }

(* The second player is of the second club, or of none that is known, or
   twice in the file.                                                      *)
Players ==
    { <<PlayerRow(1, 1, 5)>> \o rest : rest \in
        { <<PlayerRow(2, 2, NULL)>>, <<PlayerRow(2, 9, 5)>>,
          <<PlayerRow(2, 1, 5), PlayerRow(2, 1, 7)>> } }

(* The first game is in July, the second in the August after it and played
   or not, or twice in the file.                                           *)
Games ==
    { <<Game(1, 30, 1, 2, 2, 1)>> \o rest : rest \in
        { <<Game(2, 31, 2, 1, 1, 1)>>, <<Game(2, 31, 2, 1, NULL, NULL)>>,
          <<Game(2, 31, 2, 1, 0, 1), Game(2, 31, 2, 1, 0, 1)>> } }

(* An appearance of each player, and one of a player nobody knows. *)
AppearanceRows ==
    <<Appearance(1, 1, 1, 30, 2), Appearance(2, 2, 2, 31, 1), Appearance(3, 1, 2, 31, NULL),
      Appearance(4, 9, 2, 31, 1)>>

ValuationRows ==
    <<Valuation(1, 20, 4), Valuation(1, 31, 5), Valuation(2, 31, 7), Valuation(9, 31, 3),
      Valuation(1, 32, NULL)>>

FirstDelivery ==
    { [ competitions |-> co, clubs |-> cl, players |-> pl, games |-> ga,
        appearances |-> AppearanceRows, player_valuations |-> ValuationRows ] :
        co \in Competitions, cl \in Clubs, pl \in Players, ga \in Games }

Without(delivery, source) == Restrict(delivery, DOMAIN delivery \ {source})

(* In the first batch a source may be missing, or all of them.  In the second
   a source is a duplicate of the first one's, or it has changed: the first
   player is of the other club, or has left; a club is gone and no player
   passes the rules; there is a new game.                                  *)
SecondDelivery ==
    { << >>,
      [ players |-> <<PlayerRow(1, 2, 5), PlayerRow(2, 1, 5)>> ],
      [ players |-> <<PlayerRow(2, 1, 5)>>, player_valuations |-> <<Valuation(2, 37, 6)>> ],
      [ clubs |-> <<Club(2, "y", 1)>>, players |-> <<PlayerRow(1, 9, 5)>> ],
      [ games |-> <<Game(3, 37, 1, 2, 0, 0)>>,
        appearances |-> <<Appearance(5, 1, 3, 37, 0), Appearance(2, 2, 2, 31, 1)>> ] }

MCDeliveries ==
    << FirstDelivery \cup {Without(d, s) : d \in FirstDelivery, s \in Checked} \cup {<< >>},
       SecondDelivery \cup { CHOOSE d \in FirstDelivery : TRUE } >>

MCDateOf == <<36, 38>>
=============================================================================
