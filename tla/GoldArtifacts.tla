---------------------------- MODULE GoldArtifacts ----------------------------
(***************************************************************************)
(* The queries of Gold (src/src/gold/artifacts.py) over the views that a   *)
(* session registers.  A view is a function from row ids to rows; a query  *)
(* that groups is a function from group keys to aggregates, one that does  *)
(* not is a function from the joined row ids to rows.  A join is over row  *)
(* ids, so that a key which two rows of a dimension share counts twice,    *)
(* as it does in SQL.  Order and ratios of the results are left out.       *)
(***************************************************************************)
EXTENDS Integers, FiniteSets, FiniteSetsExt, Functions

CONSTANTS
    NULL,
    WindowRows      \* rows of the rolling window (90)

Coalesce(n) == IF n = NULL THEN 0 ELSE n

(* SUM of a column: a function on the rows that are added up. *)
SumOf(column) == SumFunction([x \in DOMAIN column |-> Coalesce(column[x])])

(* LEFT JOIN dim_clubs: the matching rows, or a row of nulls. *)
ClubRows(v, club) ==
    LET rows == {c \in DOMAIN v.dim_clubs : v.dim_clubs[c].club_id = club}
    IN  IF rows = {} THEN {NULL} ELSE rows

ClubName(v, c) == IF c = NULL THEN NULL ELSE v.dim_clubs[c].name

ClubCompetition(v, c) == IF c = NULL THEN NULL ELSE v.dim_clubs[c].domestic_competition_id

(* INNER JOIN dim_players ON player_sk, of the resolved appearances. *)
ResolvedAppearances(v) ==
    {x \in (DOMAIN v.fact_appearances) \X (DOMAIN v.dim_players) :
        /\ v.fact_appearances[x[1]].player_sk # NULL
        /\ v.dim_players[x[2]].player_sk = v.fact_appearances[x[1]].player_sk}

(* What the two queries about scorers add up, for a set of joined rows that
   start with an appearance.                                               *)
Totals(v, rows) ==
    [ total_goals      |-> SumOf([r \in rows |-> v.fact_appearances[r[1]].goals]),
      total_minutes    |-> SumOf([r \in rows |-> v.fact_appearances[r[1]].minutes_played]),
      appearance_count |-> Cardinality(rows) ]

ScorerRows(v) ==
    UNION { {<<x[1], x[2], c>> : c \in ClubRows(v, v.dim_players[x[2]].attr.current_club_id)} :
                x \in ResolvedAppearances(v) }

ScorerKey(v, r) ==
    [ season             |-> v.fact_appearances[r[1]].season,
      player_sk          |-> v.fact_appearances[r[1]].player_sk,
      player_id          |-> v.dim_players[r[2]].player,
      club_id_at_event   |-> v.dim_players[r[2]].attr.current_club_id,
      club_name_at_event |-> ClubName(v, r[3]) ]

(* Mutant: the clubs are joined with INNER JOIN. *)
TopScorersOfKnownClubs(v) ==
    LET rows == {r \in ScorerRows(v) : r[3] # NULL}
    IN  [ key \in {ScorerKey(v, r) : r \in rows} |->
            Totals(v, {r \in rows : ScorerKey(v, r) = key}) ]

top_scorers_by_season(v) ==
    LET rows == ScorerRows(v)
    IN  [ key \in {ScorerKey(v, r) : r \in rows} |->
            Totals(v, {r \in rows : ScorerKey(v, r) = key}) ]

AppearancesOf(v, player) == {x \in ResolvedAppearances(v) : v.dim_players[x[2]].player = player}

(* Totals per player over all versions, shown with the player's current row. *)
top_players_all_time(v) ==
    LET current == {p \in DOMAIN v.dim_players :
                       v.dim_players[p].is_current /\ AppearancesOf(v, v.dim_players[p].player) # {}}
        rows    == UNION { {<<p, c>> : c \in ClubRows(v, v.dim_players[p].attr.current_club_id)} :
                               p \in current }
    IN  [ r \in rows |->
            LET mine == AppearancesOf(v, v.dim_players[r[1]].player)
            IN  [ player_id      |-> v.dim_players[r[1]].player,
                  totals         |-> Totals(v, mine),
                  seasons_played |-> Cardinality({v.fact_appearances[x[1]].season : x \in mine}) ] ]

-----------------------------------------------------------------------------
(* Clubs *)

(* Mutant: UNION instead of UNION ALL, the home row wins. *)
PerspectivesOnce(v) ==
    {x \in (DOMAIN v.fact_games) \X {"home", "away"} :
        x[2] = "away" => v.fact_games[x[1]].outcome # "draw"}

(* home_perspective UNION ALL away_perspective *)
Perspectives(v) == (DOMAIN v.fact_games) \X {"home", "away"}

Perspective(v, x) ==
    LET g    == v.fact_games[x[1]]
        home == x[2] = "home"
    IN  [ season        |-> g.season,
          club_id       |-> IF home THEN g.home_club_id ELSE g.away_club_id,
          goals_for     |-> IF home THEN g.home_club_goals ELSE g.away_club_goals,
          goals_against |-> IF home THEN g.away_club_goals ELSE g.home_club_goals,
          result        |-> IF g.outcome \in {"draw", "unknown"} THEN g.outcome
                            ELSE IF g.outcome = "home_win" <=> home THEN "win" ELSE "loss" ]

(* The aggregates of the two queries about clubs, for a set of joined rows
   that start with a perspective.                                          *)
Standing(v, rows) ==
    LET Count(result) == Cardinality({x \in rows : Perspective(v, x).result = result})
    IN  [ matches_played |-> Cardinality(rows),
          wins           |-> Count("win"),
          draws          |-> Count("draw"),
          losses         |-> Count("loss"),
          goals_for      |-> SumOf([x \in rows |-> Perspective(v, x).goals_for]),
          goals_against  |-> SumOf([x \in rows |-> Perspective(v, x).goals_against]),
          points         |-> 3 * Count("win") + Count("draw"),
          clean_sheets   |-> Cardinality({x \in rows :
                                Coalesce(Perspective(v, x).goals_against) = 0}) ]

ClubSeasonRows(v) ==
    UNION { {<<x[1], x[2], c>> : c \in ClubRows(v, Perspective(v, x).club_id)} :
                x \in Perspectives(v) }

ClubSeasonKey(v, x) ==
    [ season                  |-> Perspective(v, x).season,
      club_id                 |-> Perspective(v, x).club_id,
      club_name               |-> ClubName(v, x[3]),
      domestic_competition_id |-> ClubCompetition(v, x[3]) ]

club_season_summary(v) ==
    LET rows == ClubSeasonRows(v)
    IN  [ key \in {ClubSeasonKey(v, x) : x \in rows} |->
            Standing(v, {x \in rows : ClubSeasonKey(v, x) = key}) ]

(* Grouped before the clubs are joined. *)
club_performance_metrics(v) ==
    LET clubs == {Perspective(v, x).club_id : x \in Perspectives(v)}
        rows  == UNION { {<<club, c>> : c \in ClubRows(v, club)} : club \in clubs }
    IN  [ r \in rows |->
            Standing(v, {x \in Perspectives(v) : Perspective(v, x).club_id = r[1]}) ]

-----------------------------------------------------------------------------
(* Valuations, as they are in Bronze *)

(* Mutant: INNER JOIN dim_players. *)
VersionRowsInner(v, valuation) ==
    {p \in DOMAIN v.dim_players :
        /\ v.dim_players[p].player = valuation.player_id
        /\ v.dim_players[p].effective_date <= valuation.date
        /\ valuation.date < v.dim_players[p].end_date}

(* LEFT JOIN dim_players as of the date.  Dates are compared as text, and the
   date of a valuation is a timestamp at midnight: the text of a window's last
   day is a prefix of it, and so comes before it.                          *)
VersionRows(v, valuation) ==
    LET rows == {p \in DOMAIN v.dim_players :
                    /\ v.dim_players[p].player = valuation.player_id
                    /\ v.dim_players[p].effective_date <= valuation.date
                    /\ valuation.date < v.dim_players[p].end_date}
    IN  IF rows = {} THEN {NULL} ELSE rows

(* The valuations that count, and what they are joined to: <<valuation,
   version, club>>, where the last two may be missing.                     *)
Valued(v) ==
    {x \in DOMAIN v.bronze_player_valuations :
        /\ v.bronze_player_valuations[x].market_value_in_eur # NULL
        /\ v.bronze_player_valuations[x].date # NULL}

ClubsOf(v, p) ==
    IF p = NULL THEN {NULL} ELSE ClubRows(v, v.dim_players[p].attr.current_club_id)

ValuedRows(v) ==
    UNION { UNION { {<<x, p, c>> : c \in ClubsOf(v, p)} :
                        p \in VersionRows(v, v.bronze_player_valuations[x]) } : x \in Valued(v) }

(* The window is a number of rows of the player, in the order of the dates;
   rows of one date are in some order.                                     *)
Window(v, x) ==
    LET pv == v.bronze_player_valuations
        Before(y, z) == \/ pv[y].date < pv[z].date
                        \/ pv[y].date = pv[z].date /\ y[1] < z[1]
                        \/ pv[y].date = pv[z].date /\ y[1] = z[1] /\ y[2] < z[2]
        mine    == {y \in Valued(v) : pv[y].player_id = pv[x].player_id}
        Rank(y) == Cardinality({z \in mine : Before(z, y)})
    IN  {y \in mine : Rank(y) <= Rank(x) /\ Rank(x) < Rank(y) + WindowRows}

RollingSum(v, x) ==
    SumOf([y \in Window(v, x) |-> v.bronze_player_valuations[y].market_value_in_eur])

player_valuation_rolling_avg(v) ==
    [ r \in ValuedRows(v) |->
        [ player_id            |-> v.bronze_player_valuations[r[1]].player_id,
          player_sk            |-> IF r[2] = NULL THEN NULL ELSE v.dim_players[r[2]].player_sk,
          rolling_sum          |-> RollingSum(v, r[1]),
          rolling_sample_count |-> Cardinality(Window(v, r[1])) ] ]

(* ALL_ARTIFACTS *)
Artifacts(v) ==
    [ top_scorers_by_season        |-> top_scorers_by_season(v),
      club_season_summary          |-> club_season_summary(v),
      top_players_all_time         |-> top_players_all_time(v),
      player_valuation_rolling_avg |-> player_valuation_rolling_avg(v),
      club_performance_metrics     |-> club_performance_metrics(v) ]
=============================================================================
