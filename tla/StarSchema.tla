----------------------------- MODULE StarSchema -----------------------------
(***************************************************************************)
(* The rows of the pipeline, from Bronze to Gold: one batch after the      *)
(* other lands, is checked by the data quality rules, becomes dimensions   *)
(* and facts (src/src/silver/), passes the gate or not, and is aggregated. *)
(* It composes DqRules, Scd2 and GoldArtifacts.  Every task is one step    *)
(* here; SilverLayer and GoldLayer have their steps, faults and retries.   *)
(***************************************************************************)
EXTENDS DqRules, Scd2, SequencesExt

CONSTANTS
    Batch,          \* batch ids, as numbers in the order of their names
    DateOf,         \* the date of a batch, in months
    Deliveries,     \* the deliveries a batch may find: frames by source
    quarantine_threshold_pct,
    WindowRows      \* rows of the rolling window of Gold

INSTANCE GoldArtifacts

(* The columns of the players that versions are about. *)
TrackedColumns(row) == [ current_club_id     |-> row.current_club_id,
                         market_value_in_eur |-> row.market_value_in_eur ]

(* The rows of a source that lands: numbered, and with the columns that the
   schema of the source has and the builders ask for.                      *)
IsFrameOf(source, frame) ==
    /\ DOMAIN frame \subseteq Nat /\ IsFiniteSet(DOMAIN frame)
    /\ \A i \in DOMAIN frame :
          CASE source = "players" -> /\ frame[i].player_id \in Player \cup {NULL}
                                     /\ TrackedColumns(frame[i]) \in Attr
            [] source = "games" ->
                    /\ {"game_id", "home_club_id", "away_club_id", "competition_id",
                        "home_club_goals", "away_club_goals"} \subseteq DOMAIN frame[i]
                    /\ {frame[i].home_club_goals, frame[i].away_club_goals} \subseteq Int \cup {NULL}
            [] source = "appearances" ->
                    /\ {"player_id", "game_id", "date", "goals"} \subseteq DOMAIN frame[i]
                    /\ frame[i].date \in (FAR_PAST_DATE .. FAR_FUTURE_DATE) \cup {NULL}
                    /\ frame[i].goals \in Int \cup {NULL}
            [] source = "player_valuations" ->
                    frame[i].date \in (FAR_PAST_DATE .. FAR_FUTURE_DATE - 1) \cup {NULL}
            [] OTHER -> TRUE

ASSUME StarAssumption ==
    /\ IsFiniteSet(Batch) /\ Batch = 1 .. Cardinality(Batch)
    /\ DateOf \in [Batch -> 1 .. FAR_FUTURE_DATE - 1]
    /\ DOMAIN Deliveries = Batch
    /\ \A b \in Batch : \A delivery \in Deliveries[b] :
          \A source \in DOMAIN delivery : IsFrameOf(source, delivery[source])
    /\ quarantine_threshold_pct \in Nat /\ WindowRows \in Nat \ {0}
    /\ NULL \notin Nat /\ NULL \notin Nat \X Nat

(* The foreign keys of the Silver tables: source, column, and the source and
   column it refers to.  configs/dq_rules.yaml has a critical rule for each,
   one for the key of the players and one for the date of an appearance.   *)
ForeignKeys == { <<"clubs", "domestic_competition_id", "competitions", "competition_id">>,
                 <<"players", "current_club_id", "clubs", "club_id">>,
                 <<"games", "home_club_id", "clubs", "club_id">>,
                 <<"games", "away_club_id", "clubs", "club_id">>,
                 <<"games", "competition_id", "competitions", "competition_id">>,
                 <<"appearances", "player_id", "players", "player_id">>,
                 <<"appearances", "game_id", "games", "game_id">> }

ASSUME RulesAssumption ==
    /\ \A fk \in ForeignKeys : ForeignKeyRule(fk[1], fk[2], fk[3], fk[4], "critical") \in dq_rules
    /\ \E rule \in CriticalRules("players") :
          rule.rule_type = "not_null" /\ "player_id" \in rule.columns
    /\ \E rule \in CriticalRules("appearances") :
          rule.rule_type = "not_null" /\ "date" \in rule.columns

(* sources_with_bronze, in run_silver; player_valuations is not one of them. *)
Checked == {"clubs", "competitions", "players", "games", "appearances"}

VARIABLES
    bronze,     \* the partitions a batch wrote: frames by source
    silver,     \* the partitions of the Silver tables of a batch
    rejected,   \* the quarantined rows of a batch: frames by source
    dq_reports, \* the DQ report of a batch, NULL before
    gold,       \* the artifacts of a batch, NULL if there are none
    stage       \* how far the DAG run of a batch is

vars == <<bronze, silver, rejected, dq_reports, gold, stage>>

NoFrame  == << >>
NoTables == [ dim_clubs |-> NoFrame, dim_competitions |-> NoFrame, dim_players |-> << >>,
              fact_games |-> NoFrame, fact_appearances |-> NoFrame ]

Init ==
    /\ bronze = [b \in Batch |-> << >>]
    /\ silver = [b \in Batch |-> NoTables]
    /\ rejected = [b \in Batch |-> << >>]
    /\ dq_reports = [b \in Batch |-> NULL]
    /\ gold = [b \in Batch |-> NULL]
    /\ stage = [b \in Batch |-> "waiting"]

-----------------------------------------------------------------------------
(* Bronze *)

(* A source is not in a delivery when its bytes are those of an earlier
   batch, or when it could not be landed; Silver can then still be started
   by hand.                                                                *)
Land(b) ==
    /\ stage[b] = "waiting"
    /\ b > 1 => stage[b - 1] \in {"stopped", "done"}
    /\ \E delivery \in Deliveries[b] : bronze' = [bronze EXCEPT ![b] = delivery]
    /\ stage' = [stage EXCEPT ![b] = "landed"]
    /\ UNCHANGED <<silver, rejected, dq_reports, gold>>

(* resolve_bronze_partition: the partition of the batch, or else that of the
   most recent one that has the source.                                    *)
Holders(b, source) == {p \in 1 .. b : source \in DOMAIN bronze[p]}

Readable(b) == {source \in Checked : Holders(b, source) # {}}

ReadBronze(b, source) == bronze[MaxOf(Holders(b, source))][source]

FkLookups(b) == BuildFkLookups([source \in Readable(b) |-> ReadBronze(b, source)])

CleanBronze(b) ==
    [source \in Readable(b) |-> CleanRows(source, ReadBronze(b, source), FkLookups(b))]

Rejected(b) ==
    [source \in Readable(b) |-> FailingRows(source, ReadBronze(b, source), FkLookups(b))]

Report(b) ==
    BatchReport([source \in Readable(b) |->
                    SourceReport(source, ReadBronze(b, source), FkLookups(b))])

-----------------------------------------------------------------------------
(* Silver *)

(* A date is a number of months since a January.  The season of a match is
   named by the year it starts in, and starts in August.                   *)
derive_season(date) == IF date % 12 >= 7 THEN date \div 12 ELSE date \div 12 - 1

derive_match_outcome(home_goals, away_goals) ==
    IF home_goals = NULL \/ away_goals = NULL THEN "unknown"
    ELSE IF home_goals > away_goals THEN "home_win"
    ELSE IF away_goals > home_goals THEN "away_win" ELSE "draw"

(* drop_duplicates keeps the first row of a key. *)
Distinct(frame, column) ==
    Restrict(frame, {i \in DOMAIN frame :
                        \A j \in DOMAIN frame : j < i => frame[j][column] # frame[i][column]})

build_dim_clubs(bronze_clubs) == Distinct(bronze_clubs, "club_id")

build_dim_competitions(bronze_competitions) == Distinct(bronze_competitions, "competition_id")

(* The tracked columns of the players, by player.  DQ has left one row of a
   key.                                                                    *)
Tracked(bronze_players) ==
    LET Row(player) == bronze_players[CHOOSE i \in DOMAIN bronze_players :
                                         bronze_players[i].player_id = player]
    IN  [ player \in {bronze_players[i].player_id : i \in DOMAIN bronze_players} |->
            TrackedColumns(Row(player)) ]

(* The rows of all dim_players partitions; none is a first load, dated back. *)
ExistingDimPlayers == FlattenSeq([b \in Batch |-> silver[b].dim_players])

build_dim_players(bronze_players, existing_dim, batch_timestamp) ==
    scd2_merge(existing_dim, Tracked(bronze_players),
               IF existing_dim = << >> THEN FAR_PAST_DATE ELSE batch_timestamp)

(* A row with columns computed from it. *)
with_derived_columns(row, columns) ==
    [ c \in DOMAIN row \cup DOMAIN columns |->
        IF c \in DOMAIN columns THEN columns[c] ELSE row[c] ]

build_fact_games(bronze_games) ==
    [ i \in DOMAIN bronze_games |->
        with_derived_columns(bronze_games[i],
            [ outcome |-> derive_match_outcome(bronze_games[i].home_club_goals,
                                               bronze_games[i].away_club_goals),
              season  |-> derive_season(bronze_games[i].date) ]) ]

(* The lookup's 0 is None. *)
build_fact_appearances(bronze_appearances, dim_players) ==
    [ i \in DOMAIN bronze_appearances |->
        LET a  == bronze_appearances[i]
            sk == LookupPlayerSkAt(dim_players, a.player_id, a.date)
        IN  with_derived_columns(a, [ season    |-> derive_season(a.date),
                                      player_sk |-> IF sk = 0 THEN NULL ELSE sk ]) ]

(* What a run writes: a builder without its clean frame fails, and so does
   fact_appearances without the frame of dim_players.                      *)
Tables(b, existing_dim) ==
    LET clean == CleanBronze(b)
        dim_players == build_dim_players(clean["players"], existing_dim, DateOf[b])
    IN  [ dim_clubs |-> IF "clubs" \in DOMAIN clean
                        THEN build_dim_clubs(clean["clubs"]) ELSE NoFrame,
          dim_competitions |-> IF "competitions" \in DOMAIN clean
                        THEN build_dim_competitions(clean["competitions"]) ELSE NoFrame,
          dim_players |-> IF "players" \in DOMAIN clean THEN dim_players ELSE << >>,
          fact_games |-> IF "games" \in DOMAIN clean
                        THEN build_fact_games(clean["games"]) ELSE NoFrame,
          fact_appearances |-> IF {"players", "appearances"} \subseteq DOMAIN clean
                        THEN build_fact_appearances(clean["appearances"], dim_players)
                        ELSE NoFrame ]

RunSilver(b) ==
    /\ stage[b] = "landed"
    /\ rejected' = [rejected EXCEPT ![b] = Rejected(b)]
    /\ dq_reports' = [dq_reports EXCEPT ![b] = Report(b)]
    /\ silver' = [silver EXCEPT ![b] = Tables(b, ExistingDimPlayers)]
    /\ stage' = [stage EXCEPT ![b] = IF Readable(b) = Checked THEN "built" ELSE "stopped"]
    /\ UNCHANGED <<bronze, gold>>

-----------------------------------------------------------------------------
(* Gate and Gold *)

DqGate(b) ==
    /\ stage[b] = "built"
    /\ stage' = [stage EXCEPT ![b] = IF GateFails(dq_reports[b], quarantine_threshold_pct)
                                     THEN "stopped" ELSE "passed"]
    /\ UNCHANGED <<bronze, silver, rejected, dq_reports, gold>>

(* A view over the partitions of some batches. *)
View(partitions, batches) ==
    [ x \in UNION {{b} \X (DOMAIN partitions[b]) : b \in batches} |-> partitions[x[1]][x[2]] ]

Views(batches) ==
    LET Table(name) == View([b \in Batch |-> silver[b][name]], batches)
        valuations  == [b \in Batch |-> IF "player_valuations" \in DOMAIN bronze[b]
                                        THEN bronze[b]["player_valuations"] ELSE NoFrame]
    IN  [ dim_clubs                |-> Table("dim_clubs"),
          dim_players              |-> Table("dim_players"),
          fact_games               |-> Table("fact_games"),
          fact_appearances         |-> Table("fact_appearances"),
          bronze_player_valuations |-> View(valuations, batches) ]

(* register_views takes all partitions there are. *)
RunGold(b) ==
    /\ stage[b] = "passed"
    /\ gold' = [gold EXCEPT ![b] = Artifacts(Views(Batch))]
    /\ stage' = [stage EXCEPT ![b] = "done"]
    /\ UNCHANGED <<bronze, silver, rejected, dq_reports>>

Next == \E b \in Batch : Land(b) \/ RunSilver(b) \/ DqGate(b) \/ RunGold(b)

Spec == Init /\ [][Next]_vars
-----------------------------------------------------------------------------
(* Properties *)

(* No earlier batch has left anything in Silver: the views hold this batch. *)
FirstInTheLake(b) == gold[b] # NULL /\ \A p \in 1 .. b - 1 : silver[p] = NoTables

Values(frame, column) == {frame[i][column] : i \in DOMAIN frame}

(* The references of the Silver tables of a batch: the values of the foreign
   key columns, the values they should be among, and the source these are
   of.  Of the players it is the versions of the batch that refer to clubs:
   closed ones may name clubs that are gone, and so may those that a batch
   without a clean player leaves as they were.                             *)
SilverReferences(b) ==
    LET t == silver[b]
        Reference(from, to, src, column) ==
            [values |-> from, among |-> to, source |-> src, column |-> column]
        ofBatch == Values(CleanBronze(b)["players"], "player_id")
        current == {i \in DOMAIN t.dim_players : t.dim_players[i].is_current
                                                 /\ t.dim_players[i].player \in ofBatch}
        clubs   == Values(t.dim_clubs, "club_id")
        competitions == Values(t.dim_competitions, "competition_id")
    IN  { Reference(Values(t.dim_clubs, "domestic_competition_id"), competitions,
                    "competitions", "competition_id"),
          Reference({t.dim_players[i].attr.current_club_id : i \in current}, clubs,
                    "clubs", "club_id"),
          Reference(Values(t.fact_games, "home_club_id"), clubs, "clubs", "club_id"),
          Reference(Values(t.fact_games, "away_club_id"), clubs, "clubs", "club_id"),
          Reference(Values(t.fact_games, "competition_id"), competitions,
                    "competitions", "competition_id"),
          Reference(Values(t.fact_appearances, "player_id"), Values(t.dim_players, "player"),
                    "players", "player_id"),
          Reference(Values(t.fact_appearances, "game_id"), Values(t.fact_games, "game_id"),
                    "games", "game_id") }

(* The lookups of the foreign key rules are built from raw rows, before the
   referenced source loses its own bad ones (dq/runner.py:117), so Silver
   does have references to nothing.  Each of them is explained by the
   quarantine of the same batch: the row it names has been rejected there.
   For sources that the batch can read; the others have no lookup.         *)
DanglingOnlyThroughQuarantine ==
    \A b \in Batch : \A ref \in SilverReferences(b) :
        ref.source \in DOMAIN rejected[b] =>
            ref.values \ (ref.among \cup {NULL}) \subseteq Values(rejected[b][ref.source], ref.column)

(* The clean appearances of a player of the dimension, in a season. *)
Played(clean, player, season) ==
    LET a == clean["appearances"]
    IN  IF player \notin Values(clean["players"], "player_id") THEN {}
        ELSE {i \in DOMAIN a : a[i].player_id = player /\ derive_season(a[i].date) = season}

(* What the two queries show of a player, in a season and of all time. *)
SeasonTotal(scorers, field, player, season) ==
    LET keys == {k \in DOMAIN scorers : k.player_id = player /\ k.season = season}
    IN  SumFunction([k \in keys |-> scorers[k][field]])

AllTimeTotal(allTime, player) ==
    LET rows == {r \in DOMAIN allTime : allTime[r].player_id = player}
    IN  SumFunction([r \in rows |-> allTime[r].totals.appearance_count])

(* The clean rows of a batch and the two lists of scorers. *)
ScorersAddUp(clean, scorers, allTime) ==
    LET a       == clean["appearances"]
        seasons == {derive_season(a[i].date) : i \in DOMAIN a}
    IN  \A player \in Values(a, "player_id") :
            /\ \A season \in seasons :
                  LET played == Played(clean, player, season)
                  IN  /\ SeasonTotal(scorers, "appearance_count", player, season) = Cardinality(played)
                      /\ SeasonTotal(scorers, "total_goals", player, season) =
                            SumOf([i \in played |-> a[i].goals])
            /\ AllTimeTotal(allTime, player) =
                  Cardinality(UNION {Played(clean, player, season) : season \in seasons})

(* The scorers of Gold are an inner join, two left joins and a grouping away
   from the facts: in a lake of one batch no join loses or doubles an
   appearance or a goal, although clubs of players may be missing from
   dim_clubs, and the all-time list adds up to the seasons
   (gold/artifacts.py:62-102, 185-239).                                    *)
TotalsAreTheFacts ==
    \A b \in Batch : FirstInTheLake(b) =>
        ScorersAddUp(CleanBronze(b), gold[b].top_scorers_by_season, gold[b].top_players_all_time)

(* The games of a batch, the table and the metrics. *)
TableBalances(games, table, metrics) ==
    LET Total(field, keys) == SumFunction([k \in keys |-> table[k][field]])
    IN  /\ Total("wins", DOMAIN table) = Total("losses", DOMAIN table)
        /\ Total("goals_for", DOMAIN table) = Total("goals_against", DOMAIN table)
        /\ Total("matches_played", DOMAIN table) = 2 * Cardinality(DOMAIN games)
        /\ \A r \in DOMAIN metrics : \A field \in DOMAIN metrics[r] :
              metrics[r][field] = Total(field, {k \in DOMAIN table : k.club_id = r[1]})

(* Every game is in the table of its season twice, once for each side: over
   all clubs wins are losses and goals for are goals against, games without
   goals and games of quarantined clubs included, and the metrics of a club
   are the sums of its seasons (gold/artifacts.py:109-178, 326-414).       *)
LeagueTableBalances ==
    \A b \in Batch : FirstInTheLake(b) =>
        TableBalances(silver[b].fact_games, gold[b].club_season_summary,
                      gold[b].club_performance_metrics)

(* Every valuation of a batch with a value and a date is one row of the
   result, which has a surrogate key just when the player is clean.        *)
ValuationsResolve(b) ==
    LET pv   == bronze[b]["player_valuations"]
        rows == gold[b].player_valuation_rolling_avg
    IN  \A i \in DOMAIN pv : pv[i].market_value_in_eur # NULL /\ pv[i].date # NULL =>
            LET mine == {r \in DOMAIN rows : r[1] = <<b, i>>}
            IN  /\ Cardinality(mine) = 1
                /\ \A r \in mine :
                      rows[r].player_sk # NULL <=>
                          pv[i].player_id \in Values(CleanBronze(b)["players"], "player_id")

(* The valuations are the only rows that reach Gold without data quality:
   player_valuations is not in sources_with_bronze (silver/run.py:384), so
   that its rules never run.  In a lake of one batch none of them is lost or
   doubled all the same, and they resolve when the player passed the rules
   of players.                                                             *)
ValuationsResolveWhenClean ==
    \A b \in Batch : FirstInTheLake(b) /\ "player_valuations" \in DOMAIN bronze[b] =>
        ValuationsResolve(b)

(* "Each batch's Gold partition reflects only that batch's Silver state"
   (ADR-0007:243-244): the rows of the artifacts are those that the tables
   of the batch alone would give.                                          *)
GoldReflectsOnlyItsBatch ==
    \A b \in Batch : gold[b] # NULL => gold[b] = Artifacts(Views({b}))
=============================================================================
