-------------------------- MODULE StarSchemaProofs --------------------------
(***************************************************************************)
(* What the data quality rules guarantee of the rows they let through, for *)
(* every set of rules and all frames.  Then what that makes of the Silver  *)
(* tables of StarSchema, for all deliveries and any number of batches.     *)
(***************************************************************************)
EXTENDS StarSchema, Scd2Proofs

-----------------------------------------------------------------------------
(* The rules *)

(* The rows that are let through are those that no critical rule objects to,
   the others are quarantined, and either keep what they held.             *)
LEMMA CleanDomain ==
    ASSUME NEW source, NEW frame, NEW lookups
    PROVE  DOMAIN CleanRows(source, frame, lookups) =
                {i \in DOMAIN frame : ~FailsCritical(source, frame, i, lookups)}
BY DEF CleanRows, Restrict

LEMMA FailingDomain ==
    ASSUME NEW source, NEW frame, NEW lookups
    PROVE  DOMAIN FailingRows(source, frame, lookups) =
                {i \in DOMAIN frame : FailsCritical(source, frame, i, lookups)}
BY DEF FailingRows, Restrict

LEMMA CleanRow ==
    ASSUME NEW source, NEW frame, NEW lookups, NEW i \in DOMAIN CleanRows(source, frame, lookups)
    PROVE  /\ i \in DOMAIN frame
           /\ CleanRows(source, frame, lookups)[i] = frame[i]
           /\ \A rule \in CriticalRules(source) : Passes(rule, frame, i, lookups)
BY DEF CleanRows, Restrict, FailsCritical

LEMMA FailingRow ==
    ASSUME NEW source, NEW frame, NEW lookups, NEW i \in DOMAIN FailingRows(source, frame, lookups)
    PROVE  FailingRows(source, frame, lookups)[i] = frame[i]
BY DEF FailingRows, Restrict

-----------------------------------------------------------------------------

(* A critical unique rule on one column leaves a key in the clean frame: the
   builders of the dimensions can take one row per key without choosing
   (dimensions.py, drop_duplicates).                                       *)
THEOREM CleanKeysAreUnique ==
    ASSUME NEW source, NEW column, NEW frame, NEW lookups,
           UniqueRule(source, {column}, "critical") \in dq_rules,
           NEW i \in DOMAIN CleanRows(source, frame, lookups),
           NEW j \in DOMAIN CleanRows(source, frame, lookups),
           CleanRows(source, frame, lookups)[i][column] =
             CleanRows(source, frame, lookups)[j][column]
    PROVE  i = j
<1> DEFINE rule == UniqueRule(source, {column}, "critical")
<1>1. /\ rule.rule_type = "unique" /\ rule.columns = {column}
      /\ rule.source = source /\ rule.severity = "critical"
  BY DEF UniqueRule
<1>2. rule \in CriticalRules(source)
  BY <1>1 DEF CriticalRules, RulesForSource
<1> HIDE DEF rule
<1>3. Passes(rule, frame, i, lookups)
  BY <1>2, CleanRow
<1>4. PassesUnique(rule, frame, i)
  BY <1>1, <1>3 DEF Passes
<1>5. i \in DOMAIN frame /\ j \in DOMAIN frame /\ frame[i][column] = frame[j][column]
  <2>1. /\ i \in DOMAIN frame /\ CleanRows(source, frame, lookups)[i] = frame[i]
        /\ j \in DOMAIN frame /\ CleanRows(source, frame, lookups)[j] = frame[j]
    BY CleanRow
  <2>2. QED
    BY <2>1
<1>6. QED
  BY <1>1, <1>4, <1>5 DEF PassesUnique

(* The lookups of the foreign key rules hold the raw rows of the referenced
   source (dq/runner.py:117): a clean row refers to a row of the referenced
   source that Bronze has, so that, where it refers to no clean one, the row
   it refers to is in quarantine.                                          *)
THEOREM DanglingIsQuarantined ==
    ASSUME NEW frames, NEW source \in DOMAIN frames, NEW referenced \in DOMAIN frames,
           NEW column, NEW key,
           ForeignKeyRule(source, column, referenced, key, "critical") \in dq_rules,
           NEW i \in DOMAIN CleanRows(source, frames[source], BuildFkLookups(frames)),
           frames[source][i][column] # NULL
    PROVE  LET target   == frames[referenced]
               clean    == CleanRows(referenced, target, BuildFkLookups(frames))
               failing  == FailingRows(referenced, target, BuildFkLookups(frames))
               value    == frames[source][i][column]
           IN  \/ \E j \in DOMAIN clean : clean[j][key] = value
               \/ \E j \in DOMAIN failing : failing[j][key] = value
<1> DEFINE rule    == ForeignKeyRule(source, column, referenced, key, "critical")
           lookups == BuildFkLookups(frames)
           target  == frames[referenced]
           value   == frames[source][i][column]
<1>1. /\ rule.rule_type = "foreign_key" /\ rule.column = column
      /\ rule.references_source = referenced /\ rule.references_column = key
      /\ rule.source = source /\ rule.severity = "critical"
  BY DEF ForeignKeyRule
<1>2. rule \in CriticalRules(source) /\ <<referenced, key>> \in FkDependencies
  BY <1>1 DEF CriticalRules, RulesForSource, FkDependencies
<1>3. /\ <<referenced, key>> \in DOMAIN lookups
      /\ lookups[<<referenced, key>>] = {target[j][key] : j \in DOMAIN target} \ {NULL}
  BY <1>2 DEF BuildFkLookups
<1>4. PassesForeignKey(rule, frames[source][i], lookups)
  <2> HIDE DEF rule, lookups
  <2>1. Passes(rule, frames[source], i, BuildFkLookups(frames))
    BY <1>2, CleanRow
  <2>2. QED
    BY <1>1, <2>1 DEF Passes, lookups
<1>5. value \in {target[j][key] : j \in DOMAIN target}
  <2> HIDE DEF rule, lookups
  <2>1. QED
    BY <1>1, <1>3, <1>4 DEF PassesForeignKey
<1>6. PICK j \in DOMAIN target : target[j][key] = value
  BY <1>5
<1> DEFINE clean    == CleanRows(referenced, target, lookups)
           failing  == FailingRows(referenced, target, lookups)
<1>7. j \in DOMAIN clean \/ j \in DOMAIN failing
  <2> HIDE DEF target, lookups
  <2>1. DOMAIN clean = {k \in DOMAIN target : ~FailsCritical(referenced, target, k, lookups)}
    BY CleanDomain
  <2>2. DOMAIN failing = {k \in DOMAIN target : FailsCritical(referenced, target, k, lookups)}
    BY FailingDomain
  <2> HIDE DEF clean, failing
  <2>3. QED
    BY <1>6, <2>1, <2>2
<1>8. /\ j \in DOMAIN clean => clean[j] = target[j]
      /\ j \in DOMAIN failing => failing[j] = target[j]
  <2> HIDE DEF target, lookups
  <2>1. QED
    BY CleanRow, FailingRow
<1>9. QED
  BY <1>6, <1>7, <1>8

-----------------------------------------------------------------------------
(* References between the tables of a batch *)

(* Dropping the later rows of a key keeps the rows it leaves, and the keys. *)
LEMMA DistinctKeeps ==
    ASSUME NEW frame, DOMAIN frame \subseteq Nat, NEW column
    PROVE  /\ \A j \in DOMAIN Distinct(frame, column) :
                 j \in DOMAIN frame /\ Distinct(frame, column)[j] = frame[j]
           /\ Values(frame, column) \subseteq Values(Distinct(frame, column), column)
<1>1. \A j \in DOMAIN Distinct(frame, column) :
          j \in DOMAIN frame /\ Distinct(frame, column)[j] = frame[j]
  BY DEF Distinct, Restrict
<1>2. ASSUME NEW i \in DOMAIN frame
      PROVE  frame[i][column] \in Values(Distinct(frame, column), column)
  <2> DEFINE S == {j \in DOMAIN frame : frame[j][column] = frame[i][column]}
  <2>1. PICK n \in S : \A m \in S : n <= m
    <3>1. S \subseteq Nat /\ S # {}
      OBVIOUS
    <3> HIDE DEF S
    <3>2. QED
      BY <3>1, Smallest
  <2>2. ASSUME NEW j \in DOMAIN frame, j < n
        PROVE  frame[j][column] # frame[n][column]
    <3>1. j \in Nat /\ n \in Nat
      BY <2>1
    <3>2. j \notin S
      BY <2>1, <2>2, <3>1
    <3>3. QED
      BY <2>1, <3>2
  <2>3. n \in DOMAIN Distinct(frame, column)
    BY <2>1, <2>2 DEF Distinct, Restrict
  <2>4. Distinct(frame, column)[n][column] = frame[i][column]
    BY <1>1, <2>1, <2>3
  <2>5. QED
    BY <2>3, <2>4 DEF Values
<1>3. QED
  BY <1>1, <1>2 DEF Values

(* DanglingIsQuarantined for the columns of the Silver tables. *)
LEMMA CleanReferences ==
    ASSUME NEW frames, NEW source \in DOMAIN frames, NEW referenced \in DOMAIN frames,
           NEW column, NEW key, RulesAssumption,
           <<source, column, referenced, key>> \in ForeignKeys
    PROVE  LET lookups == BuildFkLookups(frames)
           IN  Values(CleanRows(source, frames[source], lookups), column) \ {NULL} \subseteq
                  Values(CleanRows(referenced, frames[referenced], lookups), key) \cup
                  Values(FailingRows(referenced, frames[referenced], lookups), key)
<1> DEFINE lookups == BuildFkLookups(frames)
           clean == CleanRows(source, frames[source], lookups)
           target == CleanRows(referenced, frames[referenced], lookups)
           failing == FailingRows(referenced, frames[referenced], lookups)
<1>1. ForeignKeyRule(source, column, referenced, key, "critical") \in dq_rules
  <2> DEFINE fk == <<source, column, referenced, key>>
  <2>1. ForeignKeyRule(fk[1], fk[2], fk[3], fk[4], "critical") \in dq_rules
    <3> HIDE DEF fk
    <3>1. QED
      BY DEF RulesAssumption, fk
  <2>2. QED
    BY <2>1
<1>2. ASSUME NEW i \in DOMAIN clean, clean[i][column] # NULL
      PROVE  clean[i][column] \in Values(target, key) \cup Values(failing, key)
  <2>1. clean[i] = frames[source][i]
    BY CleanRow
  <2>2. \/ \E j \in DOMAIN target : target[j][key] = frames[source][i][column]
        \/ \E j \in DOMAIN failing : failing[j][key] = frames[source][i][column]
    <3>1. i \in DOMAIN CleanRows(source, frames[source], BuildFkLookups(frames))
      OBVIOUS
    <3>2. frames[source][i][column] # NULL
      BY <1>2, <2>1
    <3> HIDE DEF clean
    <3>3. QED
      BY <1>1, <3>1, <3>2, DanglingIsQuarantined
  <2> HIDE DEF clean, target, failing
  <2>3. QED
    BY <2>1, <2>2 DEF Values
<1> HIDE DEF clean, target, failing
<1>3. Values(clean, column) \ {NULL} \subseteq Values(target, key) \cup Values(failing, key)
  BY <1>2 DEF Values
<1>4. QED
  BY <1>3 DEF clean, target, failing

(* The players of a clean frame have a key and come with the attributes of
   one of their rows, as a batch should.                                   *)
LEMMA TrackedIncoming ==
    ASSUME NEW frame, NEW lookups, IsFrameOf("players", frame), RulesAssumption
    PROVE  LET clean    == CleanRows("players", frame, lookups)
               incoming == Tracked(clean)
           IN  /\ incoming \in Incoming
               /\ DOMAIN incoming = Values(clean, "player_id")
               /\ \A p \in DOMAIN incoming : \E i \in DOMAIN clean :
                     incoming[p] = TrackedColumns(clean[i])
<1> DEFINE clean == CleanRows("players", frame, lookups)
           incoming == Tracked(clean)
           Row(player) == clean[CHOOSE i \in DOMAIN clean : clean[i].player_id = player]
<1>1. PICK rule \in CriticalRules("players") :
          rule.rule_type = "not_null" /\ "player_id" \in rule.columns
  BY DEF RulesAssumption
<1>2. ASSUME NEW i \in DOMAIN clean
      PROVE  clean[i].player_id \in Player /\ TrackedColumns(clean[i]) \in Attr
  <2>1. /\ i \in DOMAIN frame /\ clean[i] = frame[i]
        /\ \A r \in CriticalRules("players") : Passes(r, frame, i, lookups)
    BY CleanRow
  <2>2. PassesNotNull(rule, frame[i])
    BY <1>1, <2>1 DEF Passes
  <2>3. frame[i].player_id # NULL
    BY <1>1, <2>2 DEF PassesNotNull
  <2>4. frame[i].player_id \in Player \cup {NULL} /\ TrackedColumns(frame[i]) \in Attr
    BY <2>1 DEF IsFrameOf
  <2>5. QED
    BY <2>1, <2>3, <2>4
<1> HIDE DEF clean
<1>3. /\ DOMAIN incoming = Values(clean, "player_id")
      /\ \A p \in DOMAIN incoming : incoming[p] = TrackedColumns(Row(p))
  BY DEF Tracked, Values
<1>4. ASSUME NEW p \in DOMAIN incoming
      PROVE  \E i \in DOMAIN clean : incoming[p] = TrackedColumns(clean[i])
  <2>1. \E i \in DOMAIN clean : clean[i].player_id = p
    BY <1>3 DEF Values
  <2>2. (CHOOSE i \in DOMAIN clean : clean[i].player_id = p) \in DOMAIN clean
    BY <2>1
  <2>3. QED
    BY <1>3, <2>2
<1>5. incoming \in [DOMAIN incoming -> Attr]
  <2>1. \A p \in DOMAIN incoming : incoming[p] \in Attr
    BY <1>2, <1>4
  <2>2. incoming = [p \in DOMAIN incoming |-> incoming[p]]
    BY DEF Tracked
  <2>3. QED
    BY <2>1, <2>2
<1>6. DOMAIN incoming \in SUBSET Player
  BY <1>2, <1>3 DEF Values
<1> HIDE DEF incoming
<1>7. incoming \in Incoming
  BY <1>5, <1>6 DEF Incoming
<1>8. QED
  BY <1>3, <1>4, <1>7 DEF clean, incoming

(* The frames that a batch reads. *)
Raw(b) == [source \in Readable(b) |-> ReadBronze(b, source)]

LEMMA Checks ==
    ASSUME NEW b, NEW source \in Readable(b)
    PROVE  LET lookups == BuildFkLookups(Raw(b))
           IN  /\ CleanBronze(b)[source] = CleanRows(source, Raw(b)[source], lookups)
               /\ Rejected(b)[source] = FailingRows(source, Raw(b)[source], lookups)
               /\ DOMAIN CleanBronze(b) = Readable(b) /\ DOMAIN Rejected(b) = Readable(b)
               /\ DOMAIN Raw(b) = Readable(b)
BY DEF CleanBronze, Rejected, Raw, FkLookups

(* Batches have landed what they may find, or nothing. *)
BronzeInv == \A b \in Batch : bronze[b] = << >> \/ bronze[b] \in Deliveries[b]

LEMMA BatchesAreNumbers ==
    ASSUME StarAssumption
    PROVE  \E N \in Nat : Batch = 1 .. N
BY FS_CardinalityType DEF StarAssumption

LEMMA FiniteUpTo ==
    ASSUME NEW n \in Nat
    PROVE  IsFiniteSet(1 .. n)
BY FS_Interval

LEMMA RawIsTyped ==
    ASSUME StarAssumption, BronzeInv, NEW b \in Batch, NEW source \in Readable(b)
    PROVE  IsFrameOf(source, Raw(b)[source])
<1> DEFINE h == MaxOf(Holders(b, source))
<1>1. PICK N \in Nat : Batch = 1 .. N
  BY BatchesAreNumbers
<1>2. Holders(b, source) \subseteq 1 .. b /\ Holders(b, source) # {}
  BY DEF Holders, Readable
<1>3. IsFiniteSet(Holders(b, source)) /\ Holders(b, source) \subseteq Nat
  <2>1. b \in Nat
    BY <1>1
  <2>2. IsFiniteSet(1 .. b)
    BY <2>1, FiniteUpTo
  <2>3. Holders(b, source) \in SUBSET (1 .. b)
    BY <1>2
  <2>4. IsFiniteSet(Holders(b, source))
    BY <2>2, <2>3, FS_Subset
  <2>5. QED
    BY <1>2, <2>1, <2>4
<1>4. h \in Holders(b, source)
  BY <1>2, <1>3, Largest
<1>5. h \in Batch /\ source \in DOMAIN bronze[h]
  BY <1>1, <1>4 DEF Holders
<1>6. bronze[h] \in Deliveries[h]
  <2>1. bronze[h] # << >>
    BY <1>5
  <2>2. QED
    BY <1>5, <2>1 DEF BronzeInv
<1>7. IsFrameOf(source, bronze[h][source])
  BY <1>5, <1>6 DEF StarAssumption
<1>8. QED
  BY <1>7 DEF Raw, ReadBronze

LEMMA CleanIsTyped ==
    ASSUME StarAssumption, BronzeInv, NEW b \in Batch, NEW source \in Readable(b)
    PROVE  IsFrameOf(source, CleanBronze(b)[source])
<1> DEFINE clean == CleanBronze(b)[source]
           raw == Raw(b)[source]
<1>1. IsFrameOf(source, raw)
  BY RawIsTyped
<1>2. clean = CleanRows(source, raw, BuildFkLookups(Raw(b)))
  BY Checks
<1>3. \A i \in DOMAIN clean : i \in DOMAIN raw /\ clean[i] = raw[i]
  BY <1>2, CleanRow
<1> HIDE DEF clean, raw
<1>4. DOMAIN clean \subseteq Nat /\ IsFiniteSet(DOMAIN clean)
  <2>1. DOMAIN raw \subseteq Nat /\ IsFiniteSet(DOMAIN raw)
    BY <1>1 DEF IsFrameOf
  <2>2. DOMAIN clean \in SUBSET DOMAIN raw
    BY <1>3
  <2>3. QED
    BY <2>1, <2>2, FS_Subset
<1>5. ASSUME NEW i \in DOMAIN clean
      PROVE  CASE source = "players" -> /\ clean[i].player_id \in Player \cup {NULL}
                                        /\ TrackedColumns(clean[i]) \in Attr
               [] source = "games" ->
                    /\ {"game_id", "home_club_id", "away_club_id", "competition_id",
                        "home_club_goals", "away_club_goals"} \subseteq DOMAIN clean[i]
                    /\ {clean[i].home_club_goals, clean[i].away_club_goals} \subseteq Int \cup {NULL}
               [] source = "appearances" ->
                    /\ {"player_id", "game_id", "date", "goals"} \subseteq DOMAIN clean[i]
                    /\ clean[i].date \in (FAR_PAST_DATE .. FAR_FUTURE_DATE) \cup {NULL}
                    /\ clean[i].goals \in Int \cup {NULL}
               [] source = "player_valuations" ->
                    clean[i].date \in (FAR_PAST_DATE .. FAR_FUTURE_DATE - 1) \cup {NULL}
               [] OTHER -> TRUE
  BY <1>1, <1>3 DEF IsFrameOf
<1>6. IsFrameOf(source, clean)
  BY <1>4, <1>5 DEF IsFrameOf
<1>7. QED
  BY <1>6 DEF clean

(* Values of a column that come from a column of clean rows, and should be
   among those of another: what is not there is in quarantine.             *)
LEMMA Explained ==
    ASSUME RulesAssumption, NEW b, NEW source \in Checked, NEW referenced \in Readable(b),
           NEW column, NEW key, <<source, column, referenced, key>> \in ForeignKeys,
           NEW values, NEW among,
           source \in Readable(b) => values \subseteq Values(CleanBronze(b)[source], column),
           source \notin Readable(b) => values = {},
           Values(CleanBronze(b)[referenced], key) \subseteq among
    PROVE  values \ (among \cup {NULL}) \subseteq Values(Rejected(b)[referenced], key)
<1>1. CASE source \in Readable(b)
  <2> DEFINE lookups == BuildFkLookups(Raw(b))
             frames == Raw(b)
  <2>1. /\ CleanBronze(b)[source] = CleanRows(source, frames[source], lookups)
        /\ CleanBronze(b)[referenced] = CleanRows(referenced, frames[referenced], lookups)
        /\ Rejected(b)[referenced] = FailingRows(referenced, frames[referenced], lookups)
        /\ DOMAIN frames = Readable(b)
    BY <1>1, Checks
  <2> HIDE DEF frames
  <2>2. Values(CleanRows(source, frames[source], BuildFkLookups(frames)), column) \ {NULL}
            \subseteq
          Values(CleanRows(referenced, frames[referenced], BuildFkLookups(frames)), key) \cup
          Values(FailingRows(referenced, frames[referenced], BuildFkLookups(frames)), key)
    BY <1>1, <2>1, CleanReferences
  <2>3. Values(CleanBronze(b)[source], column) \ {NULL} \subseteq
            Values(CleanBronze(b)[referenced], key) \cup Values(Rejected(b)[referenced], key)
    BY <2>1, <2>2 DEF frames
  <2>4. QED
    BY <1>1, <2>3
<1>2. CASE source \notin Readable(b)
  BY <1>2
<1>3. QED
  BY <1>1, <1>2

-----------------------------------------------------------------------------
(* The builders *)

LEMMA GamesKeep ==
    ASSUME NEW frame, IsFrameOf("games", frame)
    PROVE  /\ DOMAIN build_fact_games(frame) = DOMAIN frame
           /\ \A c \in {"game_id", "home_club_id", "away_club_id", "competition_id",
                       "home_club_goals", "away_club_goals"} :
                 /\ \A i \in DOMAIN frame : build_fact_games(frame)[i][c] = frame[i][c]
                 /\ Values(build_fact_games(frame), c) = Values(frame, c)
<1> DEFINE kept == {"game_id", "home_club_id", "away_club_id", "competition_id",
                    "home_club_goals", "away_club_goals"}
<1>1. DOMAIN build_fact_games(frame) = DOMAIN frame
  BY DEF build_fact_games
<1>2. ASSUME NEW i \in DOMAIN frame, NEW c \in kept
      PROVE  build_fact_games(frame)[i][c] = frame[i][c]
  <2>1. c \in DOMAIN frame[i]
    BY DEF IsFrameOf
  <2>2. PICK columns : /\ DOMAIN columns = {"outcome", "season"}
                       /\ build_fact_games(frame)[i] = with_derived_columns(frame[i], columns)
    BY DEF build_fact_games
  <2>3. c \notin DOMAIN columns
    BY <2>2
  <2>4. QED
    BY <2>1, <2>2, <2>3 DEF with_derived_columns
<1>3. QED
  BY <1>1, <1>2 DEF Values

LEMMA AppearancesKeep ==
    ASSUME NEW frame, NEW dim_players, IsFrameOf("appearances", frame)
    PROVE  LET facts == build_fact_appearances(frame, dim_players)
           IN  /\ DOMAIN facts = DOMAIN frame
               /\ \A i \in DOMAIN frame :
                     LET sk == LookupPlayerSkAt(dim_players, frame[i].player_id, frame[i].date)
                     IN  /\ facts[i].season = derive_season(frame[i].date)
                         /\ facts[i].player_sk = IF sk = 0 THEN NULL ELSE sk
               /\ \A c \in {"player_id", "game_id", "date", "goals"} :
                     /\ \A i \in DOMAIN frame : facts[i][c] = frame[i][c]
                     /\ Values(facts, c) = Values(frame, c)
<1> DEFINE facts == build_fact_appearances(frame, dim_players)
           Sk(i) == LookupPlayerSkAt(dim_players, frame[i].player_id, frame[i].date)
           kept == {"player_id", "game_id", "date", "goals"}
<1>1. DOMAIN facts = DOMAIN frame
  BY DEF build_fact_appearances
<1>2. ASSUME NEW i \in DOMAIN frame
      PROVE  /\ facts[i].season = derive_season(frame[i].date)
             /\ facts[i].player_sk = IF Sk(i) = 0 THEN NULL ELSE Sk(i)
             /\ \A c \in kept : facts[i][c] = frame[i][c]
  <2>1. \A c \in kept : c \in DOMAIN frame[i]
    BY DEF IsFrameOf
  <2> DEFINE columns == [ season    |-> derive_season(frame[i].date),
                          player_sk |-> IF Sk(i) = 0 THEN NULL ELSE Sk(i) ]
  <2>2. facts[i] = with_derived_columns(frame[i], columns)
    BY DEF build_fact_appearances
  <2>3. /\ DOMAIN columns = {"season", "player_sk"}
        /\ columns["season"] = derive_season(frame[i].date)
        /\ columns["player_sk"] = IF Sk(i) = 0 THEN NULL ELSE Sk(i)
    OBVIOUS
  <2> HIDE DEF facts, columns, Sk
  <2>4. QED
    BY <2>1, <2>2, <2>3 DEF with_derived_columns
<1> HIDE DEF facts
<1>3. \A c \in kept : Values(facts, c) = Values(frame, c)
  BY <1>1, <1>2 DEF Values
<1>4. QED
  BY <1>1, <1>2, <1>3 DEF facts

LEMMA DatesAreNumbers ==
    ASSUME StarAssumption, NEW b \in Batch
    PROVE  DateOf[b] \in Nat
<1>1. DateOf[b] \in 1 .. FAR_FUTURE_DATE - 1
  BY DEF StarAssumption
<1>2. \A n : n \in 1 .. FAR_FUTURE_DATE - 1 => n \in Nat
  BY DEF FAR_FUTURE_DATE
<1>3. QED
  BY <1>1, <1>2

(* The dimension a batch builds on versions whose names agree. *)
LEMMA PlayersBuilt ==
    ASSUME StarAssumption, RulesAssumption, BronzeInv, NEW b \in Batch,
           "players" \in Readable(b),
           NEW existing \in Seq(Version), NamesAgree(Range(existing))
    PROVE  LET clean == CleanBronze(b)["players"]
               built == build_dim_players(clean, existing, DateOf[b])
           IN  /\ built \in Seq(Version)
               /\ NamesAgree(Range(existing) \cup Range(built))
               /\ Values(clean, "player_id") \subseteq Values(built, "player")
               /\ \A i \in DOMAIN built :
                     built[i].is_current /\ built[i].player \in Values(clean, "player_id") =>
                        built[i].attr.current_club_id \in Values(clean, "current_club_id")
<1> DEFINE clean    == CleanBronze(b)["players"]
           incoming == Tracked(clean)
           ts       == IF existing = << >> THEN FAR_PAST_DATE ELSE DateOf[b]
           built    == scd2_merge(existing, incoming, ts)
           X        == Range(existing)
           R        == Range(built)
<1>1. clean = CleanRows("players", Raw(b)["players"], BuildFkLookups(Raw(b)))
  BY Checks
<1>2. IsFrameOf("players", Raw(b)["players"])
  BY RawIsTyped
<1>3. /\ incoming \in Incoming
      /\ DOMAIN incoming = Values(clean, "player_id")
      /\ \A p \in DOMAIN incoming : \E i \in DOMAIN clean :
            incoming[p] = TrackedColumns(clean[i])
  BY <1>1, <1>2, TrackedIncoming
<1>4. ts \in Nat
  <2>1. DateOf[b] \in Nat
    BY DatesAreNumbers
  <2> HIDE DEF clean, incoming, built
  <2>2. QED
    BY <2>1 DEF FAR_PAST_DATE
<1>5. X \subseteq Version
  BY Positions DEF Range
<1> HIDE DEF clean, incoming, ts
<1>6. IsMergeOf(built, X, incoming, ts)
  BY <1>3, <1>4, MergeOfVersions
<1> HIDE DEF X, built
<1>7. built \in Seq(Version) /\ MergesTo(X, R, incoming, ts)
  BY <1>6 DEF IsMergeOf
<1>8. NamesAgree(X \cup R)
  <2>1. NamesAgree(X)
    BY DEF X
  <2>2. QED
    BY <1>4, <1>5, <1>7, <2>1, NamesOfMerge
<1>9. AsDelivered(R, incoming)
  BY <1>4, <1>5, <1>7, MergeDelivers
<1>10. Values(clean, "player_id") \subseteq Values(built, "player")
  <2>1. ASSUME NEW p \in DOMAIN incoming PROVE p \in Values(built, "player")
    <3>1. PICK v \in R : v.player = p
      BY <1>9 DEF AsDelivered
    <3>2. PICK i \in DOMAIN built : built[i] = v
      BY <3>1 DEF Range
    <3>3. QED
      BY <3>1, <3>2 DEF Values
  <2>2. QED
    BY <1>3, <2>1
<1>11. ASSUME NEW i \in DOMAIN built,
              built[i].is_current, built[i].player \in Values(clean, "player_id")
       PROVE  built[i].attr.current_club_id \in Values(clean, "current_club_id")
  <2>1. built[i] \in R
    BY DEF Range
  <2>2. built[i].attr = incoming[built[i].player]
    BY <1>3, <1>9, <1>11, <2>1 DEF AsDelivered
  <2>3. PICK k \in DOMAIN clean : built[i].attr = TrackedColumns(clean[k])
    BY <1>3, <1>11, <2>2
  <2>4. built[i].attr.current_club_id = clean[k].current_club_id
    BY <2>3 DEF TrackedColumns
  <2>5. QED
    BY <2>4 DEF Values
<1>12. build_dim_players(clean, existing, DateOf[b]) = built
  BY DEF build_dim_players, built, incoming, ts
<1>13. QED
  BY <1>7, <1>8, <1>10, <1>11, <1>12 DEF X, clean

(* Batch b has written the tables and the quarantine of its run. *)
BuiltFrom(b, existing) ==
    /\ existing \in Seq(Version) /\ NamesAgree(Range(existing))
    /\ silver[b] = Tables(b, existing)
    /\ rejected[b] = Rejected(b)

(* What the tables have. *)
LEMMA TablesHave ==
    ASSUME NEW b, NEW existing
    PROVE  LET tables == Tables(b, existing)
               clean == CleanBronze(b)
               players == build_dim_players(clean["players"], existing, DateOf[b])
           IN  /\ tables.dim_clubs = IF "clubs" \in Readable(b)
                        THEN Distinct(clean["clubs"], "club_id") ELSE NoFrame
               /\ tables.dim_competitions = IF "competitions" \in Readable(b)
                        THEN Distinct(clean["competitions"], "competition_id") ELSE NoFrame
               /\ tables.dim_players = IF "players" \in Readable(b) THEN players ELSE << >>
               /\ tables.fact_games = IF "games" \in Readable(b)
                        THEN build_fact_games(clean["games"]) ELSE NoFrame
               /\ tables.fact_appearances = IF {"players", "appearances"} \subseteq Readable(b)
                        THEN build_fact_appearances(clean["appearances"], players) ELSE NoFrame
<1>1. DOMAIN CleanBronze(b) = Readable(b)
  BY DEF CleanBronze
<1>2. QED
  BY <1>1 DEF Tables, build_dim_clubs, build_dim_competitions

LEMMA NoValues ==
    ASSUME NEW column
    PROVE  Values(NoFrame, column) = {}
BY DEF Values, NoFrame

(* The columns of the tables have values of clean rows, and none if the
   source was not read; the keys of the tables are all keys of clean rows. *)
LEMMA ClubValues ==
    ASSUME StarAssumption, BronzeInv, NEW b \in Batch, NEW existing, BuiltFrom(b, existing)
    PROVE  /\ "clubs" \in Readable(b) =>
                /\ \A c : Values(silver[b].dim_clubs, c)
                             \subseteq Values(CleanBronze(b)["clubs"], c)
                /\ Values(CleanBronze(b)["clubs"], "club_id")
                      \subseteq Values(silver[b].dim_clubs, "club_id")
           /\ "clubs" \notin Readable(b) => \A c : Values(silver[b].dim_clubs, c) = {}
<1>1. silver[b].dim_clubs = IF "clubs" \in Readable(b)
                THEN Distinct(CleanBronze(b)["clubs"], "club_id") ELSE NoFrame
  BY TablesHave DEF BuiltFrom
<1>2. CASE "clubs" \in Readable(b)
  <2> DEFINE clean == CleanBronze(b)["clubs"]
  <2>1. DOMAIN clean \subseteq Nat
    BY <1>2, CleanIsTyped DEF IsFrameOf
  <2> HIDE DEF clean
  <2>2. /\ \A j \in DOMAIN Distinct(clean, "club_id") :
              j \in DOMAIN clean /\ Distinct(clean, "club_id")[j] = clean[j]
        /\ Values(clean, "club_id") \subseteq Values(Distinct(clean, "club_id"), "club_id")
    BY <2>1, DistinctKeeps
  <2>3. \A c : Values(Distinct(clean, "club_id"), c) \subseteq Values(clean, c)
    BY <2>2 DEF Values
  <2>4. QED
    BY <1>1, <1>2, <2>2, <2>3 DEF clean
<1>3. CASE "clubs" \notin Readable(b)
  BY <1>1, <1>3, NoValues
<1>4. QED
  BY <1>2, <1>3

LEMMA CompetitionValues ==
    ASSUME StarAssumption, BronzeInv, NEW b \in Batch, NEW existing, BuiltFrom(b, existing),
           "competitions" \in Readable(b)
    PROVE  Values(CleanBronze(b)["competitions"], "competition_id")
              \subseteq Values(silver[b].dim_competitions, "competition_id")
<1> DEFINE clean == CleanBronze(b)["competitions"]
<1>1. silver[b].dim_competitions = Distinct(clean, "competition_id")
  BY TablesHave DEF BuiltFrom
<1>2. DOMAIN clean \subseteq Nat
  BY CleanIsTyped DEF IsFrameOf
<1> HIDE DEF clean
<1>3. Values(clean, "competition_id") \subseteq
        Values(Distinct(clean, "competition_id"), "competition_id")
  BY <1>2, DistinctKeeps
<1>4. QED
  BY <1>1, <1>3 DEF clean

LEMMA GameValues ==
    ASSUME StarAssumption, BronzeInv, NEW b \in Batch, NEW existing, BuiltFrom(b, existing),
           NEW c \in {"game_id", "home_club_id", "away_club_id", "competition_id"}
    PROVE  /\ "games" \in Readable(b) =>
                Values(silver[b].fact_games, c) = Values(CleanBronze(b)["games"], c)
           /\ "games" \notin Readable(b) => Values(silver[b].fact_games, c) = {}
<1>1. silver[b].fact_games = IF "games" \in Readable(b)
                THEN build_fact_games(CleanBronze(b)["games"]) ELSE NoFrame
  BY TablesHave DEF BuiltFrom
<1>2. CASE "games" \in Readable(b)
  <2>1. IsFrameOf("games", CleanBronze(b)["games"])
    BY <1>2, CleanIsTyped
  <2>2. QED
    BY <1>1, <1>2, <2>1, GamesKeep
<1>3. CASE "games" \notin Readable(b)
  BY <1>1, <1>3, NoValues
<1>4. QED
  BY <1>2, <1>3

LEMMA AppearanceValues ==
    ASSUME StarAssumption, BronzeInv, NEW b \in Batch, NEW existing, BuiltFrom(b, existing),
           NEW c \in {"player_id", "game_id"}
    PROVE  /\ "appearances" \in Readable(b) =>
                Values(silver[b].fact_appearances, c)
                    \subseteq Values(CleanBronze(b)["appearances"], c)
           /\ "appearances" \notin Readable(b) => Values(silver[b].fact_appearances, c) = {}
<1> DEFINE players == build_dim_players(CleanBronze(b)["players"], existing, DateOf[b])
<1>1. silver[b].fact_appearances = IF {"players", "appearances"} \subseteq Readable(b)
                THEN build_fact_appearances(CleanBronze(b)["appearances"], players) ELSE NoFrame
  BY TablesHave DEF BuiltFrom
<1> HIDE DEF players
<1>2. CASE {"players", "appearances"} \subseteq Readable(b)
  <2>1. IsFrameOf("appearances", CleanBronze(b)["appearances"])
    BY <1>2, CleanIsTyped
  <2>2. Values(build_fact_appearances(CleanBronze(b)["appearances"], players), c)
          = Values(CleanBronze(b)["appearances"], c)
    BY <2>1, AppearancesKeep
  <2>3. QED
    BY <1>1, <1>2, <2>2
<1>3. CASE ~({"players", "appearances"} \subseteq Readable(b))
  BY <1>1, <1>3, NoValues
<1>4. QED
  BY <1>2, <1>3

(* Each reference of the tables to a source that was read. *)
LEMMA ReferencesAreExplained ==
    ASSUME StarAssumption, RulesAssumption, BronzeInv, NEW b \in Batch,
           NEW existing, BuiltFrom(b, existing),
           NEW ref \in SilverReferences(b), ref.source \in Readable(b)
    PROVE  ref.values \ (ref.among \cup {NULL})
              \subseteq Values(Rejected(b)[ref.source], ref.column)
<1> DEFINE t == silver[b]
           clean == CleanBronze(b)
           ofBatch == Values(clean["players"], "player_id")
           current == {i \in DOMAIN t.dim_players : t.dim_players[i].is_current
                                                     /\ t.dim_players[i].player \in ofBatch}
           clubsOf == {t.dim_players[i].attr.current_club_id : i \in current}
           Reference(values, among, source, column) ==
               [values |-> values, among |-> among, source |-> source, column |-> column]
           clubs == Values(t.dim_clubs, "club_id")
           competitions == Values(t.dim_competitions, "competition_id")
<1>1. ref \in { Reference(Values(t.dim_clubs, "domestic_competition_id"), competitions,
                          "competitions", "competition_id"),
                Reference(clubsOf, clubs, "clubs", "club_id"),
                Reference(Values(t.fact_games, "home_club_id"), clubs, "clubs", "club_id"),
                Reference(Values(t.fact_games, "away_club_id"), clubs, "clubs", "club_id"),
                Reference(Values(t.fact_games, "competition_id"), competitions,
                          "competitions", "competition_id"),
                Reference(Values(t.fact_appearances, "player_id"), Values(t.dim_players, "player"),
                          "players", "player_id"),
                Reference(Values(t.fact_appearances, "game_id"), Values(t.fact_games, "game_id"),
                          "games", "game_id") }
  BY DEF SilverReferences
<1> HIDE DEF t, clubsOf, clubs, competitions
<1>2. {"clubs", "competitions", "players", "games", "appearances"} \subseteq Checked
  BY DEF Checked
<1>3. /\ <<"clubs", "domestic_competition_id", "competitions", "competition_id">> \in ForeignKeys
      /\ <<"players", "current_club_id", "clubs", "club_id">> \in ForeignKeys
      /\ <<"games", "home_club_id", "clubs", "club_id">> \in ForeignKeys
      /\ <<"games", "away_club_id", "clubs", "club_id">> \in ForeignKeys
      /\ <<"games", "competition_id", "competitions", "competition_id">> \in ForeignKeys
      /\ <<"appearances", "player_id", "players", "player_id">> \in ForeignKeys
      /\ <<"appearances", "game_id", "games", "game_id">> \in ForeignKeys
  BY DEF ForeignKeys
<1>4. "competitions" \in Readable(b) =>
          Values(clean["competitions"], "competition_id") \subseteq competitions
  BY CompetitionValues DEF competitions, t
<1>5. "clubs" \in Readable(b) => Values(clean["clubs"], "club_id") \subseteq clubs
  BY ClubValues DEF clubs, t
<1>6. CASE ref = Reference(Values(t.dim_clubs, "domestic_competition_id"), competitions,
                           "competitions", "competition_id")
  <2> DEFINE values == Values(t.dim_clubs, "domestic_competition_id")
  <2>1. /\ "clubs" \in Readable(b) =>
              values \subseteq Values(clean["clubs"], "domestic_competition_id")
        /\ "clubs" \notin Readable(b) => values = {}
    BY ClubValues DEF t
  <2>2. /\ ref.values = values /\ ref.among = competitions
        /\ ref.source = "competitions" /\ ref.column = "competition_id"
    BY <1>6
  <2> HIDE DEF values
  <2>3. QED
    BY <1>2, <1>3, <1>4, <2>1, <2>2, Explained
<1>7. CASE ref = Reference(clubsOf, clubs, "clubs", "club_id")
  <2>1. /\ "players" \in Readable(b) =>
              clubsOf \subseteq Values(clean["players"], "current_club_id")
        /\ "players" \notin Readable(b) => clubsOf = {}
    <3> DEFINE built == build_dim_players(clean["players"], existing, DateOf[b])
    <3>1. t.dim_players = IF "players" \in Readable(b) THEN built ELSE << >>
      BY TablesHave DEF BuiltFrom, t
    <3> HIDE DEF built
    <3>2. CASE "players" \in Readable(b)
      <4>1. \A i \in DOMAIN built : built[i].is_current /\ built[i].player \in ofBatch =>
               built[i].attr.current_club_id \in Values(clean["players"], "current_club_id")
        BY <3>2, PlayersBuilt DEF BuiltFrom, built
      <4>2. QED
        BY <3>1, <3>2, <4>1 DEF clubsOf
    <3>3. CASE "players" \notin Readable(b)
      BY <3>1, <3>3 DEF clubsOf
    <3>4. QED
      BY <3>2, <3>3
  <2>2. /\ ref.values = clubsOf /\ ref.among = clubs
        /\ ref.source = "clubs" /\ ref.column = "club_id"
    BY <1>7
  <2>3. QED
    BY <1>2, <1>3, <1>5, <2>1, <2>2, Explained
<1>8. ASSUME NEW column \in {"home_club_id", "away_club_id"},
             ref = Reference(Values(t.fact_games, column), clubs, "clubs", "club_id")
      PROVE  ref.values \ (ref.among \cup {NULL})
                \subseteq Values(Rejected(b)[ref.source], ref.column)
  <2> DEFINE values == Values(t.fact_games, column)
  <2>1. /\ "games" \in Readable(b) => values \subseteq Values(clean["games"], column)
        /\ "games" \notin Readable(b) => values = {}
    BY GameValues DEF t
  <2>2. /\ ref.values = values /\ ref.among = clubs
        /\ ref.source = "clubs" /\ ref.column = "club_id"
    BY <1>8
  <2>3. <<"games", column, "clubs", "club_id">> \in ForeignKeys
    BY <1>3
  <2> HIDE DEF values
  <2>4. QED
    BY <1>2, <1>5, <2>1, <2>2, <2>3, Explained
<1>9. CASE ref = Reference(Values(t.fact_games, "competition_id"), competitions,
                           "competitions", "competition_id")
  <2> DEFINE values == Values(t.fact_games, "competition_id")
  <2>1. /\ "games" \in Readable(b) => values \subseteq Values(clean["games"], "competition_id")
        /\ "games" \notin Readable(b) => values = {}
    BY GameValues DEF t
  <2>2. /\ ref.values = values /\ ref.among = competitions
        /\ ref.source = "competitions" /\ ref.column = "competition_id"
    BY <1>9
  <2> HIDE DEF values
  <2>3. QED
    BY <1>2, <1>3, <1>4, <2>1, <2>2, Explained
<1>10. CASE ref = Reference(Values(t.fact_appearances, "player_id"),
                            Values(t.dim_players, "player"), "players", "player_id")
  <2> DEFINE values == Values(t.fact_appearances, "player_id")
             among == Values(t.dim_players, "player")
  <2>1. /\ "appearances" \in Readable(b) =>
              values \subseteq Values(clean["appearances"], "player_id")
        /\ "appearances" \notin Readable(b) => values = {}
    BY AppearanceValues DEF t
  <2>2. /\ ref.values = values /\ ref.among = among
        /\ ref.source = "players" /\ ref.column = "player_id"
    BY <1>10
  <2>3. Values(clean["players"], "player_id") \subseteq among
    <3>1. "players" \in Readable(b)
      BY <2>2
    <3>2. t.dim_players = build_dim_players(clean["players"], existing, DateOf[b])
      BY <3>1, TablesHave DEF BuiltFrom, t
    <3>3. QED
      BY <3>1, <3>2, PlayersBuilt DEF BuiltFrom
  <2> HIDE DEF values, among
  <2>4. QED
    BY <1>2, <1>3, <2>1, <2>2, <2>3, Explained
<1>11. CASE ref = Reference(Values(t.fact_appearances, "game_id"),
                            Values(t.fact_games, "game_id"), "games", "game_id")
  <2> DEFINE values == Values(t.fact_appearances, "game_id")
             among == Values(t.fact_games, "game_id")
  <2>1. /\ "appearances" \in Readable(b) => values \subseteq Values(clean["appearances"], "game_id")
        /\ "appearances" \notin Readable(b) => values = {}
    BY AppearanceValues DEF t
  <2>2. /\ ref.values = values /\ ref.among = among
        /\ ref.source = "games" /\ ref.column = "game_id"
    BY <1>11
  <2>3. Values(clean["games"], "game_id") \subseteq among
    BY <2>2, GameValues DEF t
  <2> HIDE DEF values, among
  <2>4. QED
    BY <1>2, <1>3, <2>1, <2>2, <2>3, Explained
<1> HIDE DEF Reference
<1>12. QED
  BY <1>1, <1>6, <1>7, <1>8, <1>9, <1>10, <1>11

-----------------------------------------------------------------------------
(* Batches one after the other *)

Stages == {"waiting", "landed", "stopped", "built", "passed", "done"}
Ran(b) == stage[b] \in Stages \ {"waiting", "landed"}

StarTypeInv ==
    /\ BronzeInv
    /\ DOMAIN bronze = Batch /\ DOMAIN silver = Batch /\ DOMAIN rejected = Batch
    /\ stage \in [Batch -> Stages]
    /\ \A b \in Batch : silver[b].dim_players \in Seq(Version)

(* What a batch reads has landed before it. *)
OneByOne ==
    \A b \in Batch : stage[b] # "waiting" => \A p \in 1 .. b : stage[p] # "waiting"

PlayerVersions == UNION {Range(silver[b].dim_players) : b \in Batch}

VersionsInv == NamesAgree(PlayerVersions)

TablesInv ==
    \A b \in Batch : IF Ran(b) THEN \E existing : BuiltFrom(b, existing) ELSE rejected[b] = << >>

StarInv == StarTypeInv /\ OneByOne /\ VersionsInv /\ TablesInv

LEMMA StarInit ==
    StarAssumption /\ Init => StarInv
<1> SUFFICES ASSUME StarAssumption, Init PROVE StarInv
  OBVIOUS
<1>1. \A b \in Batch : silver[b].dim_players = << >> /\ stage[b] = "waiting"
                       /\ rejected[b] = << >> /\ bronze[b] = << >>
  BY DEF Init, NoTables
<1>2. StarTypeInv
  <2>1. \A b \in Batch : silver[b].dim_players \in Seq(Version)
    <3>1. << >> \in Seq(Version)
      OBVIOUS
    <3>2. QED
      BY <1>1, <3>1
  <2>2. stage \in [Batch -> Stages] /\ BronzeInv
    BY <1>1 DEF Init, Stages, BronzeInv
  <2>3. QED
    BY <2>1, <2>2 DEF Init, StarTypeInv
<1>3. OneByOne
  BY <1>1 DEF OneByOne
<1>4. VersionsInv
  <2>1. \A b \in Batch : Range(silver[b].dim_players) = {}
    BY <1>1 DEF Range
  <2>2. PlayerVersions = {}
    BY <2>1 DEF PlayerVersions
  <2>3. QED
    BY <2>2 DEF VersionsInv, NamesAgree
<1>5. TablesInv
  BY <1>1 DEF TablesInv, Ran
<1>6. QED
  BY <1>2, <1>3, <1>4, <1>5 DEF StarInv

(* A batch reads what has landed up to it. *)
LEMMA SameReads ==
    ASSUME NEW b \in Nat, \A p \in 1 .. b : bronze'[p] = bronze[p]
    PROVE  /\ Readable(b)' = Readable(b) /\ CleanBronze(b)' = CleanBronze(b)
           /\ Rejected(b)' = Rejected(b)
           /\ \A existing : Tables(b, existing)' = Tables(b, existing)
<1>1. \A source : Holders(b, source)' = Holders(b, source)
  BY DEF Holders
<1>2. Readable(b)' = Readable(b)
  BY <1>1 DEF Readable
<1>3. ASSUME NEW source \in Readable(b)
      PROVE  ReadBronze(b, source)' = ReadBronze(b, source)
  <2>1. Holders(b, source) \subseteq 1 .. b /\ Holders(b, source) # {}
    BY DEF Holders, Readable
  <2>2. IsFiniteSet(Holders(b, source)) /\ Holders(b, source) \subseteq Nat
    <3>1. IsFiniteSet(1 .. b)
      BY FS_Interval
    <3>2. Holders(b, source) \in SUBSET (1 .. b)
      BY <2>1
    <3>3. IsFiniteSet(Holders(b, source))
      BY <3>1, <3>2, FS_Subset
    <3>4. QED
      BY <2>1, <3>3
  <2>3. MaxOf(Holders(b, source)) \in 1 .. b
    BY <2>1, <2>2, Largest
  <2>4. ReadBronze(b, source)' = bronze'[MaxOf(Holders(b, source))][source]
    BY <1>1 DEF ReadBronze
  <2>5. QED
    BY <2>3, <2>4 DEF ReadBronze
<1>4. FkLookups(b)' = FkLookups(b)
  <2>1. [source \in Readable(b) |-> ReadBronze(b, source)]' =
          [source \in Readable(b) |-> ReadBronze(b, source)]
    BY <1>2, <1>3
  <2>2. QED
    BY <2>1 DEF FkLookups
<1>5. Rejected(b)' = Rejected(b) /\ CleanBronze(b)' = CleanBronze(b)
  BY <1>2, <1>3, <1>4 DEF Rejected, CleanBronze
<1>6. QED
  BY <1>2, <1>5 DEF Tables

(* A batch that has run keeps its tables as long as what it read stays. *)
LEMMA StaysBuilt ==
    ASSUME NEW b \in Nat, NEW existing, BuiltFrom(b, existing),
           \A p \in 1 .. b : bronze'[p] = bronze[p],
           silver'[b] = silver[b], rejected'[b] = rejected[b]
    PROVE  BuiltFrom(b, existing)'
BY SameReads DEF BuiltFrom

(* The steps that write no Silver table: what landed before stays. *)
LEMMA Unwritten ==
    ASSUME StarAssumption, StarInv, silver' = silver, rejected' = rejected,
           \A b \in Batch : Ran(b)' => Ran(b),
           \A b \in Batch : Ran(b) => Ran(b)',
           \A b \in Batch : stage[b] # "waiting" => bronze'[b] = bronze[b]
    PROVE  VersionsInv' /\ TablesInv'
<1>1. PICK N \in Nat : Batch = 1 .. N
  BY BatchesAreNumbers
<1>2. VersionsInv'
  BY DEF StarInv, VersionsInv, PlayerVersions, NamesAgree
<1>3. ASSUME NEW b \in Batch, Ran(b)
      PROVE  \E existing : BuiltFrom(b, existing)'
  <2>1. PICK existing : BuiltFrom(b, existing)
    BY <1>3 DEF StarInv, TablesInv
  <2>2. b \in Nat /\ \A p \in 1 .. b : p \in Batch
    BY <1>1
  <2>3. \A p \in 1 .. b : bronze'[p] = bronze[p]
    BY <1>3, <2>2 DEF StarInv, OneByOne, Ran
  <2>4. QED
    BY <2>1, <2>2, <2>3, StaysBuilt
<1>4. TablesInv'
  BY <1>3 DEF StarInv, TablesInv
<1>5. QED
  BY <1>2, <1>4

LEMMA LandKeeps ==
    ASSUME StarAssumption, StarInv, NEW b \in Batch, Land(b)
    PROVE  StarInv'
<1>1. PICK N \in Nat : Batch = 1 .. N
  BY BatchesAreNumbers
<1>2. /\ stage[b] = "waiting" /\ stage' = [stage EXCEPT ![b] = "landed"]
      /\ b > 1 => stage[b - 1] \in {"stopped", "done"}
      /\ silver' = silver /\ rejected' = rejected
  BY DEF Land
<1>3. PICK delivery \in Deliveries[b] : bronze' = [bronze EXCEPT ![b] = delivery]
  BY DEF Land
<1>4. stage \in [Batch -> Stages] /\ stage'[b] = "landed"
      /\ \A c \in Batch \ {b} : stage'[c] = stage[c]
  BY <1>2 DEF StarInv, StarTypeInv
<1>5. StarTypeInv'
  <2>1. stage' \in [Batch -> Stages]
    BY <1>2, <1>4 DEF Stages
  <2>2. BronzeInv' /\ DOMAIN bronze' = Batch
    BY <1>3 DEF StarInv, StarTypeInv, BronzeInv
  <2>3. QED
    BY <1>2, <2>1, <2>2 DEF StarInv, StarTypeInv
<1>6. \A p \in 1 .. b - 1 : stage[p] # "waiting"
  <2>1. CASE b = 1
    BY <2>1
  <2>2. CASE b # 1
    <3>1. b - 1 \in Batch /\ b > 1
      BY <1>1, <2>2
    <3>2. stage[b - 1] # "waiting"
      BY <1>2, <3>1
    <3>3. QED
      BY <3>1, <3>2 DEF StarInv, OneByOne
  <2>3. QED
    BY <2>1, <2>2
<1>7. OneByOne'
  <2>1. ASSUME NEW c \in Batch, stage'[c] # "waiting", NEW p \in 1 .. c
        PROVE  stage'[p] # "waiting"
    <3>1. p \in Batch /\ p \in Nat /\ c \in Nat /\ b \in Nat
      BY <1>1
    <3>2. CASE p = b
      BY <1>4, <3>2
    <3>3. CASE p # b /\ c = b
      <4>1. p \in 1 .. b - 1
        BY <3>1, <3>3
      <4>2. QED
        BY <1>4, <1>6, <3>1, <3>3, <4>1
    <3>4. CASE p # b /\ c # b
      BY <1>4, <2>1, <3>1, <3>4 DEF StarInv, OneByOne
    <3>5. QED
      BY <3>2, <3>3, <3>4
  <2>2. QED
    BY <2>1 DEF OneByOne
<1>8. VersionsInv' /\ TablesInv'
  <2>1. \A c \in Batch : Ran(c)' <=> Ran(c)
    BY <1>2, <1>4 DEF Ran
  <2>2. \A c \in Batch : stage[c] # "waiting" => bronze'[c] = bronze[c]
    BY <1>2, <1>3 DEF StarInv, StarTypeInv
  <2>3. QED
    BY <1>2, <2>1, <2>2, Unwritten
<1>9. QED
  BY <1>5, <1>7, <1>8 DEF StarInv

LEMMA ExistingVersions ==
    ASSUME StarAssumption, StarInv
    PROVE  /\ ExistingDimPlayers \in Seq(Version)
           /\ Range(ExistingDimPlayers) = PlayerVersions
<1>1. PICK N \in Nat : Batch = 1 .. N
  BY BatchesAreNumbers
<1>2. PICK s : s = [b \in Batch |-> silver[b].dim_players]
  OBVIOUS
<1>3. s \in [1 .. N -> Seq(Version)]
  BY <1>1, <1>2 DEF StarInv, StarTypeInv
<1>4. FlattenSeq(s) \in Seq(Version) /\ Range(FlattenSeq(s)) = UNION {Range(s[i]) : i \in 1 .. N}
  <2>1. \A x \in [1 .. N -> Seq(Version)] :
           /\ FlattenSeq(x) \in Seq(Version)
           /\ Range(FlattenSeq(x)) = UNION {Range(x[i]) : i \in 1 .. N}
    BY Flattened
  <2>2. QED
    BY <1>3, <2>1
<1>5. \A b \in Batch : s[b] = silver[b].dim_players
  BY <1>2
<1>6. UNION {Range(s[i]) : i \in 1 .. N} = PlayerVersions
  BY <1>1, <1>5 DEF PlayerVersions
<1>7. QED
  BY <1>2, <1>4, <1>6 DEF ExistingDimPlayers

(* The stages in which the runs of Silver, the gate and Gold leave a batch
   come after it has landed.                                               *)
LEMMA MovesOn ==
    ASSUME StarInv, NEW b \in Batch, stage[b] \in Stages \ {"waiting"},
           NEW next \in Stages \ {"waiting", "landed"}, stage' = [stage EXCEPT ![b] = next]
    PROVE  /\ stage' \in [Batch -> Stages] /\ stage'[b] = next
           /\ \A c \in Batch \ {b} : stage'[c] = stage[c]
           /\ \A c : c \in Batch => (stage'[c] = "waiting" <=> stage[c] = "waiting")
           /\ OneByOne'
<1>1. stage \in [Batch -> Stages]
  BY DEF StarInv, StarTypeInv
<1>2. /\ stage' \in [Batch -> Stages] /\ stage'[b] = next
      /\ \A c \in Batch \ {b} : stage'[c] = stage[c]
  BY <1>1
<1>3. \A c : c \in Batch => (stage'[c] = "waiting" <=> stage[c] = "waiting")
  BY <1>2
<1>4. OneByOne'
  <2>1. ASSUME NEW c \in Batch, stage'[c] # "waiting", NEW p \in 1 .. c
        PROVE  stage'[p] # "waiting"
    <3>1. stage[c] # "waiting"
      BY <1>3, <2>1
    <3>2. stage[p] # "waiting"
      BY <3>1 DEF StarInv, OneByOne
    <3>3. QED
      BY <1>1, <1>2, <1>3, <3>2
  <2>2. QED
    BY <2>1 DEF OneByOne
<1>5. QED
  BY <1>2, <1>3, <1>4

LEMMA RunSilverKeeps ==
    ASSUME StarAssumption, RulesAssumption, StarInv, NEW b \in Batch, RunSilver(b)
    PROVE  StarInv'
<1>0. PICK E : E = ExistingDimPlayers
  OBVIOUS
<1> DEFINE tables == Tables(b, E)
<1>1. PICK N \in Nat : Batch = 1 .. N
  BY BatchesAreNumbers
<1>2. /\ stage[b] = "landed" /\ rejected' = [rejected EXCEPT ![b] = Rejected(b)]
      /\ silver' = [silver EXCEPT ![b] = tables] /\ bronze' = bronze
  BY <1>0 DEF RunSilver
<1>3. PICK next \in {"built", "stopped"} : stage' = [stage EXCEPT ![b] = next]
  BY DEF RunSilver
<1>4. /\ stage' \in [Batch -> Stages] /\ stage'[b] = next
      /\ \A c \in Batch \ {b} : stage'[c] = stage[c]
      /\ OneByOne'
  BY <1>2, <1>3, MovesOn DEF Stages
<1>5. E \in Seq(Version) /\ Range(E) = PlayerVersions /\ NamesAgree(Range(E))
  <2>1. E \in Seq(Version) /\ Range(E) = PlayerVersions
    BY <1>0, ExistingVersions
  <2>2. QED
    BY <2>1 DEF StarInv, VersionsInv
<1>6. /\ tables.dim_players \in Seq(Version)
      /\ NamesAgree(PlayerVersions \cup Range(tables.dim_players))
  <2> DEFINE built == build_dim_players(CleanBronze(b)["players"], E, DateOf[b])
  <2>1. tables.dim_players = IF "players" \in Readable(b) THEN built ELSE << >>
    BY TablesHave
  <2> HIDE DEF tables, built
  <2>2. CASE "players" \in Readable(b)
    <3>1. built \in Seq(Version) /\ NamesAgree(Range(E) \cup Range(built))
      BY <1>5, <2>2, PlayersBuilt DEF StarInv, StarTypeInv, built
    <3>2. QED
      BY <1>5, <2>1, <2>2, <3>1
  <2>3. CASE "players" \notin Readable(b)
    <3>1. tables.dim_players = << >> /\ Range(<< >>) = {}
      BY <2>1, <2>3 DEF Range
    <3>2. << >> \in Seq(Version) /\ PlayerVersions \cup {} = PlayerVersions
      OBVIOUS
    <3>3. QED
      BY <1>5, <3>1, <3>2
  <2>4. QED
    BY <2>2, <2>3
<1> HIDE DEF tables
<1>7. /\ DOMAIN silver' = Batch /\ DOMAIN rejected' = Batch
      /\ silver'[b] = tables /\ rejected'[b] = Rejected(b)
      /\ \A c \in Batch \ {b} : silver'[c] = silver[c] /\ rejected'[c] = rejected[c]
  BY <1>2 DEF StarInv, StarTypeInv
<1>8. StarTypeInv'
  <2>1. \A c \in Batch : silver'[c].dim_players \in Seq(Version)
    BY <1>6, <1>7 DEF StarInv, StarTypeInv
  <2>2. BronzeInv' /\ DOMAIN bronze' = Batch
    BY <1>2 DEF StarInv, StarTypeInv, BronzeInv
  <2>3. QED
    BY <1>4, <1>7, <2>1, <2>2 DEF StarTypeInv
<1>9. VersionsInv'
  <2>1. PlayerVersions' \subseteq PlayerVersions \cup Range(tables.dim_players)
    BY <1>7 DEF PlayerVersions
  <2>2. QED
    BY <1>6, <2>1 DEF VersionsInv, NamesAgree
<1>10. TablesInv'
  <2>1. ASSUME NEW c \in Batch \ {b}, Ran(c)
        PROVE  \E existing : BuiltFrom(c, existing)'
    <3>1. PICK existing : BuiltFrom(c, existing)
      BY <2>1 DEF StarInv, TablesInv
    <3>2. c \in Nat /\ \A p \in 1 .. c : bronze'[p] = bronze[p]
      BY <1>1, <1>2
    <3>3. QED
      BY <1>7, <3>1, <3>2, StaysBuilt
  <2>2. BuiltFrom(b, E)'
    <3>1. b \in Nat /\ \A p \in 1 .. b : bronze'[p] = bronze[p]
      BY <1>1, <1>2
    <3>2. Rejected(b)' = Rejected(b) /\ \A existing : Tables(b, existing)' = Tables(b, existing)
      BY <3>1, SameReads
    <3>3. QED
      BY <1>5, <1>7, <3>2 DEF BuiltFrom, tables
  <2>3. QED
    BY <1>4, <1>7, <2>1, <2>2 DEF StarInv, TablesInv, Ran
<1>11. QED
  BY <1>4, <1>8, <1>9, <1>10 DEF StarInv

(* The gate and Gold only move a batch on. *)
LEMMA LaterKeeps ==
    ASSUME StarAssumption, StarInv, NEW b \in Batch, DqGate(b) \/ RunGold(b)
    PROVE  StarInv'
<1>1. PICK next \in {"stopped", "passed", "done"} : stage' = [stage EXCEPT ![b] = next]
  BY DEF DqGate, RunGold
<1>2. /\ stage[b] \in {"built", "passed"}
      /\ bronze' = bronze /\ silver' = silver /\ rejected' = rejected
  BY DEF DqGate, RunGold
<1>3. /\ stage' \in [Batch -> Stages] /\ stage'[b] = next
      /\ \A c \in Batch \ {b} : stage'[c] = stage[c]
      /\ OneByOne'
  BY <1>1, <1>2, MovesOn DEF Stages
<1>4. StarTypeInv'
  BY <1>2, <1>3 DEF StarInv, StarTypeInv, BronzeInv
<1>5. \A c \in Batch : Ran(c)' <=> Ran(c)
  BY <1>2, <1>3 DEF Ran, Stages
<1>6. VersionsInv' /\ TablesInv'
  BY <1>2, <1>5, Unwritten
<1>7. QED
  BY <1>3, <1>4, <1>6 DEF StarInv

LEMMA StarRests ==
    ASSUME StarAssumption, StarInv, UNCHANGED vars
    PROVE  StarInv'
<1>1. bronze' = bronze /\ silver' = silver /\ rejected' = rejected /\ stage' = stage
  BY DEF vars
<1>2. StarTypeInv' /\ OneByOne'
  BY <1>1 DEF StarInv, StarTypeInv, BronzeInv, OneByOne
<1>3. \A c \in Batch : Ran(c)' <=> Ran(c)
  BY <1>1 DEF Ran
<1>4. VersionsInv' /\ TablesInv'
  BY <1>1, <1>3, Unwritten
<1>5. QED
  BY <1>2, <1>4 DEF StarInv

LEMMA StarIsInvariant == Spec => []StarInv
<1>1. Init => StarInv
  BY StarInit, StarAssumption
<1>2. StarInv /\ [Next]_vars => StarInv'
  <2> SUFFICES ASSUME StarInv, [Next]_vars PROVE StarInv'
    OBVIOUS
  <2>1. ASSUME NEW b \in Batch, Land(b) PROVE StarInv'
    BY <2>1, LandKeeps, StarAssumption
  <2>2. ASSUME NEW b \in Batch, RunSilver(b) PROVE StarInv'
    BY <2>2, RunSilverKeeps, StarAssumption, RulesAssumption
  <2>3. ASSUME NEW b \in Batch, DqGate(b) \/ RunGold(b) PROVE StarInv'
    BY <2>3, LaterKeeps, StarAssumption
  <2>4. CASE UNCHANGED vars
    BY <2>4, StarRests, StarAssumption
  <2>5. QED
    BY <2>1, <2>2, <2>3, <2>4 DEF Next
<1>3. QED
  BY <1>1, <1>2, PTL DEF Spec

(* Whatever lands, in any number of batches, a Silver table refers to nothing
   only where the quarantine of the same batch has the row referred to: the
   foreign key rules look in the raw rows of the referenced source
   (dq/runner.py:117), and every key that is clean there is in the table the
   builders make of the clean rows.                                        *)
THEOREM DanglingIsExplained == Spec => []DanglingOnlyThroughQuarantine
<1>1. ASSUME StarInv PROVE DanglingOnlyThroughQuarantine
  <2>1. ASSUME NEW b \in Batch, NEW ref \in SilverReferences(b), ref.source \in DOMAIN rejected[b]
        PROVE  ref.values \ (ref.among \cup {NULL})
                  \subseteq Values(rejected[b][ref.source], ref.column)
    <3>1. rejected[b] # << >>
      BY <2>1
    <3>2. PICK existing : BuiltFrom(b, existing)
      BY <1>1, <3>1 DEF StarInv, TablesInv
    <3>3. rejected[b] = Rejected(b) /\ DOMAIN Rejected(b) = Readable(b)
      BY <3>2 DEF BuiltFrom, Rejected
    <3>4. ref.values \ (ref.among \cup {NULL})
             \subseteq Values(Rejected(b)[ref.source], ref.column)
      BY <1>1, <2>1, <3>2, <3>3, ReferencesAreExplained, StarAssumption, RulesAssumption
         DEF StarInv, StarTypeInv
    <3>5. QED
      BY <3>3, <3>4
  <2>2. QED
    BY <2>1 DEF DanglingOnlyThroughQuarantine
<1>2. QED
  BY <1>1, StarIsInvariant, PTL

-----------------------------------------------------------------------------
(* The first batch in the lake *)

(* No earlier batch has left anything in Silver, whether or not there is Gold. *)
Alone(b) == \A p \in 1 .. b - 1 : silver[p] = NoTables

(* A batch begins when those before it are over. *)
SettledBefore ==
    \A b \in Batch : stage[b] # "waiting" =>
        \A p \in 1 .. b - 1 : stage[p] \in {"stopped", "done"}

NothingYet ==
    /\ DOMAIN gold = Batch
    /\ \A b \in Batch : ~Ran(b) => silver[b] = NoTables
    /\ \A b \in Batch : stage[b] # "done" => gold[b] = NULL

ReadAll == \A b \in Batch : stage[b] \in {"built", "passed", "done"} => Readable(b) = Checked

FirstBuilt == \A b \in Batch : Ran(b) /\ Alone(b) => silver[b] = Tables(b, << >>)

FirstInv == SettledBefore /\ NothingYet /\ ReadAll /\ FirstBuilt

(* While a batch is under way, no other one has anything in Silver but those
   before it.                                                              *)
LEMMA LaterIsEmpty ==
    ASSUME StarAssumption, StarInv, FirstInv, NEW b \in Batch,
           stage[b] \in {"landed", "built", "passed"}
    PROVE  \A c \in Batch : c > b => silver[c] = NoTables
<1>1. PICK N \in Nat : Batch = 1 .. N
  BY BatchesAreNumbers
<1>2. ASSUME NEW c \in Batch, c > b
      PROVE  silver[c] = NoTables
  <2>1. b \in 1 .. c - 1
    BY <1>1, <1>2
  <2>2. stage[c] = "waiting"
    BY <2>1 DEF FirstInv, SettledBefore
  <2>3. QED
    BY <2>2 DEF FirstInv, NothingYet, Ran
<1>3. QED
  BY <1>2

LEMMA AloneInTheLake ==
    ASSUME StarAssumption, StarInv, FirstInv, NEW b \in Batch, Alone(b),
           stage[b] \in {"landed", "built", "passed"}
    PROVE  \A c \in Batch \ {b} : silver[c] = NoTables
<1>1. PICK N \in Nat : Batch = 1 .. N
  BY BatchesAreNumbers
<1>2. ASSUME NEW c \in Batch \ {b}
      PROVE  silver[c] = NoTables
  <2>1. c \in 1 .. b - 1 \/ c > b
    BY <1>1
  <2>2. QED
    BY <2>1, LaterIsEmpty DEF Alone
<1>3. QED
  BY <1>2

LEMMA FirstInit ==
    StarAssumption /\ Init => FirstInv
<1> SUFFICES ASSUME StarAssumption, Init PROVE FirstInv
  OBVIOUS
<1>1. \A b \in Batch : stage[b] = "waiting" /\ silver[b] = NoTables /\ gold[b] = NULL
  BY DEF Init
<1>2. DOMAIN gold = Batch
  BY DEF Init
<1>3. QED
  BY <1>1, <1>2 DEF FirstInv, SettledBefore, NothingYet, ReadAll, FirstBuilt, Ran

(* What FirstInv says of one batch. *)
FirstOf(b) ==
    /\ stage[b] # "waiting" => \A p \in 1 .. b - 1 : stage[p] \in {"stopped", "done"}
    /\ ~Ran(b) => silver[b] = NoTables
    /\ stage[b] # "done" => gold[b] = NULL
    /\ stage[b] \in {"built", "passed", "done"} => Readable(b) = Checked
    /\ Ran(b) /\ Alone(b) => silver[b] = Tables(b, << >>)

LEMMA FirstOfAll ==
    /\ FirstInv <=> DOMAIN gold = Batch /\ \A b \in Batch : FirstOf(b)
    /\ FirstInv' <=> DOMAIN gold' = Batch /\ \A b \in Batch : FirstOf(b)'
<1>1. FirstInv <=> DOMAIN gold = Batch /\ \A b \in Batch : FirstOf(b)
  BY DEF FirstInv, SettledBefore, NothingYet, ReadAll, FirstBuilt, FirstOf
<1>2. FirstInv' <=> DOMAIN gold' = Batch /\ \A b \in Batch : FirstOf(b)'
  BY DEF FirstInv, SettledBefore, NothingYet, ReadAll, FirstBuilt, FirstOf
<1>3. QED
  BY <1>1, <1>2

(* A step of one batch, which is not over, and the others. *)
OthersStay(b) ==
    /\ \A c \in Batch \ {b} : /\ stage'[c] = stage[c] /\ bronze'[c] = bronze[c]
                              /\ silver'[c] = silver[c] /\ gold'[c] = gold[c]
    /\ DOMAIN gold' = Batch

LEMMA OthersFirst ==
    ASSUME StarAssumption, StarInv, FirstInv, NEW b \in Batch, NEW c \in Batch \ {b},
           OthersStay(b), stage[b] \in {"waiting", "landed", "built", "passed"},
           stage[b] # "waiting" => bronze'[b] = bronze[b]
    PROVE  FirstOf(c)'
<1>1. PICK N \in Nat : Batch = 1 .. N
  BY BatchesAreNumbers
<1>2. FirstOf(c) /\ \A p \in 1 .. c : p \in Batch
  BY <1>1, FirstOfAll
<1>3. stage'[c] = stage[c] /\ silver'[c] = silver[c] /\ gold'[c] = gold[c]
      /\ (Ran(c)' <=> Ran(c))
  BY DEF OthersStay, Ran
<1>4. CASE stage[c] = "waiting"
  BY <1>2, <1>3, <1>4 DEF FirstOf, Ran
<1>5. CASE stage[c] # "waiting"
  <2>1. \A p \in 1 .. c - 1 : p # b /\ p \in Batch
    BY <1>1, <1>2, <1>5 DEF FirstOf
  <2>2. \A p \in 1 .. c - 1 : stage'[p] = stage[p] /\ silver'[p] = silver[p]
    BY <2>1 DEF OthersStay
  <2>3. \A p \in 1 .. c : bronze'[p] = bronze[p]
    BY <1>2, <1>5 DEF StarInv, OneByOne, OthersStay
  <2>4. c \in Nat
    BY <1>1
  <2>5. Readable(c)' = Readable(c) /\ Tables(c, << >>)' = Tables(c, << >>)
    BY <2>3, <2>4, SameReads
  <2>6. Alone(c)' <=> Alone(c)
    BY <2>2 DEF Alone
  <2>7. QED
    BY <1>2, <1>3, <1>5, <2>2, <2>5, <2>6 DEF FirstOf
<1>6. QED
  BY <1>4, <1>5

LEMMA FirstLand ==
    ASSUME StarAssumption, StarInv, FirstInv, NEW b \in Batch, Land(b)
    PROVE  FirstInv' /\ OthersStay(b)
<1>1. PICK N \in Nat : Batch = 1 .. N
  BY BatchesAreNumbers
<1>2. /\ stage[b] = "waiting" /\ stage' = [stage EXCEPT ![b] = "landed"]
      /\ b > 1 => stage[b - 1] \in {"stopped", "done"}
      /\ silver' = silver /\ gold' = gold
      /\ \E delivery : bronze' = [bronze EXCEPT ![b] = delivery]
  BY DEF Land
<1>3. OthersStay(b) /\ stage'[b] = "landed"
  BY <1>2, FirstOfAll DEF OthersStay, StarInv, StarTypeInv
<1>4. \A p \in 1 .. b - 1 : stage[p] \in {"stopped", "done"} /\ stage'[p] = stage[p]
  <2>1. ASSUME NEW p \in 1 .. b - 1
        PROVE  stage[p] \in {"stopped", "done"} /\ p \in Batch \ {b}
    <3>1. b - 1 \in Batch /\ b > 1 /\ p \in Batch \ {b}
      BY <1>1
    <3>2. p = b - 1 \/ p \in 1 .. b - 1 - 1
      BY <1>1
    <3>3. FirstOf(b - 1)
      BY <3>1, FirstOfAll
    <3>4. QED
      BY <1>2, <3>1, <3>2, <3>3 DEF FirstOf
  <2>2. QED
    BY <1>3, <2>1 DEF OthersStay
<1>5. FirstOf(b)'
  <2>1. FirstOf(b)
    BY FirstOfAll
  <2>2. silver[b] = NoTables /\ gold[b] = NULL
    BY <1>2, <2>1 DEF FirstOf, Ran
  <2>3. ~Ran(b)'
    BY <1>3 DEF Ran
  <2>4. QED
    BY <1>2, <1>3, <1>4, <2>2, <2>3 DEF FirstOf
<1>6. \A c \in Batch \ {b} : FirstOf(c)'
  BY <1>2, <1>3, OthersFirst
<1>7. DOMAIN gold' = Batch
  BY <1>3 DEF OthersStay
<1>8. FirstInv'
  <2>1. \A c \in Batch : FirstOf(c)'
    BY <1>5, <1>6
  <2>2. QED
    BY <1>7, <2>1, FirstOfAll
<1>9. QED
  BY <1>3, <1>8

(* The dimension the first batch merges into is empty. *)
LEMMA NothingToMergeInto ==
    ASSUME StarAssumption, StarInv, FirstInv, NEW b \in Batch, Alone(b), stage[b] = "landed"
    PROVE  ExistingDimPlayers = << >>
<1>1. silver[b] = NoTables
  BY FirstOfAll DEF FirstOf, Ran
<1>2. \A c \in Batch : silver[c] = NoTables
  BY <1>1, AloneInTheLake
<1>3. \A c \in Batch : Range(silver[c].dim_players) = {}
  BY <1>2 DEF NoTables, Range
<1>4. Range(ExistingDimPlayers) = {} /\ ExistingDimPlayers \in Seq(Version)
  BY <1>3, ExistingVersions DEF PlayerVersions
<1>5. QED
  BY <1>4, EmptyFrame

(* Every other action of a batch that is under way. *)
LEMMA FirstOnward ==
    ASSUME StarAssumption, StarInv, FirstInv, NEW b \in Batch, OthersStay(b),
           stage[b] \in {"landed", "built", "passed"}, bronze' = bronze, FirstOf(b)'
    PROVE  FirstInv'
<1>1. \A c \in Batch \ {b} : FirstOf(c)'
  BY OthersFirst
<1>2. \A c \in Batch : FirstOf(c)'
  BY <1>1
<1>3. DOMAIN gold' = Batch
  BY DEF OthersStay
<1>4. QED
  BY <1>2, <1>3, FirstOfAll

(* What a batch that is under way keeps of FirstOf. *)
LEMMA OnItsWay ==
    ASSUME StarAssumption, StarInv, FirstInv, NEW b \in Batch, OthersStay(b),
           stage[b] \in {"landed", "built", "passed"}, bronze' = bronze
    PROVE  /\ \A p \in 1 .. b - 1 : stage'[p] \in {"stopped", "done"}
           /\ Alone(b)' <=> Alone(b)
           /\ Readable(b)' = Readable(b)
           /\ CleanBronze(b)' = CleanBronze(b)
           /\ Tables(b, << >>)' = Tables(b, << >>)
<1>1. PICK N \in Nat : Batch = 1 .. N
  BY BatchesAreNumbers
<1>2. \A p \in 1 .. b - 1 : p \in Batch \ {b}
  BY <1>1
<1>3. \A p \in 1 .. b - 1 : stage[p] \in {"stopped", "done"}
  BY DEF FirstInv, SettledBefore
<1>4. \A p \in 1 .. b - 1 : stage'[p] = stage[p] /\ silver'[p] = silver[p]
  BY <1>2 DEF OthersStay
<1>5. Alone(b)' <=> Alone(b)
  BY <1>4 DEF Alone
<1>6. b \in Nat /\ \A p \in 1 .. b : bronze'[p] = bronze[p]
  BY <1>1
<1>7. QED
  BY <1>3, <1>4, <1>5, <1>6, SameReads

LEMMA FirstRunSilver ==
    ASSUME StarAssumption, StarInv, FirstInv, NEW b \in Batch, RunSilver(b)
    PROVE  FirstInv' /\ OthersStay(b)
<1>1. /\ stage[b] = "landed" /\ bronze' = bronze /\ gold' = gold
      /\ silver' = [silver EXCEPT ![b] = Tables(b, ExistingDimPlayers)]
      /\ stage' = [stage EXCEPT ![b] = IF Readable(b) = Checked THEN "built" ELSE "stopped"]
  BY DEF RunSilver
<1>2. /\ OthersStay(b) /\ silver'[b] = Tables(b, ExistingDimPlayers)
      /\ stage'[b] = IF Readable(b) = Checked THEN "built" ELSE "stopped"
  BY <1>1, FirstOfAll DEF OthersStay, StarInv, StarTypeInv
<1>3. FirstOf(b)'
  <2>1. gold'[b] = NULL
    BY <1>1, FirstOfAll DEF FirstOf
  <2>2. Alone(b) => silver'[b] = Tables(b, << >>)
    BY <1>1, <1>2, NothingToMergeInto
  <2>3. stage'[b] \in {"built", "stopped"} /\ (stage'[b] = "built" => Readable(b) = Checked)
    BY <1>2
  <2>4. QED
    BY <1>1, <1>2, <2>1, <2>2, <2>3, OnItsWay DEF FirstOf, Ran, Stages
<1>4. QED
  BY <1>1, <1>2, <1>3, FirstOnward

LEMMA FirstLater ==
    ASSUME StarAssumption, StarInv, FirstInv, NEW b \in Batch, DqGate(b) \/ RunGold(b)
    PROVE  FirstInv' /\ OthersStay(b)
<1>1. PICK next \in {"stopped", "passed", "done"} : stage' = [stage EXCEPT ![b] = next]
                                                 /\ (next = "done" \/ gold' = gold)
  BY DEF DqGate, RunGold
<1>2. /\ stage[b] \in {"built", "passed"} /\ bronze' = bronze /\ silver' = silver
      /\ gold' = gold \/ \E a : gold' = [gold EXCEPT ![b] = a]
  BY DEF DqGate, RunGold
<1>3. OthersStay(b) /\ stage'[b] = next
  BY <1>1, <1>2, FirstOfAll DEF OthersStay, StarInv, StarTypeInv
<1>4. FirstOf(b)'
  <2>1. FirstOf(b) /\ gold[b] = NULL /\ Ran(b)
    BY <1>2, FirstOfAll DEF FirstOf, Ran, Stages
  <2>2. next # "done" => gold'[b] = NULL
    BY <1>1, <2>1
  <2>3. Readable(b) = Checked /\ (Alone(b) => silver[b] = Tables(b, << >>))
    BY <1>2, <2>1 DEF FirstOf
  <2>4. QED
    BY <1>2, <1>3, <2>2, <2>3, OnItsWay DEF FirstOf, Ran, Stages
<1>5. QED
  BY <1>2, <1>3, <1>4, FirstOnward

LEMMA FirstRests ==
    ASSUME StarAssumption, StarInv, FirstInv, UNCHANGED vars
    PROVE  FirstInv'
<1>1. stage' = stage /\ silver' = silver /\ gold' = gold /\ bronze' = bronze
  BY DEF vars
<1>2. ASSUME NEW b \in Batch
      PROVE  FirstOf(b)'
  <2>1. b \in Nat /\ \A p \in 1 .. b : bronze'[p] = bronze[p]
    BY <1>1, BatchesAreNumbers
  <2>2. Readable(b)' = Readable(b) /\ Tables(b, << >>)' = Tables(b, << >>)
    BY <2>1, SameReads
  <2>3. (Alone(b)' <=> Alone(b)) /\ (Ran(b)' <=> Ran(b))
    BY <1>1 DEF Alone, Ran
  <2>4. QED
    BY <1>1, <2>2, <2>3, FirstOfAll DEF FirstOf
<1>3. QED
  BY <1>1, <1>2, FirstOfAll

-----------------------------------------------------------------------------
(* The valuations of the first batch *)

LEMMA ViewHas ==
    ASSUME NEW partitions, NEW batches, NEW b \in batches, NEW i \in DOMAIN partitions[b]
    PROVE  <<b, i>> \in DOMAIN View(partitions, batches)
<1>1. <<b, i>> \in UNION {{c} \X (DOMAIN partitions[c]) : c \in batches}
  OBVIOUS
<1>2. QED
  BY <1>1 DEF View

LEMMA ViewRow ==
    ASSUME NEW partitions, NEW batches, NEW x \in DOMAIN View(partitions, batches)
    PROVE  View(partitions, batches)[x] = partitions[x[1]][x[2]]
BY DEF View

LEMMA ViewOfOne ==
    ASSUME NEW partitions, NEW batches, NEW b \in batches,
           \A c \in batches \ {b} : DOMAIN partitions[c] = {}
    PROVE  DOMAIN View(partitions, batches) = {b} \X (DOMAIN partitions[b])
<1>1. DOMAIN View(partitions, batches) = UNION {{c} \X (DOMAIN partitions[c]) : c \in batches}
  BY DEF View
<1>2. \A c \in batches \ {b} : {c} \X (DOMAIN partitions[c]) = {}
  OBVIOUS
<1>3. QED
  BY <1>1, <1>2

(* A valuation that is joined to one version and one club is one row. *)
LEMMA OneRowPerValuation ==
    ASSUME NEW v, NEW x \in Valued(v), NEW p, NEW c,
           VersionRows(v, v.bronze_player_valuations[x]) = {p}, ClubsOf(v, p) = {c}
    PROVE  LET rows == player_valuation_rolling_avg(v)
               mine == {r \in DOMAIN rows : r[1] = x}
           IN  /\ mine = {<<x, p, c>>}
               /\ \A r \in mine : rows[r].player_sk =
                     IF p = NULL THEN NULL ELSE v.dim_players[p].player_sk
<1> DEFINE rows == player_valuation_rolling_avg(v)
<1>1. DOMAIN rows = ValuedRows(v)
  BY DEF player_valuation_rolling_avg
<1>2. {r \in ValuedRows(v) : r[1] = x} = {<<x, p, c>>}
  <2>1. <<x, p, c>> \in ValuedRows(v)
    BY DEF ValuedRows
  <2>2. ASSUME NEW r \in ValuedRows(v), r[1] = x
        PROVE  r = <<x, p, c>>
    <3>1. PICK y \in Valued(v) : \E q \in VersionRows(v, v.bronze_player_valuations[y]) :
                                    \E d \in ClubsOf(v, q) : r = <<y, q, d>>
      BY DEF ValuedRows
    <3>2. y = x
      BY <2>2, <3>1
    <3>3. QED
      BY <3>1, <3>2
  <2>3. QED
    BY <2>1, <2>2
<1>3. ASSUME NEW r \in ValuedRows(v), r[1] = x
      PROVE  rows[r].player_sk = IF p = NULL THEN NULL ELSE v.dim_players[p].player_sk
  <2>1. r[2] = p
    BY <1>2, <1>3
  <2>2. rows[r].player_sk = IF r[2] = NULL THEN NULL ELSE v.dim_players[r[2]].player_sk
    BY DEF player_valuation_rolling_avg
  <2>3. QED
    BY <2>1, <2>2
<1>4. QED
  BY <1>1, <1>2, <1>3

(* A first load: one version of every player, open at both ends. *)
IsFirstLoad(dim, players) ==
    /\ \A k \in DOMAIN dim :
          /\ dim[k].player \in players /\ dim[k].player_sk \in Nat \ {0}
          /\ dim[k].effective_date = FAR_PAST_DATE /\ dim[k].end_date = FAR_FUTURE_DATE
          /\ dim[k].is_current
    /\ \A player \in players : \E k \in DOMAIN dim : dim[k].player = player
    /\ \A k, l \in DOMAIN dim : dim[k].player = dim[l].player => k = l
    /\ dim \in Seq(Version) /\ Keyed(dim)

LEMMA FirstLoad ==
    ASSUME StarAssumption, RulesAssumption, BronzeInv, NEW b \in Batch,
           "players" \in Readable(b)
    PROVE  IsFirstLoad(Tables(b, << >>).dim_players, Values(CleanBronze(b)["players"], "player_id"))
<1> DEFINE clean    == CleanBronze(b)["players"]
           incoming == Tracked(clean)
           dim      == InitialLoad(incoming, FAR_PAST_DATE)
<1>1. clean = CleanRows("players", Raw(b)["players"], BuildFkLookups(Raw(b)))
  BY Checks
<1>2. IsFrameOf("players", Raw(b)["players"])
  BY RawIsTyped
<1>3. incoming \in Incoming /\ DOMAIN incoming = Values(clean, "player_id")
  BY <1>1, <1>2, TrackedIncoming
<1>4. Tables(b, << >>).dim_players = dim
  BY TablesHave DEF build_dim_players, scd2_merge
<1> HIDE DEF clean, incoming
<1>5. AreLoaded(dim, incoming, FAR_PAST_DATE)
  <2>1. FAR_PAST_DATE \in Nat
    BY DEF FAR_PAST_DATE
  <2>2. QED
    BY <1>3, <2>1, LoadedRows
<1> HIDE DEF dim
<1>6. \A k \in DOMAIN dim : dim[k] \in Range(dim) /\ dim[k] \in Version
  BY <1>5, Positions DEF AreLoaded, Range
<1>7. \A k \in DOMAIN dim :
          /\ dim[k].player \in DOMAIN incoming /\ dim[k].player_sk \in Nat \ {0}
          /\ dim[k].effective_date = FAR_PAST_DATE /\ dim[k].end_date = FAR_FUTURE_DATE
          /\ dim[k].is_current
  BY <1>5, <1>6 DEF AreLoaded, Version
<1>8. \A player \in DOMAIN incoming : \E k \in DOMAIN dim : dim[k].player = player
  BY <1>5 DEF AreLoaded, Range
<1>9. \A k, l \in DOMAIN dim : dim[k].player = dim[l].player => k = l
  BY <1>5, <1>6 DEF AreLoaded, Keyed
<1>10. IsFirstLoad(dim, Values(clean, "player_id"))
  <2>1. dim \in Seq(Version) /\ Keyed(dim)
    BY <1>5 DEF AreLoaded
  <2>2. QED
    BY <1>3, <1>7, <1>8, <1>9, <2>1 DEF IsFirstLoad
<1>11. QED
  BY <1>4, <1>10 DEF clean

LEMMA DistinctOnce ==
    ASSUME NEW frame, DOMAIN frame \subseteq Nat, NEW column
    PROVE  \A i, j \in DOMAIN Distinct(frame, column) :
              Distinct(frame, column)[i][column] = Distinct(frame, column)[j][column] => i = j
<1> DEFINE d == Distinct(frame, column)
<1>1. \A i \in DOMAIN d : /\ i \in DOMAIN frame /\ d[i] = frame[i]
                         /\ \A j \in DOMAIN frame : j < i => frame[j][column] # frame[i][column]
  BY DEF Distinct, Restrict
<1> HIDE DEF d
<1>2. ASSUME NEW i \in DOMAIN d, NEW j \in DOMAIN d, d[i][column] = d[j][column]
      PROVE  i = j
  <2>1. i \in Nat /\ j \in Nat /\ frame[i][column] = frame[j][column]
    BY <1>1, <1>2
  <2>2. ~(i < j) /\ ~(j < i)
    BY <1>1, <2>1
  <2>3. QED
    BY <2>1, <2>2
<1>3. QED
  BY <1>2 DEF d

(* The view of a table that only batch b has rows of. *)
IsViewOf(view, b, table) ==
    /\ DOMAIN view = {b} \X (DOMAIN table)
    /\ \A k \in DOMAIN table : view[<<b, k>>] = table[k]

(* As of any date there is the one version of a first load. *)
LEMMA OneVersion ==
    ASSUME NEW v, NEW b \in Nat, NEW dim, DOMAIN dim \subseteq Nat, NEW players,
           NULL \notin Nat \X Nat, NULL \notin Nat, IsFirstLoad(dim, players),
           IsViewOf(v.dim_players, b, dim),
           NEW valuation, valuation.date \in FAR_PAST_DATE .. FAR_FUTURE_DATE - 1
    PROVE  \E p : /\ VersionRows(v, valuation) = {p}
                  /\ valuation.player_id \in players =>
                        p # NULL /\ v.dim_players[p].player_sk # NULL
                  /\ valuation.player_id \notin players => p = NULL
<1> DEFINE rows == {p \in DOMAIN v.dim_players :
                       /\ v.dim_players[p].player = valuation.player_id
                       /\ v.dim_players[p].effective_date <= valuation.date
                       /\ valuation.date < v.dim_players[p].end_date}
<1>1. VersionRows(v, valuation) = IF rows = {} THEN {NULL} ELSE rows
  BY DEF VersionRows
<1>2. rows = {p \in DOMAIN v.dim_players : v.dim_players[p].player = valuation.player_id}
  <2>1. \A p \in DOMAIN v.dim_players :
            v.dim_players[p].effective_date = FAR_PAST_DATE
            /\ v.dim_players[p].end_date = FAR_FUTURE_DATE
    BY DEF IsViewOf, IsFirstLoad
  <2>2. FAR_PAST_DATE <= valuation.date /\ valuation.date < FAR_FUTURE_DATE
    BY DEF FAR_PAST_DATE, FAR_FUTURE_DATE
  <2>3. QED
    BY <2>1, <2>2
<1> HIDE DEF rows
<1>3. CASE valuation.player_id \in players
  <2>1. PICK k \in DOMAIN dim : dim[k].player = valuation.player_id
    BY <1>3 DEF IsFirstLoad
  <2>2. rows = {<<b, k>>}
    <3>1. <<b, k>> \in rows
      BY <1>2, <2>1 DEF IsViewOf
    <3>2. ASSUME NEW p \in rows PROVE p = <<b, k>>
      <4>1. PICK l \in DOMAIN dim : p = <<b, l>> /\ v.dim_players[p] = dim[l]
        BY <1>2 DEF IsViewOf
      <4>2. dim[l].player = dim[k].player
        BY <1>2, <2>1, <4>1
      <4>3. QED
        BY <4>1, <4>2 DEF IsFirstLoad
    <3>3. QED
      BY <3>1, <3>2
  <2>3. <<b, k>> # NULL
    <3>1. k \in Nat
      OBVIOUS
    <3>2. <<b, k>> \in Nat \X Nat
      BY <3>1
    <3>3. QED
      BY <3>2
  <2>4. v.dim_players[<<b, k>>].player_sk \in Nat
    BY DEF IsViewOf, IsFirstLoad
  <2>5. QED
    BY <1>1, <1>3, <2>2, <2>3, <2>4
<1>4. CASE valuation.player_id \notin players
  <2>1. rows = {}
    BY <1>2, <1>4 DEF IsViewOf, IsFirstLoad
  <2>2. QED
    BY <1>1, <1>4, <2>1
<1>5. QED
  BY <1>3, <1>4

(* There is one row of a club, or the row of nulls, to join. *)
OneClubEach(v) == \A club : \E c : ClubRows(v, club) = {c}

LEMMA OneClub ==
    ASSUME NEW v, NEW b \in Nat, NEW clubs, IsViewOf(v.dim_clubs, b, clubs),
           \A i, j \in DOMAIN clubs : clubs[i].club_id = clubs[j].club_id => i = j
    PROVE  OneClubEach(v) /\ \A p : \E c : ClubsOf(v, p) = {c}
<1>1. ASSUME NEW club
      PROVE  \E c : ClubRows(v, club) = {c}
  <2> DEFINE rows == {c \in DOMAIN v.dim_clubs : v.dim_clubs[c].club_id = club}
  <2>1. ClubRows(v, club) = IF rows = {} THEN {NULL} ELSE rows
    BY DEF ClubRows
  <2>2. ASSUME NEW c \in rows, NEW d \in rows
        PROVE  c = d
    <3>1. PICK i \in DOMAIN clubs : c = <<b, i>> /\ v.dim_clubs[c] = clubs[i]
      BY DEF IsViewOf
    <3>2. PICK j \in DOMAIN clubs : d = <<b, j>> /\ v.dim_clubs[d] = clubs[j]
      BY DEF IsViewOf
    <3>3. clubs[i].club_id = clubs[j].club_id
      BY <3>1, <3>2
    <3>4. QED
      BY <3>1, <3>2, <3>3
  <2> HIDE DEF rows
  <2>3. ASSUME NEW c \in rows PROVE ClubRows(v, club) = {c}
    <3>1. rows = {c}
      BY <2>2
    <3>2. QED
      BY <2>1, <3>1
  <2>4. rows = {} => ClubRows(v, club) = {NULL}
    BY <2>1
  <2>5. QED
    BY <2>3, <2>4
<1>2. QED
  BY <1>1 DEF ClubsOf, OneClubEach

(* The views of Gold when a batch is alone in the lake. *)
LEMMA ViewsOfOne ==
    ASSUME StarAssumption, NEW b \in Batch, \A c \in Batch \ {b} : silver[c] = NoTables
    PROVE  /\ IsViewOf(Views(Batch).dim_players, b, silver[b].dim_players)
           /\ IsViewOf(Views(Batch).dim_clubs, b, silver[b].dim_clubs)
           /\ IsViewOf(Views(Batch).fact_games, b, silver[b].fact_games)
           /\ IsViewOf(Views(Batch).fact_appearances, b, silver[b].fact_appearances)
<1>1. ASSUME NEW partitions, \A c \in Batch \ {b} : DOMAIN partitions[c] = {}
      PROVE  IsViewOf(View(partitions, Batch), b, partitions[b])
  <2>1. DOMAIN View(partitions, Batch) = {b} \X (DOMAIN partitions[b])
    BY <1>1, ViewOfOne
  <2>2. ASSUME NEW k \in DOMAIN partitions[b]
        PROVE  View(partitions, Batch)[<<b, k>>] = partitions[b][k]
    <3>1. <<b, k>> \in DOMAIN View(partitions, Batch)
      BY ViewHas
    <3>2. QED
      BY <3>1, ViewRow
  <2>3. QED
    BY <2>1, <2>2 DEF IsViewOf
<1>2. ASSUME NEW name \in {"dim_players", "dim_clubs", "fact_games", "fact_appearances"}
      PROVE  IsViewOf(View([c \in Batch |-> silver[c][name]], Batch), b, silver[b][name])
  <2> DEFINE partitions == [c \in Batch |-> silver[c][name]]
  <2>1. \A c \in Batch \ {b} : DOMAIN partitions[c] = {}
    BY DEF NoTables, NoFrame
  <2>2. partitions[b] = silver[b][name]
    OBVIOUS
  <2> HIDE DEF partitions
  <2>3. IsViewOf(View(partitions, Batch), b, partitions[b])
    BY <1>1, <2>1
  <2>4. QED
    BY <2>2, <2>3 DEF partitions
<1>3. /\ Views(Batch).dim_players = View([c \in Batch |-> silver[c]["dim_players"]], Batch)
      /\ Views(Batch).dim_clubs = View([c \in Batch |-> silver[c]["dim_clubs"]], Batch)
      /\ Views(Batch).fact_games = View([c \in Batch |-> silver[c]["fact_games"]], Batch)
      /\ Views(Batch).fact_appearances = View([c \in Batch |-> silver[c]["fact_appearances"]], Batch)
  BY DEF Views
<1>4. QED
  BY <1>2, <1>3

(* The row of a valuation in its view is the one in Bronze. *)
LEMMA ValuationInView ==
    ASSUME NEW b \in Batch, "player_valuations" \in DOMAIN bronze[b],
           NEW i \in DOMAIN bronze[b]["player_valuations"]
    PROVE  /\ <<b, i>> \in DOMAIN Views(Batch).bronze_player_valuations
           /\ Views(Batch).bronze_player_valuations[<<b, i>>] = bronze[b]["player_valuations"][i]
<1> DEFINE valuations == [c \in Batch |-> IF "player_valuations" \in DOMAIN bronze[c]
                                          THEN bronze[c]["player_valuations"] ELSE NoFrame]
<1>1. Views(Batch).bronze_player_valuations = View(valuations, Batch)
  BY DEF Views
<1>2. valuations[b] = bronze[b]["player_valuations"]
  OBVIOUS
<1> HIDE DEF valuations
<1>3. /\ <<b, i>> \in DOMAIN View(valuations, Batch)
      /\ View(valuations, Batch)[<<b, i>>] = valuations[b][i]
  <2>1. i \in DOMAIN valuations[b]
    BY <1>2
  <2>2. <<b, i>> \in DOMAIN View(valuations, Batch)
    BY <2>1, ViewHas
  <2>3. QED
    BY <2>2, ViewRow
<1>4. QED
  BY <1>1, <1>2, <1>3

(* The rows a batch reads of its own partition are frames. *)
LEMMA ValuationsAreTyped ==
    ASSUME StarAssumption, BronzeInv, NEW b \in Batch, "player_valuations" \in DOMAIN bronze[b]
    PROVE  LET pv == bronze[b]["player_valuations"]
           IN  \A i \in DOMAIN pv :
                  /\ i \in Nat
                  /\ pv[i].date # NULL => pv[i].date \in FAR_PAST_DATE .. FAR_FUTURE_DATE - 1
<1>1. bronze[b] \in Deliveries[b]
  <2>1. bronze[b] # << >>
    OBVIOUS
  <2>2. QED
    BY <2>1 DEF BronzeInv
<1>2. IsFrameOf("player_valuations", bronze[b]["player_valuations"])
  BY <1>1 DEF StarAssumption
<1>3. QED
  BY <1>2 DEF IsFrameOf

LEMMA GoldResolves ==
    ASSUME StarAssumption, RulesAssumption, StarInv, FirstInv, NEW b \in Batch, RunGold(b),
           Alone(b), "player_valuations" \in DOMAIN bronze[b]
    PROVE  ValuationsResolve(b)'
<1> DEFINE v  == Views(Batch)
           pv == bronze[b]["player_valuations"]
           dim == silver[b].dim_players
           clubs == silver[b].dim_clubs
           players == Values(CleanBronze(b)["players"], "player_id")
           rows == player_valuation_rolling_avg(v)
<1>1. /\ stage[b] = "passed" /\ bronze' = bronze /\ silver' = silver
      /\ gold' = [gold EXCEPT ![b] = Artifacts(v)]
  BY DEF RunGold
<1>2. gold'[b].player_valuation_rolling_avg = rows
  <2>1. gold'[b] = Artifacts(v)
    BY <1>1, FirstOfAll
  <2>2. QED
    BY <2>1 DEF Artifacts
<1>3. b \in Nat
  BY BatchesAreNumbers
<1>4. CleanBronze(b)' = CleanBronze(b)
  BY <1>1, <1>3, SameReads
<1>5. silver[b] = Tables(b, << >>) /\ Readable(b) = Checked /\ BronzeInv
  BY <1>1, FirstOfAll DEF FirstOf, Ran, Stages, StarInv, StarTypeInv
<1>6. IsViewOf(v.dim_players, b, dim) /\ IsViewOf(v.dim_clubs, b, clubs)
  BY <1>1, AloneInTheLake, ViewsOfOne
<1>7. IsFirstLoad(dim, players)
  BY <1>5, FirstLoad DEF Checked
<1>8. \A i, j \in DOMAIN clubs : clubs[i].club_id = clubs[j].club_id => i = j
  <2>1. "clubs" \in Readable(b)
    BY <1>5 DEF Checked
  <2>2. clubs = Distinct(CleanBronze(b)["clubs"], "club_id")
    BY <1>5, <2>1, TablesHave
  <2>3. DOMAIN CleanBronze(b)["clubs"] \subseteq Nat
    BY <1>5, <2>1, CleanIsTyped DEF IsFrameOf
  <2>4. QED
    BY <2>2, <2>3, DistinctOnce
<1>9. DOMAIN dim \subseteq Nat
  BY Positions DEF StarInv, StarTypeInv
<1>10. ASSUME NEW i \in DOMAIN pv, pv[i].market_value_in_eur # NULL, pv[i].date # NULL
       PROVE  LET mine == {r \in DOMAIN rows : r[1] = <<b, i>>}
              IN  /\ Cardinality(mine) = 1
                  /\ \A r \in mine : rows[r].player_sk # NULL <=> pv[i].player_id \in players
  <2>0. PICK x : x = <<b, i>>
    OBVIOUS
  <2>1. x \in DOMAIN v.bronze_player_valuations /\ v.bronze_player_valuations[x] = pv[i]
    BY <2>0, ValuationInView
  <2>2. pv[i].date \in FAR_PAST_DATE .. FAR_FUTURE_DATE - 1
    BY <1>5, <1>10, ValuationsAreTyped
  <2> HIDE DEF v, pv, dim, clubs, players, rows
  <2>3. x \in Valued(v)
    BY <1>10, <2>1 DEF Valued
  <2>4. NULL \notin Nat \X Nat /\ NULL \notin Nat
    BY DEF StarAssumption
  <2>5. PICK p : /\ VersionRows(v, pv[i]) = {p}
                 /\ pv[i].player_id \in players =>
                       p # NULL /\ v.dim_players[p].player_sk # NULL
                 /\ pv[i].player_id \notin players => p = NULL
    <3>1. IsViewOf(v.dim_players, b, dim)
      BY <1>6
    <3>2. QED
      BY <1>3, <1>7, <1>9, <2>2, <2>4, <3>1, OneVersion, Zenon
  <2>6. PICK c : ClubsOf(v, p) = {c}
    BY <1>3, <1>6, <1>8, OneClub
  <2> DEFINE mine == {r \in DOMAIN rows : r[1] = x}
  <2>7. /\ mine = {<<x, p, c>>}
        /\ \A r \in mine : rows[r].player_sk =
              IF p = NULL THEN NULL ELSE v.dim_players[p].player_sk
    <3>1. VersionRows(v, v.bronze_player_valuations[x]) = {p}
      BY <2>1, <2>5
    <3>2. QED
      BY <2>3, <2>6, <3>1, OneRowPerValuation DEF rows
  <2>8. Cardinality(mine) = 1
    BY <2>7, FS_Singleton
  <2>9. \A r \in mine : rows[r].player_sk # NULL <=> pv[i].player_id \in players
    BY <2>5, <2>7
  <2>10. QED
    BY <2>0, <2>8, <2>9
<1>11. bronze'[b]["player_valuations"] = pv
       /\ Values(CleanBronze(b)["players"], "player_id")' = players
  BY <1>1, <1>4 DEF Values
<1> HIDE DEF pv, players, rows, v
<1>12. QED
  BY <1>2, <1>10, <1>11 DEF ValuationsResolve

-----------------------------------------------------------------------------
(* Sums *)

(* What holds of no member, and of one more, holds of all of a finite set. *)
LEMMA GrowsTo ==
    ASSUME NEW S, IsFiniteSet(S), NEW G, {} \in G,
           \A T \in G : \A x \in S \ T : T \cup {x} \in G
    PROVE  S \in G
<1> DEFINE N == Cardinality(S)
           Has(n) == \A T \in SUBSET S : Cardinality(T) = n => T \in G
           K == {n \in 0 .. N : Has(n)}
<1>1. N \in Nat
  BY FS_CardinalityType
<1>2. \A T \in SUBSET S : IsFiniteSet(T) /\ Cardinality(T) \in Nat
  BY FS_Subset, FS_CardinalityType
<1>3. 0 \in K
  <2>1. \A T \in SUBSET S : Cardinality(T) = 0 => T = {}
    BY <1>2, FS_EmptySet
  <2>2. QED
    BY <1>1, <2>1
<1>4. ASSUME NEW n \in K, n < N
      PROVE  n + 1 \in K
  <2>1. n \in Nat /\ Has(n)
    OBVIOUS
  <2>2. ASSUME NEW T \in SUBSET S, Cardinality(T) = n + 1
        PROVE  T \in G
    <3>1. T # {}
      <4>1. Cardinality({}) = 0
        BY FS_EmptySet
      <4>2. n + 1 # 0
        BY <2>1
      <4>3. QED
        BY <2>2, <4>1, <4>2
    <3>2. PICK x \in T : TRUE
      BY <3>1
    <3>3. Cardinality(T \ {x}) = n
      <4>1. Cardinality(T \ {x}) = Cardinality(T) - 1
        BY <1>2, FS_RemoveElement
      <4>2. QED
        BY <2>1, <2>2, <4>1
    <3>4. T \ {x} \in G /\ x \in S \ (T \ {x})
      BY <2>1, <3>3
    <3>5. (T \ {x}) \cup {x} = T
      OBVIOUS
    <3>6. QED
      BY <3>4, <3>5
  <2> HIDE DEF N
  <2>3. Has(n + 1)
    BY <2>2
  <2>4. n + 1 \in 0 .. N
    BY <1>1, <1>4, <2>1
  <2>5. QED
    BY <2>3, <2>4
<1>5. N \in K
  <2>1. K \subseteq 0 .. N
    OBVIOUS
  <2> HIDE DEF K
  <2>2. QED
    BY <1>1, <1>3, <1>4, <2>1, Climbs
<1>6. QED
  BY <1>5

Picked(s) == CHOOSE x \in s : TRUE

IsFold(g, f, S, D) ==
    g = [s \in D |-> IF s = {} THEN 0 ELSE f[Picked(s)] + g[s \ {Picked(s)}]]

LEMMA FoldExists ==
    ASSUME NEW S, IsFiniteSet(S), NEW f
    PROVE  \E g : IsFold(g, f, S, SUBSET S)
<1> DEFINE N == Cardinality(S)
           L(n) == {s \in SUBSET S : Cardinality(s) <= n}
           K == {n \in 0 .. N : \E g : IsFold(g, f, S, L(n))}
<1>1. N \in Nat
  BY FS_CardinalityType
<1>2. \A s \in SUBSET S : IsFiniteSet(s) /\ Cardinality(s) \in Nat /\ Cardinality(s) <= N
  BY FS_Subset, FS_CardinalityType
<1>3. 0 \in K
  <2>1. L(0) = {{}}
    BY <1>2, FS_EmptySet
  <2> DEFINE g == [s \in L(0) |-> 0]
  <2>2. IsFold(g, f, S, L(0))
    BY <2>1 DEF IsFold
  <2> HIDE DEF L, g
  <2>3. QED
    BY <1>1, <2>2
<1>4. ASSUME NEW n \in K, n < N
      PROVE  n + 1 \in K
  <2>1. PICK g : IsFold(g, f, S, L(n))
    OBVIOUS
  <2>2. n \in Nat
    OBVIOUS
  <2>3. ASSUME NEW s \in L(n + 1), s # {}
        PROVE  s \ {Picked(s)} \in L(n)
    <3>1. Picked(s) \in s
      BY <2>3 DEF Picked
    <3>2. Cardinality(s \ {Picked(s)}) = Cardinality(s) - 1
      BY <1>2, <3>1, FS_RemoveElement
    <3>3. Cardinality(s) \in Nat /\ Cardinality(s) <= n + 1
      BY <1>2
    <3>4. Cardinality(s) - 1 <= n
      BY <2>2, <3>3
    <3>5. QED
      BY <3>2, <3>4
  <2>4. \A s \in L(n) : s \in L(n + 1)
    <3>1. \A s \in SUBSET S : Cardinality(s) <= n => Cardinality(s) <= n + 1
      BY <1>2, <2>2
    <3>2. QED
      BY <3>1
  <2> DEFINE h == [s \in L(n + 1) |-> IF s = {} THEN 0 ELSE f[Picked(s)] + g[s \ {Picked(s)}]]
  <2> HIDE DEF L
  <2>5. \A s \in L(n) : h[s] = g[s]
    BY <2>1, <2>4 DEF IsFold
  <2>6. \A s \in L(n + 1) : h[s] = IF s = {} THEN 0 ELSE f[Picked(s)] + h[s \ {Picked(s)}]
    BY <2>3, <2>5
  <2>7. h = [s \in L(n + 1) |-> h[s]]
    OBVIOUS
  <2> HIDE DEF h
  <2>8. IsFold(h, f, S, L(n + 1))
    BY <2>6, <2>7 DEF IsFold
  <2>9. n + 1 \in 0 .. N
    BY <1>1, <1>4, <2>2
  <2>10. QED
    BY <2>8, <2>9
<1>5. N \in K
  <2>1. K \subseteq 0 .. N
    OBVIOUS
  <2> HIDE DEF K
  <2>2. QED
    BY <1>1, <1>3, <1>4, <2>1, Climbs
<1>6. L(N) = SUBSET S
  BY <1>2
<1>7. QED
  BY <1>5, <1>6

(* The fold of a set, at a part of it, is the fold of the part. *)
LEMMA FoldsAgree ==
    ASSUME NEW S, IsFiniteSet(S), NEW f, NEW g, IsFold(g, f, S, SUBSET S),
           NEW T \in SUBSET S, NEW h, IsFold(h, f, T, SUBSET T)
    PROVE  g[T] = h[T]
<1> DEFINE N == Cardinality(T)
           Same(n) == \A s \in SUBSET T : Cardinality(s) <= n => g[s] = h[s]
           K == {n \in 0 .. N : Same(n)}
<1>1. N \in Nat /\ \A s \in SUBSET T : IsFiniteSet(s) /\ Cardinality(s) \in Nat
  BY FS_Subset, FS_CardinalityType
<1>2. \A s \in SUBSET T : /\ g[s] = IF s = {} THEN 0 ELSE f[Picked(s)] + g[s \ {Picked(s)}]
                          /\ h[s] = IF s = {} THEN 0 ELSE f[Picked(s)] + h[s \ {Picked(s)}]
  BY DEF IsFold
<1>3. 0 \in K
  <2>1. \A s \in SUBSET T : Cardinality(s) <= 0 => s = {}
    BY <1>1, FS_EmptySet
  <2>2. Same(0)
    BY <1>2, <2>1
  <2> HIDE DEF N, Same
  <2>3. QED
    BY <1>1, <2>2
<1>4. ASSUME NEW n \in K, n < N
      PROVE  n + 1 \in K
  <2>1. n \in Nat /\ Same(n)
    OBVIOUS
  <2>2. ASSUME NEW s \in SUBSET T, Cardinality(s) <= n + 1, s # {}
        PROVE  g[s] = h[s]
    <3>1. Picked(s) \in s
      BY <2>2 DEF Picked
    <3>2. Cardinality(s \ {Picked(s)}) = Cardinality(s) - 1
      BY <1>1, <3>1, FS_RemoveElement
    <3>3. Cardinality(s \ {Picked(s)}) <= n
      BY <1>1, <2>1, <2>2, <3>2
    <3>4. g[s \ {Picked(s)}] = h[s \ {Picked(s)}]
      BY <2>1, <3>3
    <3>5. QED
      BY <1>2, <2>2, <3>4
  <2>3. Same(n + 1)
    BY <1>2, <2>2
  <2> HIDE DEF N, Same
  <2>4. QED
    BY <1>1, <1>4, <2>1, <2>3
<1>5. N \in K
  <2>1. K \subseteq 0 .. N
    OBVIOUS
  <2> HIDE DEF K
  <2>2. QED
    BY <1>1, <1>3, <1>4, <2>1, Climbs
<1>6. QED
  BY <1>1, <1>5

LEMMA SumIsFold ==
    ASSUME NEW S, IsFiniteSet(S), NEW f
    PROVE  \E g : IsFold(g, f, S, SUBSET S) /\ SumFunctionOnSet(f, S) = g[S]
<1> DEFINE g == CHOOSE g : IsFold(g, f, S, SUBSET S)
<1>1. IsFold(g, f, S, SUBSET S)
  BY FoldExists
<1>2. SumFunctionOnSet(f, S) = g[S]
  BY DEF SumFunctionOnSet, FoldFunctionOnSet, MapThenFoldSet, IsFold, Picked
<1> HIDE DEF g
<1>3. QED
  BY <1>1, <1>2

(* The sum is 0 for no member, and for a set the value of any member and the
   sum of the others.                                                      *)
LEMMA SumOfNone ==
    ASSUME NEW f
    PROVE  SumFunctionOnSet(f, {}) = 0
<1>1. PICK g : IsFold(g, f, {}, SUBSET {}) /\ SumFunctionOnSet(f, {}) = g[{}]
  BY SumIsFold, FS_EmptySet
<1>2. QED
  BY <1>1 DEF IsFold

LEMMA SumWithout ==
    ASSUME NEW S, IsFiniteSet(S), NEW f, \A x \in S : f[x] \in Int
    PROVE  /\ SumFunctionOnSet(f, S) \in Int
           /\ \A x \in S : SumFunctionOnSet(f, S) = f[x] + SumFunctionOnSet(f, S \ {x})
<1>1. PICK g : IsFold(g, f, S, SUBSET S) /\ SumFunctionOnSet(f, S) = g[S]
  BY SumIsFold
<1>2. \A T \in SUBSET S : IsFiniteSet(T) /\ Cardinality(T) \in Nat /\ g[T] = SumFunctionOnSet(f, T)
  <2>1. ASSUME NEW T \in SUBSET S PROVE g[T] = SumFunctionOnSet(f, T)
    <3>1. IsFiniteSet(T)
      BY FS_Subset
    <3>2. PICK h : IsFold(h, f, T, SUBSET T) /\ SumFunctionOnSet(f, T) = h[T]
      BY <3>1, SumIsFold
    <3>3. QED
      BY <1>1, <3>2, FoldsAgree
  <2>2. QED
    BY <2>1, FS_Subset, FS_CardinalityType
<1>3. \A s \in SUBSET S : g[s] = IF s = {} THEN 0 ELSE f[Picked(s)] + g[s \ {Picked(s)}]
  BY <1>1 DEF IsFold
<1> DEFINE N == Cardinality(S)
           Good(s) == g[s] \in Int /\ \A x \in s : g[s] = f[x] + g[s \ {x}]
           Has(n) == \A s \in SUBSET S : Cardinality(s) <= n => Good(s)
           K == {n \in 0 .. N : Has(n)}
<1>0. Good({})
  <2>1. g[{}] = 0
    BY <1>3
  <2>2. QED
    BY <2>1
<1>4. 0 \in K
  <2>1. \A s \in SUBSET S : Cardinality(s) <= 0 => s = {}
    BY <1>2, FS_EmptySet
  <2>2. Good({})
    BY <1>0
  <2> HIDE DEF Good
  <2>3. Has(0)
    BY <2>1, <2>2
  <2>4. N \in Nat
    BY <1>2
  <2> HIDE DEF N, Has
  <2>5. QED
    BY <2>3, <2>4
<1>5. ASSUME NEW n \in K, n < N
      PROVE  n + 1 \in K
  <2>1. n \in Nat /\ Has(n)
    OBVIOUS
  <2>2. ASSUME NEW s \in SUBSET S, Cardinality(s) <= n + 1, s # {}
        PROVE  Good(s)
    <3> DEFINE c == Picked(s)
    <3>1. c \in s /\ g[s] = f[c] + g[s \ {c}]
      BY <1>3, <2>2 DEF Picked
    <3> HIDE DEF c
    <3>2. ASSUME NEW x \in s
          PROVE  Good(s \ {x})
      <4>1. Cardinality(s \ {x}) = Cardinality(s) - 1
        BY <1>2, FS_RemoveElement
      <4>2. Cardinality(s \ {x}) <= n
        BY <1>2, <2>1, <2>2, <4>1
      <4>3. QED
        BY <2>1, <4>2
    <3>3. g[s] \in Int
      BY <3>1, <3>2
    <3>4. ASSUME NEW x \in s, x # c
          PROVE  g[s] = f[x] + g[s \ {x}]
      <4>1. x \in s \ {c} /\ c \in s \ {x} /\ (s \ {c}) \ {x} = (s \ {x}) \ {c}
        BY <3>1, <3>4
      <4>2. g[s \ {c}] = f[x] + g[(s \ {c}) \ {x}]
        BY <3>1, <3>2, <4>1
      <4>3. g[s \ {x}] = f[c] + g[(s \ {x}) \ {c}]
        BY <3>2, <4>1
      <4>4. Good((s \ {x}) \ {c})
        <5>1. Cardinality(s \ {x}) = Cardinality(s) - 1
          BY <1>2, FS_RemoveElement
        <5>2. Cardinality((s \ {x}) \ {c}) = Cardinality(s \ {x}) - 1
          BY <1>2, <4>1, FS_RemoveElement
        <5>3. Cardinality((s \ {x}) \ {c}) <= n
          BY <1>2, <2>1, <2>2, <5>1, <5>2
        <5>4. QED
          BY <2>1, <5>3
      <4>5. f[x] \in Int /\ f[c] \in Int /\ g[(s \ {x}) \ {c}] \in Int
        BY <3>1, <4>4
      <4> DEFINE r == g[(s \ {x}) \ {c}]
      <4>6. g[s] = f[c] + (f[x] + r) /\ g[s \ {x}] = f[c] + r
        BY <3>1, <4>1, <4>2, <4>3
      <4>7. r \in Int
        BY <4>5
      <4> HIDE DEF r
      <4>8. QED
        BY <4>5, <4>6, <4>7
    <3>5. \A x \in s : g[s] = f[x] + g[s \ {x}]
      BY <3>1, <3>4
    <3>6. QED
      BY <3>3, <3>5
  <2>3. Good({})
    BY <1>0
  <2> HIDE DEF Good
  <2>4. Has(n + 1)
    BY <2>2, <2>3
  <2>5. N \in Nat
    BY <1>2
  <2> HIDE DEF N, Has
  <2>6. QED
    BY <1>5, <2>1, <2>4, <2>5
<1>6. N \in K
  <2>1. K \subseteq 0 .. N /\ N \in Nat
    BY <1>2
  <2> HIDE DEF K
  <2>2. QED
    BY <1>4, <1>5, <2>1, Climbs
<1>7. Good(S)
  <2>1. N \in Nat
    BY <1>2
  <2> HIDE DEF Good
  <2>2. QED
    BY <1>6, <2>1
<1>8. QED
  BY <1>2, <1>7

LEMMA SumWith ==
    ASSUME NEW S, IsFiniteSet(S), NEW x, x \notin S, NEW f, \A y \in S \cup {x} : f[y] \in Int
    PROVE  SumFunctionOnSet(f, S \cup {x}) = f[x] + SumFunctionOnSet(f, S)
<1>1. IsFiniteSet(S \cup {x}) /\ (S \cup {x}) \ {x} = S
  BY FS_AddElement
<1>2. QED
  BY <1>1, SumWithout

LEMMA SumOfSame ==
    ASSUME NEW S, IsFiniteSet(S), NEW f, NEW h, \A x \in S : f[x] \in Int /\ h[x] = f[x]
    PROVE  SumFunctionOnSet(h, S) = SumFunctionOnSet(f, S)
<1> DEFINE G == {T \in SUBSET S : SumFunctionOnSet(h, T) = SumFunctionOnSet(f, T)}
<1>1. {} \in G
  BY SumOfNone
<1>2. ASSUME NEW T \in G, NEW x \in S \ T
      PROVE  T \cup {x} \in G
  <2>1. IsFiniteSet(T) /\ \A y \in T \cup {x} : f[y] \in Int /\ h[y] \in Int
    BY FS_Subset
  <2>2. /\ SumFunctionOnSet(f, T \cup {x}) = f[x] + SumFunctionOnSet(f, T)
        /\ SumFunctionOnSet(h, T \cup {x}) = h[x] + SumFunctionOnSet(h, T)
    BY <2>1, SumWith
  <2>3. QED
    BY <2>2
<1>3. S \in G
  <2> HIDE DEF G
  <2>1. QED
    BY <1>1, <1>2, GrowsTo
<1>4. QED
  BY <1>3

LEMMA SumOfBoth ==
    ASSUME NEW S, IsFiniteSet(S), NEW R, IsFiniteSet(R), S \cap R = {},
           NEW f, \A x \in S \cup R : f[x] \in Int
    PROVE  SumFunctionOnSet(f, S \cup R) = SumFunctionOnSet(f, S) + SumFunctionOnSet(f, R)
<1> DEFINE G == {T \in SUBSET S : SumFunctionOnSet(f, T \cup R) =
                                     SumFunctionOnSet(f, T) + SumFunctionOnSet(f, R)}
<1>1. SumFunctionOnSet(f, R) \in Int
  BY SumWithout
<1>2. {} \in G
  <2>1. {} \cup R = R
    OBVIOUS
  <2>2. QED
    BY <1>1, <2>1, SumOfNone
<1>3. ASSUME NEW T \in G, NEW x \in S \ T
      PROVE  T \cup {x} \in G
  <2>1. IsFiniteSet(T)
    BY FS_Subset
  <2>2. IsFiniteSet(T \cup R)
    BY <2>1, FS_Union
  <2>3. SumFunctionOnSet(f, T \cup {x}) = f[x] + SumFunctionOnSet(f, T)
    BY <2>1, SumWith
  <2>4. SumFunctionOnSet(f, (T \cup R) \cup {x}) = f[x] + SumFunctionOnSet(f, T \cup R)
    BY <2>2, SumWith
  <2>5. (T \cup R) \cup {x} = (T \cup {x}) \cup R
    OBVIOUS
  <2>6. SumFunctionOnSet(f, T) \in Int /\ f[x] \in Int
    BY <2>1, SumWithout
  <2>7. SumFunctionOnSet(f, T \cup R) = SumFunctionOnSet(f, T) + SumFunctionOnSet(f, R)
    OBVIOUS
  <2>8. SumFunctionOnSet(f, (T \cup {x}) \cup R) =
           SumFunctionOnSet(f, T \cup {x}) + SumFunctionOnSet(f, R)
    <3> DEFINE a == SumFunctionOnSet(f, T)
               c == SumFunctionOnSet(f, R)
    <3>1. /\ SumFunctionOnSet(f, (T \cup {x}) \cup R) = f[x] + (a + c)
          /\ SumFunctionOnSet(f, T \cup {x}) = f[x] + a
      BY <2>3, <2>4, <2>5, <2>7
    <3>2. a \in Int /\ c \in Int /\ f[x] \in Int
      BY <1>1, <2>6
    <3> HIDE DEF a, c
    <3>3. f[x] + (a + c) = (f[x] + a) + c
      BY <3>2
    <3>4. QED
      BY <3>1, <3>3 DEF c
  <2>9. QED
    BY <2>8
<1>4. S \in G
  <2> HIDE DEF G
  <2>1. QED
    BY <1>2, <1>3, GrowsTo
<1>5. QED
  BY <1>4

(* A column that is summed over other rows, one for each. *)
LEMMA SumRenamed ==
    ASSUME NEW S, IsFiniteSet(S), NEW f, \A x \in S : f[x] \in Int,
           NEW b, \A x, y \in S : b[x] = b[y] => x = y,
           NEW h, \A x \in S : h[b[x]] = f[x]
    PROVE  SumFunctionOnSet(h, {b[x] : x \in S}) = SumFunctionOnSet(f, S)
<1> DEFINE To(T) == {b[x] : x \in T}
           G == {T \in SUBSET S : IsFiniteSet(To(T)) /\
                                   SumFunctionOnSet(h, To(T)) = SumFunctionOnSet(f, T)}
<1>1. {} \in G
  <2>1. To({}) = {}
    OBVIOUS
  <2>2. QED
    BY <2>1, SumOfNone, FS_EmptySet
<1>2. ASSUME NEW T \in G, NEW x \in S \ T
      PROVE  T \cup {x} \in G
  <2>1. IsFiniteSet(T) /\ \A y \in T \cup {x} : f[y] \in Int
    BY FS_Subset
  <2>2. SumFunctionOnSet(f, T \cup {x}) = f[x] + SumFunctionOnSet(f, T)
    BY <2>1, SumWith
  <2>3. To(T \cup {x}) = To(T) \cup {b[x]} /\ b[x] \notin To(T)
    OBVIOUS
  <2>4. IsFiniteSet(To(T)) /\ IsFiniteSet(To(T) \cup {b[x]})
    BY FS_AddElement
  <2>5. \A y \in To(T) \cup {b[x]} : h[y] \in Int
    OBVIOUS
  <2>6. SumFunctionOnSet(h, To(T)) = SumFunctionOnSet(f, T)
    OBVIOUS
  <2> HIDE DEF To
  <2>7. SumFunctionOnSet(h, To(T) \cup {b[x]}) = h[b[x]] + SumFunctionOnSet(h, To(T))
    BY <2>3, <2>4, <2>5, SumWith
  <2>8. QED
    BY <2>2, <2>3, <2>4, <2>6, <2>7
<1>3. S \in G
  <2> HIDE DEF G
  <2>1. QED
    BY <1>1, <1>2, GrowsTo
<1>4. QED
  BY <1>3

(* GROUP BY: what the groups have adds up to what the rows have. *)
LEMMA SumOfGroups ==
    ASSUME NEW S, IsFiniteSet(S), NEW f, \A x \in S : f[x] \in Int,
           NEW key, NEW K, IsFiniteSet(K), \A x \in S : key[x] \in K,
           NEW h, \A k \in K : h[k] = SumFunctionOnSet(f, {x \in S : key[x] = k})
    PROVE  SumFunctionOnSet(h, K) = SumFunctionOnSet(f, S)
<1> DEFINE Of(U) == {x \in S : key[x] \in U}
           G == {U \in SUBSET K : SumFunctionOnSet(h, U) = SumFunctionOnSet(f, Of(U))}
<1>1. {} \in G
  <2>1. Of({}) = {}
    OBVIOUS
  <2>2. QED
    BY <2>1, SumOfNone
<1>2. ASSUME NEW U \in G, NEW k \in K \ U
      PROVE  U \cup {k} \in G
  <2> DEFINE one == {x \in S : key[x] = k}
  <2>1. IsFiniteSet(Of(U)) /\ IsFiniteSet(one)
    BY FS_Subset
  <2>2. Of(U) \cap one = {} /\ Of(U \cup {k}) = Of(U) \cup one
    OBVIOUS
  <2>3. \A T \in SUBSET S : IsFiniteSet(T) => SumFunctionOnSet(f, T) \in Int
    BY SumWithout
  <2>4. h[k] = SumFunctionOnSet(f, one) /\ \A j \in U \cup {k} : h[j] \in Int
    <3>1. ASSUME NEW j \in K PROVE h[j] \in Int
      <4> DEFINE T == {x \in S : key[x] = j}
      <4>1. IsFiniteSet(T) /\ T \in SUBSET S
        BY FS_Subset
      <4>2. h[j] = SumFunctionOnSet(f, T)
        OBVIOUS
      <4> HIDE DEF T
      <4>3. QED
        BY <2>3, <4>1, <4>2
    <3>2. QED
      BY <3>1
  <2>5. IsFiniteSet(U) /\ k \notin U
    BY FS_Subset
  <2>6. SumFunctionOnSet(h, U \cup {k}) = h[k] + SumFunctionOnSet(h, U)
    BY <2>4, <2>5, SumWith
  <2>7. \A x \in Of(U) \cup one : f[x] \in Int
    OBVIOUS
  <2>8. SumFunctionOnSet(h, U) = SumFunctionOnSet(f, Of(U))
    OBVIOUS
  <2>9. SumFunctionOnSet(f, Of(U)) \in Int /\ SumFunctionOnSet(f, one) \in Int
    BY <2>1, <2>3
  <2> HIDE DEF Of, one
  <2>10. SumFunctionOnSet(f, Of(U) \cup one) =
            SumFunctionOnSet(f, Of(U)) + SumFunctionOnSet(f, one)
    BY <2>1, <2>2, <2>7, SumOfBoth
  <2>11. SumFunctionOnSet(h, U \cup {k}) = SumFunctionOnSet(f, Of(U \cup {k}))
    <3>1. SumFunctionOnSet(h, U \cup {k}) =
            SumFunctionOnSet(f, one) + SumFunctionOnSet(f, Of(U))
      BY <2>4, <2>6, <2>8
    <3>2. SumFunctionOnSet(f, Of(U \cup {k})) =
            SumFunctionOnSet(f, Of(U)) + SumFunctionOnSet(f, one)
      BY <2>2, <2>10
    <3>3. QED
      BY <2>9, <3>1, <3>2
  <2>12. QED
    BY <2>11
<1>3. K \in G
  <2> HIDE DEF G
  <2>1. QED
    BY <1>1, <1>2, GrowsTo
<1>4. Of(K) = S
  OBVIOUS
<1>5. QED
  BY <1>3, <1>4

(* COUNT, of the rows that count for one. *)
LEMMA SumCounts ==
    ASSUME NEW S, IsFiniteSet(S), NEW f, \A x \in S : f[x] \in {0, 1}
    PROVE  SumFunctionOnSet(f, S) = Cardinality({x \in S : f[x] = 1})
<1> DEFINE Ones(T) == {x \in T : f[x] = 1}
           G == {T \in SUBSET S : SumFunctionOnSet(f, T) = Cardinality(Ones(T))}
<1>1. {} \in G
  <2>1. Ones({}) = {}
    OBVIOUS
  <2>2. QED
    BY <2>1, SumOfNone, FS_EmptySet
<1>2. ASSUME NEW T \in G, NEW x \in S \ T
      PROVE  T \cup {x} \in G
  <2>1. IsFiniteSet(T) /\ \A y \in T \cup {x} : f[y] \in Int
    BY FS_Subset
  <2>2. SumFunctionOnSet(f, T \cup {x}) = f[x] + SumFunctionOnSet(f, T)
    BY <2>1, SumWith
  <2>3. IsFiniteSet(Ones(T)) /\ Cardinality(Ones(T)) \in Nat /\ x \notin Ones(T)
    BY <2>1, FS_Subset, FS_CardinalityType
  <2>4. SumFunctionOnSet(f, T) = Cardinality(Ones(T))
    OBVIOUS
  <2>5. Ones(T \cup {x}) = IF f[x] = 1 THEN Ones(T) \cup {x} ELSE Ones(T)
    OBVIOUS
  <2> HIDE DEF Ones
  <2>6. Cardinality(Ones(T \cup {x})) = f[x] + Cardinality(Ones(T))
    <3>1. CASE f[x] = 1
      <4>1. Cardinality(Ones(T) \cup {x}) = Cardinality(Ones(T)) + 1
        BY <2>3, FS_AddElement
      <4>2. QED
        BY <2>3, <2>5, <3>1, <4>1
    <3>2. CASE f[x] = 0
      BY <2>3, <2>5, <3>2
    <3>3. QED
      BY <3>1, <3>2
  <2>7. QED
    BY <2>2, <2>4, <2>6
<1>3. S \in G
  <2> HIDE DEF G
  <2>1. QED
    BY <1>1, <1>2, GrowsTo
<1>4. QED
  BY <1>3

(* SUM of a column that is a function on the rows. *)
LEMMA SumOfColumn ==
    ASSUME NEW S, IsFiniteSet(S), NEW e, DOMAIN e = S, NEW f,
           \A x \in S : f[x] \in Int /\ f[x] = Coalesce(e[x])
    PROVE  SumOf(e) = SumFunctionOnSet(f, S)
<1> DEFINE h == [x \in S |-> Coalesce(e[x])]
<1>1. SumOf(e) = SumFunctionOnSet(h, S)
  BY DEF SumOf, SumFunction
<1>2. \A x \in S : f[x] \in Int /\ h[x] = f[x]
  OBVIOUS
<1> HIDE DEF h
<1>3. QED
  BY <1>1, <1>2, SumOfSame

LEMMA SumOfAll ==
    ASSUME NEW S, IsFiniteSet(S), NEW h, DOMAIN h = S, NEW f,
           \A x \in S : f[x] \in Int /\ h[x] = f[x]
    PROVE  SumFunction(h) = SumFunctionOnSet(f, S)
<1>1. SumFunction(h) = SumFunctionOnSet(h, S)
  BY DEF SumFunction
<1>2. QED
  BY <1>1, SumOfSame

(* Three points for each that the first column counts, one for the second. *)
LEMMA SumOfPoints ==
    ASSUME NEW S, IsFiniteSet(S), NEW g, NEW h, NEW f,
           \A x \in S : g[x] \in Int /\ h[x] \in Int /\ f[x] = 3 * g[x] + h[x]
    PROVE  SumFunctionOnSet(f, S) = 3 * SumFunctionOnSet(g, S) + SumFunctionOnSet(h, S)
<1> DEFINE G == {T \in SUBSET S : SumFunctionOnSet(f, T) =
                                     3 * SumFunctionOnSet(g, T) + SumFunctionOnSet(h, T)}
<1>1. {} \in G
  <2>1. 3 * 0 + 0 = 0
    OBVIOUS
  <2>2. QED
    BY <2>1, SumOfNone
<1>2. ASSUME NEW T \in G, NEW x \in S \ T
      PROVE  T \cup {x} \in G
  <2>1. IsFiniteSet(T) /\ \A y \in T \cup {x} : f[y] \in Int /\ g[y] \in Int /\ h[y] \in Int
    BY FS_Subset
  <2> DEFINE a == SumFunctionOnSet(g, T)
             c == SumFunctionOnSet(h, T)
             F == SumFunctionOnSet(f, T \cup {x})
             A == SumFunctionOnSet(g, T \cup {x})
             C == SumFunctionOnSet(h, T \cup {x})
  <2>2. a \in Int /\ c \in Int
    BY <2>1, SumWithout
  <2>3. A = g[x] + a /\ C = h[x] + c
    BY <2>1, SumWith
  <2>4. F = f[x] + (3 * a + c)
    BY <2>1, SumWith
  <2>5. f[x] = 3 * g[x] + h[x] /\ g[x] \in Int /\ h[x] \in Int
    OBVIOUS
  <2>6. F = 3 * A + C
    <3> HIDE DEF a, c, A, C, F
    <3>1. QED
      BY <2>2, <2>3, <2>4, <2>5
  <2>7. QED
    BY <2>6
<1>3. S \in G
  <2> HIDE DEF G
  <2>1. QED
    BY <1>1, <1>2, GrowsTo
<1>4. QED
  BY <1>3

LEMMA FiniteImage ==
    ASSUME NEW S, IsFiniteSet(S), NEW f
    PROVE  IsFiniteSet({f[x] : x \in S})
<1> DEFINE To(T) == {f[x] : x \in T}
           G == {T \in SUBSET S : IsFiniteSet(To(T))}
<1>1. {} \in G
  <2>1. To({}) = {}
    OBVIOUS
  <2>2. QED
    BY <2>1, FS_EmptySet
<1>2. ASSUME NEW T \in G, NEW x \in S \ T
      PROVE  T \cup {x} \in G
  <2>1. To(T \cup {x}) = To(T) \cup {f[x]} /\ IsFiniteSet(To(T))
    OBVIOUS
  <2> HIDE DEF To
  <2>2. IsFiniteSet(To(T) \cup {f[x]})
    BY <2>1, FS_AddElement
  <2>3. T \cup {x} \in SUBSET S
    OBVIOUS
  <2>4. QED
    BY <2>1, <2>2, <2>3
<1>3. S \in G
  <2> HIDE DEF G
  <2>1. QED
    BY <1>1, <1>2, GrowsTo
<1>4. QED
  BY <1>3

(* GROUP BY after a join that has one row for each of S: the groups of the
   keys C add up to what the members of S have whose rows these groups are.  *)
IsGroupedJoin(S, f, b, R, g, key, C, h) ==
    /\ IsFiniteSet(S) /\ \A x \in S : f[x] \in Int
    /\ \A x \in S : b[x] \in R /\ g[b[x]] = f[x]
    /\ \A x, y \in S : b[x] = b[y] => x = y
    /\ \A r \in R : key[r] \in C <=> \E x \in S : r = b[x]
    /\ \A k \in C : \E r \in R : key[r] = k
    /\ DOMAIN h = C
    /\ \A k \in C : h[k] = SumFunctionOnSet(g, {r \in R : key[r] = k})

LEMMA SumOfGroupedJoin ==
    ASSUME NEW S, NEW f, NEW b, NEW R, NEW g, NEW key, NEW C, NEW h,
           IsGroupedJoin(S, f, b, R, g, key, C, h)
    PROVE  SumFunction(h) = SumFunctionOnSet(f, S)
<1> USE DEF IsGroupedJoin
<1> DEFINE B == {b[x] : x \in S}
<1>1. IsFiniteSet(B)
  BY FiniteImage
<1>2. \A r \in B : g[r] \in Int /\ key[r] \in C /\ r \in R
  OBVIOUS
<1>3. \A k \in C : {r \in R : key[r] = k} = {r \in B : key[r] = k}
  OBVIOUS
<1>4. SumFunctionOnSet(g, B) = SumFunctionOnSet(f, S)
  BY SumRenamed
<1>5. IsFiniteSet(C)
  <2>1. C = {key[r] : r \in B}
    OBVIOUS
  <2> HIDE DEF B
  <2>2. QED
    BY <1>1, <2>1, FiniteImage
<1> HIDE DEF B
<1>6. \A k \in C : h[k] = SumFunctionOnSet(g, {r \in B : key[r] = k})
  BY <1>3
<1>7. SumFunctionOnSet(h, C) = SumFunctionOnSet(g, B)
  BY <1>1, <1>2, <1>5, <1>6, SumOfGroups
<1>8. SumFunction(h) = SumFunctionOnSet(h, C)
  BY DEF SumFunction
<1>9. QED
  BY <1>4, <1>7, <1>8

-----------------------------------------------------------------------------
(* Clubs *)

Measures == { "matches_played", "wins", "draws", "losses", "goals_for", "goals_against",
              "points", "clean_sheets" }

(* What a perspective adds to a standing. *)
Counts(holds) == IF holds THEN 1 ELSE 0

Share(v, x) ==
    LET p == Perspective(v, x)
    IN  [ matches_played |-> 1,
          wins           |-> Counts(p.result = "win"),
          draws          |-> Counts(p.result = "draw"),
          losses         |-> Counts(p.result = "loss"),
          goals_for      |-> Coalesce(p.goals_for),
          goals_against  |-> Coalesce(p.goals_against),
          points         |-> 3 * Counts(p.result = "win") + Counts(p.result = "draw"),
          clean_sheets   |-> Counts(Coalesce(p.goals_against) = 0) ]

HasGoals(v, x) ==
    {Perspective(v, x).goals_for, Perspective(v, x).goals_against} \subseteq Int \cup {NULL}

LEMMA SumOfCounts ==
    ASSUME NEW S, IsFiniteSet(S), NEW f, NEW T \in SUBSET S, \A x \in S : f[x] = Counts(x \in T)
    PROVE  SumFunctionOnSet(f, S) = Cardinality(T)
<1>1. \A x \in S : f[x] \in {0, 1} /\ (f[x] = 1 <=> x \in T)
  BY DEF Counts
<1>2. {x \in S : f[x] = 1} = T
  BY <1>1
<1>3. QED
  BY <1>1, <1>2, SumCounts

LEMMA StandingIsSum ==
    ASSUME NEW v, NEW rows, IsFiniteSet(rows), \A x \in rows : HasGoals(v, x)
    PROVE  /\ DOMAIN Standing(v, rows) = Measures
           /\ \A field \in Measures : \A f : (\A x \in rows : f[x] = Share(v, x)[field]) =>
                 Standing(v, rows)[field] = SumFunctionOnSet(f, rows)
<1> DEFINE st == Standing(v, rows)
           Of(result) == {x \in rows : Perspective(v, x).result = result}
           clean == {x \in rows : Coalesce(Perspective(v, x).goals_against) = 0}
<1>1. /\ DOMAIN st = Measures
      /\ st.matches_played = Cardinality(rows)
      /\ st.wins = Cardinality(Of("win")) /\ st.draws = Cardinality(Of("draw"))
      /\ st.losses = Cardinality(Of("loss"))
      /\ st.goals_for = SumOf([x \in rows |-> Perspective(v, x).goals_for])
      /\ st.goals_against = SumOf([x \in rows |-> Perspective(v, x).goals_against])
      /\ st.points = 3 * Cardinality(Of("win")) + Cardinality(Of("draw"))
      /\ st.clean_sheets = Cardinality(clean)
  BY DEF Standing, Measures
<1> HIDE DEF st
<1>2. ASSUME NEW result, NEW f, \A x \in rows : f[x] = Counts(Perspective(v, x).result = result)
      PROVE  SumFunctionOnSet(f, rows) = Cardinality(Of(result))
  <2>1. Of(result) \in SUBSET rows /\ \A x \in rows : f[x] = Counts(x \in Of(result))
    BY <1>2
  <2> HIDE DEF Of
  <2>2. QED
    BY <2>1, SumOfCounts
<1>3. ASSUME NEW f, \A x \in rows : f[x] = Share(v, x)["matches_played"]
      PROVE  st.matches_played = SumFunctionOnSet(f, rows)
  <2>1. \A x \in rows : f[x] = Counts(x \in rows)
    BY <1>3 DEF Share, Counts
  <2>2. QED
    BY <1>1, <2>1, SumOfCounts
<1>4. ASSUME NEW f, \A x \in rows : f[x] = Share(v, x)["wins"]
      PROVE  st.wins = SumFunctionOnSet(f, rows)
  <2>1. \A x \in rows : f[x] = Counts(Perspective(v, x).result = "win")
    BY <1>4 DEF Share
  <2>2. QED
    BY <1>1, <1>2, <2>1
<1>5. ASSUME NEW f, \A x \in rows : f[x] = Share(v, x)["draws"]
      PROVE  st.draws = SumFunctionOnSet(f, rows)
  <2>1. \A x \in rows : f[x] = Counts(Perspective(v, x).result = "draw")
    BY <1>5 DEF Share
  <2>2. QED
    BY <1>1, <1>2, <2>1
<1>6. ASSUME NEW f, \A x \in rows : f[x] = Share(v, x)["losses"]
      PROVE  st.losses = SumFunctionOnSet(f, rows)
  <2>1. \A x \in rows : f[x] = Counts(Perspective(v, x).result = "loss")
    BY <1>6 DEF Share
  <2>2. QED
    BY <1>1, <1>2, <2>1
<1>7. ASSUME NEW f, \A x \in rows : f[x] = Share(v, x)["goals_for"]
      PROVE  st.goals_for = SumFunctionOnSet(f, rows)
  <2> DEFINE e == [x \in rows |-> Perspective(v, x).goals_for]
  <2>1. \A x \in rows : f[x] \in Int /\ f[x] = Coalesce(e[x])
    <3>1. \A x \in rows : f[x] = Coalesce(Perspective(v, x).goals_for)
      BY <1>7 DEF Share
    <3>2. QED
      BY <3>1 DEF HasGoals, Coalesce
  <2>2. DOMAIN e = rows /\ st.goals_for = SumOf(e)
    BY <1>1
  <2> HIDE DEF e
  <2>3. QED
    BY <2>1, <2>2, SumOfColumn
<1>8. ASSUME NEW f, \A x \in rows : f[x] = Share(v, x)["goals_against"]
      PROVE  st.goals_against = SumFunctionOnSet(f, rows)
  <2> DEFINE e == [x \in rows |-> Perspective(v, x).goals_against]
  <2>1. \A x \in rows : f[x] \in Int /\ f[x] = Coalesce(e[x])
    <3>1. \A x \in rows : f[x] = Coalesce(Perspective(v, x).goals_against)
      BY <1>8 DEF Share
    <3>2. QED
      BY <3>1 DEF HasGoals, Coalesce
  <2>2. DOMAIN e = rows /\ st.goals_against = SumOf(e)
    BY <1>1
  <2> HIDE DEF e
  <2>3. QED
    BY <2>1, <2>2, SumOfColumn
<1>9. ASSUME NEW f, \A x \in rows : f[x] = Share(v, x)["points"]
      PROVE  st.points = SumFunctionOnSet(f, rows)
  <2> DEFINE g == [x \in rows |-> Counts(Perspective(v, x).result = "win")]
             h == [x \in rows |-> Counts(Perspective(v, x).result = "draw")]
  <2>1. \A x \in rows : f[x] = 3 * Counts(Perspective(v, x).result = "win")
                                + Counts(Perspective(v, x).result = "draw")
    BY <1>9 DEF Share
  <2>2. \A x \in rows : /\ g[x] = Counts(Perspective(v, x).result = "win")
                        /\ h[x] = Counts(Perspective(v, x).result = "draw")
                        /\ g[x] \in Int /\ h[x] \in Int
    BY DEF Counts
  <2> HIDE DEF g, h
  <2>3. SumFunctionOnSet(f, rows) = 3 * SumFunctionOnSet(g, rows) + SumFunctionOnSet(h, rows)
    BY <2>1, <2>2, SumOfPoints
  <2>4. /\ SumFunctionOnSet(g, rows) = Cardinality(Of("win"))
        /\ SumFunctionOnSet(h, rows) = Cardinality(Of("draw"))
    BY <1>2, <2>2
  <2>5. QED
    BY <1>1, <2>3, <2>4
<1>10. ASSUME NEW f, \A x \in rows : f[x] = Share(v, x)["clean_sheets"]
       PROVE  st.clean_sheets = SumFunctionOnSet(f, rows)
  <2>1. \A x \in rows : f[x] = Counts(Coalesce(Perspective(v, x).goals_against) = 0)
    BY <1>10 DEF Share
  <2>2. clean \in SUBSET rows /\ \A x \in rows : f[x] = Counts(x \in clean)
    BY <2>1
  <2> HIDE DEF clean
  <2>3. QED
    BY <1>1, <2>2, SumOfCounts
<1>11. QED
  BY <1>1, <1>3, <1>4, <1>5, <1>6, <1>7, <1>8, <1>9, <1>10 DEF Measures, st

LEMMA SharesAreNumbers ==
    ASSUME NEW v, NEW x, HasGoals(v, x), NEW field \in Measures
    PROVE  Share(v, x)[field] \in Int
<1>1. \A p : Counts(p) \in Int
  BY DEF Counts
<1>2. Coalesce(Perspective(v, x).goals_for) \in Int /\ Coalesce(Perspective(v, x).goals_against) \in Int
  BY DEF HasGoals, Coalesce
<1>3. QED
  BY <1>1, <1>2 DEF Share, Measures

ClubRow(v, club) == CHOOSE c : ClubRows(v, club) = {c}

(* What the table of a season needs of the views. *)
Plain(v) ==
    /\ IsFiniteSet(DOMAIN v.fact_games)
    /\ OneClubEach(v)
    /\ \A x \in Perspectives(v) : HasGoals(v, x)

JoinedRow(v, x) == <<x[1], x[2], ClubRow(v, Perspective(v, x).club_id)>>

LEMMA TwoSides ==
    IsFiniteSet({"home", "away"}) /\ Cardinality({"home", "away"}) = 2
<1>1. IsFiniteSet({"home"}) /\ Cardinality({"home"}) = 1
  BY FS_Singleton
<1>2. {"home", "away"} = {"home"} \cup {"away"} /\ "away" \notin {"home"}
  OBVIOUS
<1>3. /\ IsFiniteSet({"home"} \cup {"away"})
      /\ Cardinality({"home"} \cup {"away"}) = Cardinality({"home"}) + 1
  BY <1>1, <1>2, FS_AddElement
<1>4. QED
  BY <1>1, <1>2, <1>3

LEMMA JoinedRows ==
    ASSUME NEW v, Plain(v)
    PROVE  /\ ClubSeasonRows(v) = {JoinedRow(v, x) : x \in Perspectives(v)}
           /\ \A x, y \in Perspectives(v) : JoinedRow(v, x) = JoinedRow(v, y) => x = y
           /\ \A x \in Perspectives(v) : /\ Perspective(v, JoinedRow(v, x)) = Perspective(v, x)
                                        /\ Share(v, JoinedRow(v, x)) = Share(v, x)
           /\ IsFiniteSet(Perspectives(v)) /\ IsFiniteSet(ClubSeasonRows(v))
           /\ \A r \in ClubSeasonRows(v) : HasGoals(v, r)
<1>1. \A club : ClubRows(v, club) = {ClubRow(v, club)}
  BY DEF Plain, OneClubEach, ClubRow
<1>2. ClubSeasonRows(v) = {JoinedRow(v, x) : x \in Perspectives(v)}
  BY <1>1 DEF ClubSeasonRows, JoinedRow
<1>3. \A x, y \in Perspectives(v) : JoinedRow(v, x) = JoinedRow(v, y) => x = y
  BY DEF JoinedRow, Perspectives
<1>4. ASSUME NEW x \in Perspectives(v)
      PROVE  /\ Perspective(v, JoinedRow(v, x)) = Perspective(v, x)
             /\ Share(v, JoinedRow(v, x)) = Share(v, x)
  <2>1. JoinedRow(v, x)[1] = x[1] /\ JoinedRow(v, x)[2] = x[2]
    BY DEF JoinedRow
  <2>2. Perspective(v, JoinedRow(v, x)) = Perspective(v, x)
    BY <2>1 DEF Perspective
  <2>3. QED
    BY <2>2 DEF Share
<1>5. IsFiniteSet(Perspectives(v))
  <2>1. IsFiniteSet({"home", "away"})
    BY TwoSides
  <2>2. QED
    BY <2>1, FS_Product DEF Plain, Perspectives
<1>6. IsFiniteSet(ClubSeasonRows(v))
  <2> DEFINE b == [x \in Perspectives(v) |-> JoinedRow(v, x)]
  <2>1. ClubSeasonRows(v) = {b[x] : x \in Perspectives(v)}
    BY <1>2
  <2> HIDE DEF b
  <2>2. QED
    BY <1>5, <2>1, FiniteImage
<1>7. \A r \in ClubSeasonRows(v) : HasGoals(v, r)
  BY <1>2, <1>4 DEF HasGoals, Plain
<1>8. QED
  BY <1>2, <1>3, <1>4, <1>5, <1>6, <1>7

(* The standings of some keys add up to what the perspectives of these keys
   have: none is lost in the join and the grouping, and none doubled.        *)
LEMMA TableSums ==
    ASSUME NEW v, Plain(v), NEW keys, keys \subseteq DOMAIN club_season_summary(v),
           NEW field \in Measures,
           NEW S \in SUBSET Perspectives(v),
           \A x \in Perspectives(v) : x \in S <=> ClubSeasonKey(v, JoinedRow(v, x)) \in keys,
           NEW f, \A x \in S : f[x] = Share(v, x)[field]
    PROVE  SumFunction([k \in keys |-> club_season_summary(v)[k][field]]) = SumFunctionOnSet(f, S)
<1> DEFINE P == Perspectives(v)
           R == ClubSeasonRows(v)
           b == [x \in P |-> JoinedRow(v, x)]
           g == [r \in R |-> Share(v, r)[field]]
           key == [r \in R |-> ClubSeasonKey(v, r)]
           table == club_season_summary(v)
           h == [k \in keys |-> table[k][field]]
<1>1. /\ R = {JoinedRow(v, x) : x \in P}
      /\ \A x, y \in P : JoinedRow(v, x) = JoinedRow(v, y) => x = y
      /\ \A x \in P : Share(v, JoinedRow(v, x)) = Share(v, x)
      /\ IsFiniteSet(P) /\ IsFiniteSet(R)
      /\ \A r \in R : HasGoals(v, r)
  BY JoinedRows
<1>2. /\ DOMAIN table = {ClubSeasonKey(v, r) : r \in R}
      /\ \A k \in DOMAIN table : table[k] = Standing(v, {r \in R : ClubSeasonKey(v, r) = k})
  BY DEF club_season_summary
<1> HIDE DEF P, R, table
<1>3. IsFiniteSet(S) /\ S \subseteq P
  BY <1>1, FS_Subset DEF P
<1>4. \A x \in S : f[x] \in Int
  BY SharesAreNumbers DEF Plain
<1>5. /\ \A x, y \in S : b[x] = b[y] => x = y
      /\ \A x \in S : b[x] \in R /\ g[b[x]] = f[x]
  BY <1>1, <1>3
<1>6. \A r \in R : key[r] \in keys <=> \E x \in S : r = b[x]
  <2>1. ASSUME NEW r \in R PROVE key[r] \in keys <=> \E x \in S : r = b[x]
    <3>1. PICK y \in P : r = JoinedRow(v, y)
      BY <1>1
    <3>2. key[r] \in keys <=> y \in S
      BY <3>1 DEF P
    <3>3. \A x \in S : r = b[x] => x = y
      BY <1>1, <1>3, <3>1
    <3>4. y \in S => r = b[y]
      BY <3>1
    <3>5. QED
      BY <3>2, <3>3, <3>4
  <2>2. QED
    BY <2>1
<1>7. \A k \in keys : \E r \in R : key[r] = k
  BY <1>2 DEF table
<1>8. ASSUME NEW k \in keys
      PROVE  h[k] = SumFunctionOnSet(g, {r \in R : key[r] = k})
  <2> DEFINE rows == {r \in R : ClubSeasonKey(v, r) = k}
  <2>1. rows = {r \in R : key[r] = k}
    OBVIOUS
  <2>2. IsFiniteSet(rows)
    BY <1>1, FS_Subset
  <2>3. \A r \in rows : HasGoals(v, r) /\ g[r] = Share(v, r)[field]
    BY <1>1
  <2>4. h[k] = Standing(v, rows)[field]
    BY <1>2 DEF table
  <2> HIDE DEF rows, g, h, key
  <2>5. Standing(v, rows)[field] = SumFunctionOnSet(g, rows)
    BY <2>2, <2>3, StandingIsSum
  <2>6. QED
    BY <2>1, <2>4, <2>5
<1>9. DOMAIN h = keys
  OBVIOUS
<1>10. SumFunction(h) = SumFunctionOnSet(f, S)
  <2> HIDE DEF h, g, key, b
  <2>1. \A x \in S : b[x] \in R
    BY <1>5
  <2>2. \A x \in S : g[b[x]] = f[x]
    BY <1>5
  <2>3. \A x, y \in S : b[x] = b[y] => x = y
    BY <1>5
  <2>4. QED
    <3>1. IsGroupedJoin(S, f, b, R, g, key, keys, h)
      BY <1>3, <1>4, <1>6, <1>7, <1>8, <1>9, <2>1, <2>2, <2>3, Zenon DEF IsGroupedJoin
    <3>2. QED
      BY <3>1, SumOfGroupedJoin
<1>11. QED
  BY <1>10 DEF h, table

(* The other side of the game. *)
OtherSide(x) == <<x[1], IF x[2] = "home" THEN "away" ELSE "home">>

LEMMA SidesSwap ==
    ASSUME NEW v, NEW x \in Perspectives(v)
    PROVE  /\ OtherSide(x) \in Perspectives(v)
           /\ \E y \in Perspectives(v) : x = OtherSide(y)
           /\ \A y \in Perspectives(v) : OtherSide(x) = OtherSide(y) => x = y
           /\ Share(v, OtherSide(x))["losses"] = Share(v, x)["wins"]
           /\ Share(v, OtherSide(x))["goals_against"] = Share(v, x)["goals_for"]
<1>1. PICK g \in DOMAIN v.fact_games, side \in {"home", "away"} : x = <<g, side>>
  BY DEF Perspectives
<1> DEFINE other == IF side = "home" THEN "away" ELSE "home"
<1>2. OtherSide(x) = <<g, other>>
  BY <1>1 DEF OtherSide
<1>3. OtherSide(x) \in Perspectives(v) /\ x = OtherSide(<<g, other>>)
      /\ <<g, other>> \in Perspectives(v)
  BY <1>1, <1>2 DEF OtherSide, Perspectives
<1>4. \A y \in Perspectives(v) : OtherSide(x) = OtherSide(y) => x = y
  BY <1>1 DEF OtherSide, Perspectives
<1>5. /\ Perspective(v, OtherSide(x)).result = "loss" <=> Perspective(v, x).result = "win"
      /\ Perspective(v, OtherSide(x)).goals_against = Perspective(v, x).goals_for
  BY <1>1, <1>2 DEF Perspective
<1>6. QED
  BY <1>3, <1>4, <1>5 DEF Share

LEMMA SidesBalance ==
    ASSUME NEW v, Plain(v), NEW f, NEW h,
           \A x \in Perspectives(v) : f[x] \in Int /\ h[OtherSide(x)] = f[x]
    PROVE  SumFunctionOnSet(h, Perspectives(v)) = SumFunctionOnSet(f, Perspectives(v))
<1> DEFINE P == Perspectives(v)
           b == [x \in P |-> OtherSide(x)]
<1>1. IsFiniteSet(P)
  BY JoinedRows
<1>2. P = {b[x] : x \in P}
  BY SidesSwap
<1>3. \A x, y \in P : b[x] = b[y] => x = y
  BY SidesSwap
<1>4. \A x \in P : h[b[x]] = f[x] /\ f[x] \in Int
  OBVIOUS
<1> HIDE DEF P, b
<1>5. SumFunctionOnSet(h, {b[x] : x \in P}) = SumFunctionOnSet(f, P)
  BY <1>1, <1>3, <1>4, SumRenamed
<1>6. QED
  BY <1>2, <1>5 DEF P

LEMMA TwoOfEveryGame ==
    ASSUME NEW v, NEW b, NEW games, IsViewOf(v.fact_games, b, games), IsFiniteSet(DOMAIN games)
    PROVE  /\ IsFiniteSet(DOMAIN v.fact_games)
           /\ Cardinality(Perspectives(v)) = 2 * Cardinality(DOMAIN games)
<1> DEFINE D == DOMAIN games
<1>1. IsFiniteSet({b}) /\ Cardinality({b}) = 1
  BY FS_Singleton
<1>2. IsFiniteSet({b} \X D) /\ Cardinality({b} \X D) = 1 * Cardinality(D)
  BY <1>1, FS_Product
<1>3. Cardinality(D) \in Nat
  BY FS_CardinalityType
<1>4. DOMAIN v.fact_games = {b} \X D
  BY DEF IsViewOf
<1> HIDE DEF D
<1>5. Cardinality(({b} \X D) \X {"home", "away"}) =
         Cardinality({b} \X D) * Cardinality({"home", "away"})
  BY <1>2, TwoSides, FS_Product
<1>6. Cardinality(Perspectives(v)) = Cardinality({b} \X D) * 2
  BY <1>4, <1>5, TwoSides DEF Perspectives
<1>7. QED
  BY <1>2, <1>3, <1>4, <1>6 DEF D

LEMMA SeasonsBalance ==
    ASSUME NEW v, Plain(v)
    PROVE  LET table == club_season_summary(v)
               metrics == club_performance_metrics(v)
               Total(field, keys) == SumFunction([k \in keys |-> table[k][field]])
           IN  /\ Total("wins", DOMAIN table) = Total("losses", DOMAIN table)
               /\ Total("goals_for", DOMAIN table) = Total("goals_against", DOMAIN table)
               /\ Total("matches_played", DOMAIN table) = Cardinality(Perspectives(v))
               /\ \A r \in DOMAIN metrics : \A field \in DOMAIN metrics[r] :
                     metrics[r][field] = Total(field, {k \in DOMAIN table : k.club_id = r[1]})
<1> DEFINE P == Perspectives(v)
           table == club_season_summary(v)
           metrics == club_performance_metrics(v)
           Total(field, keys) == SumFunction([k \in keys |-> table[k][field]])
           f == [field \in Measures |-> [x \in P |-> Share(v, x)[field]]]
<1>1. IsFiniteSet(P) /\ \A x \in P : HasGoals(v, x)
  BY JoinedRows DEF Plain
<1>2. \A field \in Measures : \A x \in P :
          f[field][x] = Share(v, x)[field] /\ f[field][x] \in Int
  BY <1>1, SharesAreNumbers
<1>3. /\ DOMAIN table = {ClubSeasonKey(v, r) : r \in ClubSeasonRows(v)}
      /\ \A x \in P : JoinedRow(v, x) \in ClubSeasonRows(v)
      /\ \A x \in P : ClubSeasonKey(v, JoinedRow(v, x)).club_id = Perspective(v, x).club_id
  <2>1. DOMAIN table = {ClubSeasonKey(v, r) : r \in ClubSeasonRows(v)}
    BY DEF club_season_summary
  <2>2. \A x \in P : /\ JoinedRow(v, x) \in ClubSeasonRows(v)
                     /\ Perspective(v, JoinedRow(v, x)) = Perspective(v, x)
    BY JoinedRows
  <2>3. QED
    BY <2>1, <2>2 DEF ClubSeasonKey
<1> HIDE DEF f
<1>4. ASSUME NEW field \in Measures
      PROVE  Total(field, DOMAIN table) = SumFunctionOnSet(f[field], P)
  <2>1. \A x \in P : x \in P <=> ClubSeasonKey(v, JoinedRow(v, x)) \in DOMAIN table
    BY <1>3
  <2>2. P \in SUBSET Perspectives(v) /\ \A x \in P : f[field][x] = Share(v, x)[field]
    BY <1>2
  <2>3. QED
    BY <2>1, <2>2, TableSums
<1>5. Total("wins", DOMAIN table) = Total("losses", DOMAIN table)
  <2>1. \A x \in P : f["wins"][x] \in Int /\ f["losses"][OtherSide(x)] = f["wins"][x]
    BY <1>2, SidesSwap DEF Measures
  <2>2. SumFunctionOnSet(f["losses"], P) = SumFunctionOnSet(f["wins"], P)
    BY <2>1, SidesBalance
  <2>3. "wins" \in Measures /\ "losses" \in Measures
    BY DEF Measures
  <2> HIDE DEF Total, P
  <2>4. QED
    BY <1>4, <2>2, <2>3
<1>6. Total("goals_for", DOMAIN table) = Total("goals_against", DOMAIN table)
  <2>1. \A x \in P : f["goals_for"][x] \in Int /\ f["goals_against"][OtherSide(x)] = f["goals_for"][x]
    BY <1>2, SidesSwap DEF Measures
  <2>2. SumFunctionOnSet(f["goals_against"], P) = SumFunctionOnSet(f["goals_for"], P)
    BY <2>1, SidesBalance
  <2>3. "goals_for" \in Measures /\ "goals_against" \in Measures
    BY DEF Measures
  <2> HIDE DEF Total, P
  <2>4. QED
    BY <1>4, <2>2, <2>3
<1>7. Total("matches_played", DOMAIN table) = Cardinality(P)
  <2>1. "matches_played" \in Measures
    BY DEF Measures
  <2>2. \A x \in P : f["matches_played"][x] = Counts(x \in P)
    BY <1>2, <2>1 DEF Share, Counts
  <2>3. SumFunctionOnSet(f["matches_played"], P) = Cardinality(P)
    BY <1>1, <2>2, SumOfCounts
  <2> HIDE DEF Total, P
  <2>4. QED
    BY <1>4, <2>1, <2>3
<1>8. ASSUME NEW r \in DOMAIN metrics
      PROVE  \A field \in DOMAIN metrics[r] :
                metrics[r][field] = Total(field, {k \in DOMAIN table : k.club_id = r[1]})
  <2> DEFINE mine == {x \in P : Perspective(v, x).club_id = r[1]}
             keys == {k \in DOMAIN table : k.club_id = r[1]}
  <2>1. metrics[r] = Standing(v, mine)
    BY DEF club_performance_metrics
  <2>2. mine \in SUBSET P /\ IsFiniteSet(mine) /\ \A x \in mine : HasGoals(v, x)
    BY <1>1, FS_Subset
  <2>3. \A x \in P : x \in mine <=> ClubSeasonKey(v, JoinedRow(v, x)) \in keys
    BY <1>3
  <2>4. keys \subseteq DOMAIN table
    OBVIOUS
  <2> HIDE DEF mine, keys, metrics
  <2>5. DOMAIN metrics[r] = Measures
    BY <2>1, <2>2, StandingIsSum
  <2>6. ASSUME NEW field \in Measures
        PROVE  metrics[r][field] = Total(field, keys)
    <3>1. \A x \in mine : f[field][x] = Share(v, x)[field]
      BY <1>2, <2>2
    <3>2. Standing(v, mine)[field] = SumFunctionOnSet(f[field], mine)
      BY <2>2, <3>1, StandingIsSum
    <3>3. Total(field, keys) = SumFunctionOnSet(f[field], mine)
      BY <2>2, <2>3, <2>4, <3>1, TableSums
    <3>4. QED
      BY <2>1, <3>2, <3>3
  <2>7. QED
    BY <2>5, <2>6 DEF keys
<1>9. QED
  BY <1>5, <1>6, <1>7, <1>8

-----------------------------------------------------------------------------
(* Scorers *)

LEMMA CardinalityRenamed ==
    ASSUME NEW S, IsFiniteSet(S), NEW b, \A x, y \in S : b[x] = b[y] => x = y
    PROVE  Cardinality({b[x] : x \in S}) = Cardinality(S)
<1> DEFINE B == {b[x] : x \in S}
           f == [x \in S |-> 1]
           h == [y \in B |-> 1]
<1>1. IsFiniteSet(B)
  BY FiniteImage
<1>2. /\ \A x \in S : b[x] \in B /\ f[x] = 1 /\ f[x] = Counts(x \in S)
      /\ \A y \in B : h[y] = Counts(y \in B)
      /\ \A x \in S : f[x] \in Int /\ h[b[x]] = f[x]
  BY DEF Counts
<1>3. SumFunctionOnSet(h, B) = SumFunctionOnSet(f, S)
  <2> HIDE DEF h, f
  <2>1. QED
    BY <1>2, SumRenamed
<1> HIDE DEF B, h, f
<1>4. SumFunctionOnSet(f, S) = Cardinality(S) /\ SumFunctionOnSet(h, B) = Cardinality(B)
  BY <1>1, <1>2, SumOfCounts
<1>5. QED
  BY <1>3, <1>4 DEF B

LEMMA SumOfOne ==
    ASSUME NEW x, NEW h, DOMAIN h = {x}, h[x] \in Int
    PROVE  SumFunction(h) = h[x]
<1>1. {x} = {} \cup {x} /\ x \notin {}
  OBVIOUS
<1>2. SumFunctionOnSet(h, {} \cup {x}) = h[x] + SumFunctionOnSet(h, {})
  BY FS_EmptySet, SumWith
<1>3. SumFunctionOnSet(h, {x}) = h[x] + 0
  BY <1>1, <1>2, SumOfNone
<1>4. QED
  BY <1>3 DEF SumFunction

(* The rows of a table are in its view under other names. *)
IsNamed(view, at, table) ==
    /\ \A k \in DOMAIN table : at[k] \in DOMAIN view /\ view[at[k]] = table[k]
    /\ \A x \in DOMAIN view : \E k \in DOMAIN table : x = at[k]
    /\ \A k, l \in DOMAIN table : at[k] = at[l] => k = l

LEMMA ViewIsNamed ==
    ASSUME NEW view, NEW b, NEW table, IsViewOf(view, b, table)
    PROVE  \E at : IsNamed(view, at, table)
<1> DEFINE at == [k \in DOMAIN table |-> <<b, k>>]
<1>1. \A k \in DOMAIN table : at[k] \in DOMAIN view /\ view[at[k]] = table[k]
  BY DEF IsViewOf
<1>2. \A x \in DOMAIN view : \E k \in DOMAIN table : x = at[k]
  BY DEF IsViewOf
<1>3. \A k, l \in DOMAIN table : at[k] = at[l] => k = l
  OBVIOUS
<1> HIDE DEF at
<1>4. IsNamed(view, at, table)
  BY <1>1, <1>2, <1>3 DEF IsNamed
<1>5. QED
  BY <1>4

(* The appearances A of the frame a are those that resolve: ap names their rows
   in the view, ve those of the versions they resolve to.                    *)
Scored(v, A, a, ap, ve) ==
    /\ IsFiniteSet(A) /\ OneClubEach(v)
    /\ ResolvedAppearances(v) = {<<ap[i], ve[i]>> : i \in A}
    /\ \A i, j \in A : ap[i] = ap[j] => i = j
    /\ \A i \in A : /\ v.fact_appearances[ap[i]].season = derive_season(a[i].date)
                    /\ v.fact_appearances[ap[i]].goals = a[i].goals
                    /\ a[i].goals \in Int \cup {NULL}
                    /\ ve[i] \in DOMAIN v.dim_players
                    /\ v.dim_players[ve[i]].player = a[i].player_id
    /\ \A p \in DOMAIN v.dim_players : v.dim_players[p].is_current
    /\ \A p, q \in DOMAIN v.dim_players : v.dim_players[p].player = v.dim_players[q].player => p = q

(* What an appearance adds to the totals. *)
Part(v, r) == [ appearance_count |-> 1, total_goals |-> Coalesce(v.fact_appearances[r[1]].goals) ]

LEMMA TotalsAreSums ==
    ASSUME NEW v, NEW rows, IsFiniteSet(rows),
           \A r \in rows : v.fact_appearances[r[1]].goals \in Int \cup {NULL}
    PROVE  \A field \in {"appearance_count", "total_goals"} :
             \A f : (\A r \in rows : f[r] = Part(v, r)[field]) =>
                Totals(v, rows)[field] = SumFunctionOnSet(f, rows)
<1>1. ASSUME NEW f, \A r \in rows : f[r] = Part(v, r)["appearance_count"]
      PROVE  Totals(v, rows)["appearance_count"] = SumFunctionOnSet(f, rows)
  <2>1. \A r \in rows : f[r] = Counts(r \in rows)
    BY <1>1 DEF Part, Counts
  <2>2. QED
    BY <2>1, SumOfCounts DEF Totals
<1>2. ASSUME NEW f, \A r \in rows : f[r] = Part(v, r)["total_goals"]
      PROVE  Totals(v, rows)["total_goals"] = SumFunctionOnSet(f, rows)
  <2> DEFINE e == [r \in rows |-> v.fact_appearances[r[1]].goals]
  <2>1. \A r \in rows : f[r] \in Int /\ f[r] = Coalesce(e[r])
    BY <1>2 DEF Part, Coalesce
  <2>2. DOMAIN e = rows /\ Totals(v, rows)["total_goals"] = SumOf(e)
    BY DEF Totals
  <2> HIDE DEF e
  <2>3. QED
    BY <2>1, <2>2, SumOfColumn
<1>3. QED
  BY <1>1, <1>2

ScorerRow(v, x, y) == <<x, y, ClubRow(v, v.dim_players[y].attr.current_club_id)>>

(* The appearances of a player, and those in a season. *)
Mine(A, a, player) == {i \in A : a[i].player_id = player}

MineIn(A, a, player, season) ==
    {i \in A : a[i].player_id = player /\ derive_season(a[i].date) = season}

(* The totals of some keys add up to what the appearances of these keys have. *)
LEMMA ScorerSums ==
    ASSUME NEW v, NEW A, NEW a, NEW ap, NEW ve, Scored(v, A, a, ap, ve),
           NEW player, NEW season, NEW field \in {"appearance_count", "total_goals"},
           NEW f, field = "appearance_count" => \A i \in A : f[i] = 1,
           field = "total_goals" => \A i \in A : f[i] = Coalesce(a[i].goals)
    PROVE  SeasonTotal(top_scorers_by_season(v), field, player, season) =
              SumFunctionOnSet(f, MineIn(A, a, player, season))
<1> DEFINE scorers == top_scorers_by_season(v)
           keys == {k \in DOMAIN scorers : k.player_id = player /\ k.season = season}
           played == {i \in A : a[i].player_id = player /\ derive_season(a[i].date) = season}
           R == ScorerRows(v)
           b == [i \in A |-> ScorerRow(v, ap[i], ve[i])]
           g == [r \in R |-> Part(v, r)[field]]
           key == [r \in R |-> ScorerKey(v, r)]
           h == [k \in keys |-> scorers[k][field]]
<1>1. IsFiniteSet(A) /\ IsFiniteSet(played) /\ \A i \in A : f[i] \in Int
  BY FS_Subset DEF Scored, Coalesce
<1>2. R = {ScorerRow(v, ap[i], ve[i]) : i \in A}
  <2>1. \A club : ClubRows(v, club) = {ClubRow(v, club)}
    BY DEF Scored, OneClubEach, ClubRow
  <2>2. R = UNION { {<<x[1], x[2], c>> : c \in {ClubRow(v, v.dim_players[x[2]].attr.current_club_id)}} :
                       x \in ResolvedAppearances(v) }
    BY <2>1 DEF ScorerRows
  <2>3. R = {ScorerRow(v, x[1], x[2]) : x \in ResolvedAppearances(v)}
    BY <2>2 DEF ScorerRow
  <2>4. ASSUME NEW i \in A
        PROVE  ScorerRow(v, ap[i], ve[i]) \in R
    <3>1. PICK x : x = <<ap[i], ve[i]>>
      OBVIOUS
    <3>2. x \in ResolvedAppearances(v) /\ x[1] = ap[i] /\ x[2] = ve[i]
      BY <3>1 DEF Scored
    <3>3. ScorerRow(v, x[1], x[2]) \in R
      BY <2>3, <3>2
    <3>4. QED
      BY <3>2, <3>3
  <2>5. ASSUME NEW r \in R
        PROVE  \E i \in A : r = ScorerRow(v, ap[i], ve[i])
    <3>1. PICK x \in ResolvedAppearances(v) : r = ScorerRow(v, x[1], x[2])
      BY <2>3
    <3>2. PICK i \in A : x = <<ap[i], ve[i]>>
      BY DEF Scored
    <3>3. x[1] = ap[i] /\ x[2] = ve[i]
      BY <3>2
    <3>4. QED
      BY <3>1, <3>3
  <2> HIDE DEF R
  <2>6. QED
    BY <2>4, <2>5
<1>3. \A i \in A : /\ ScorerRow(v, ap[i], ve[i])[1] = ap[i]
                   /\ ScorerRow(v, ap[i], ve[i])[2] = ve[i]
  BY DEF ScorerRow
<1>4. /\ DOMAIN scorers = {ScorerKey(v, r) : r \in R}
      /\ \A k \in DOMAIN scorers : scorers[k] = Totals(v, {r \in R : ScorerKey(v, r) = k})
  BY DEF top_scorers_by_season
<1>5. \A i \in A : /\ ScorerKey(v, ScorerRow(v, ap[i], ve[i])).season = derive_season(a[i].date)
                   /\ ScorerKey(v, ScorerRow(v, ap[i], ve[i])).player_id = a[i].player_id
                   /\ Part(v, ScorerRow(v, ap[i], ve[i]))[field] = f[i]
  BY <1>3 DEF ScorerKey, Part, Scored
<1>6. \A r \in R : v.fact_appearances[r[1]].goals \in Int \cup {NULL}
  BY <1>2, <1>3 DEF Scored
<1> HIDE DEF R, scorers
<1>7. \A i \in A : b[i] \in R /\ b[i] = ScorerRow(v, ap[i], ve[i]) /\ g[b[i]] = f[i]
  BY <1>2, <1>5
<1>8. \A i, j \in A : b[i] = b[j] => i = j
  BY <1>3 DEF Scored
<1>9. \A r \in R : \E i \in A : r = b[i]
  BY <1>2
<1>10. \A i \in A : key[b[i]] \in keys <=> i \in played
  BY <1>4, <1>5, <1>7
<1>11. \A k \in keys : \E r \in R : key[r] = k
  BY <1>4
<1>12. IsFiniteSet(R)
  <2>1. R = {b[i] : i \in A}
    BY <1>7, <1>9
  <2> HIDE DEF b
  <2>2. QED
    BY <1>1, <2>1, FiniteImage
<1>13. ASSUME NEW k \in keys
       PROVE  h[k] = SumFunctionOnSet(g, {r \in R : key[r] = k})
  <2> DEFINE rows == {r \in R : ScorerKey(v, r) = k}
  <2>1. rows = {r \in R : key[r] = k}
    OBVIOUS
  <2>2. IsFiniteSet(rows)
    BY <1>12, FS_Subset
  <2>3. \A r \in rows : /\ v.fact_appearances[r[1]].goals \in Int \cup {NULL}
                        /\ g[r] = Part(v, r)[field]
    BY <1>6
  <2>4. h[k] = Totals(v, rows)[field]
    BY <1>4
  <2> HIDE DEF rows, g, h, key
  <2>5. Totals(v, rows)[field] = SumFunctionOnSet(g, rows)
    BY <2>2, <2>3, TotalsAreSums
  <2>6. QED
    BY <2>1, <2>4, <2>5
<1>14. DOMAIN h = keys
  OBVIOUS
<1>15. played \subseteq A
  OBVIOUS
<1> HIDE DEF h, g, key, b, keys, played
<1>16. \A r \in R : key[r] \in keys <=> \E i \in played : r = b[i]
  BY <1>8, <1>9, <1>10, <1>15
<1>17. IsGroupedJoin(played, f, b, R, g, key, keys, h)
  <2>1. \A i \in played : f[i] \in Int /\ b[i] \in R /\ g[b[i]] = f[i]
    BY <1>1, <1>7, <1>15
  <2>2. \A i, j \in played : b[i] = b[j] => i = j
    BY <1>8, <1>15
  <2>3. QED
    BY <1>1, <1>11, <1>13, <1>14, <1>16, <2>1, <2>2, Zenon DEF IsGroupedJoin
<1>18. SumFunction(h) = SumFunctionOnSet(f, played)
  BY <1>17, SumOfGroupedJoin
<1>19. QED
  BY <1>18 DEF h, keys, scorers, played, SeasonTotal, MineIn

LEMMA AppearancesAreNamed ==
    ASSUME NEW v, NEW A, NEW a, NEW ap, NEW ve, Scored(v, A, a, ap, ve), NEW player
    PROVE  LET mine == {i \in A : a[i].player_id = player}
           IN  /\ AppearancesOf(v, player) = {} <=> mine = {}
               /\ IsFiniteSet(mine)
               /\ Cardinality(AppearancesOf(v, player)) = Cardinality(mine)
<1> DEFINE mine == {i \in A : a[i].player_id = player}
           b == [i \in A |-> <<ap[i], ve[i]>>]
<1>1. IsFiniteSet(mine)
  BY FS_Subset DEF Scored
<1>2. \A x : x \in ResolvedAppearances(v) <=> \E i \in A : x = b[i]
  BY DEF Scored
<1>3. \A i \in A : v.dim_players[b[i][2]].player = a[i].player_id
  BY DEF Scored
<1>4. \A i, j \in mine : b[i] = b[j] => i = j
  BY DEF Scored
<1> HIDE DEF b
<1>5. AppearancesOf(v, player) = {b[i] : i \in mine}
  BY <1>2, <1>3 DEF AppearancesOf
<1> HIDE DEF mine
<1>6. Cardinality({b[i] : i \in mine}) = Cardinality(mine)
  BY <1>1, <1>4, CardinalityRenamed
<1>7. QED
  BY <1>1, <1>5, <1>6 DEF mine

LEMMA AllTimeSums ==
    ASSUME NEW v, NEW A, NEW a, NEW ap, NEW ve, Scored(v, A, a, ap, ve), NEW player
    PROVE  AllTimeTotal(top_players_all_time(v), player) = Cardinality(Mine(A, a, player))
<1> DEFINE allTime == top_players_all_time(v)
           rows == {r \in DOMAIN allTime : allTime[r].player_id = player}
           h == [r \in rows |-> allTime[r].totals.appearance_count]
           mine == {i \in A : a[i].player_id = player}
           Club(p) == ClubRow(v, v.dim_players[p].attr.current_club_id)
           current == {p \in DOMAIN v.dim_players : v.dim_players[p].is_current
                                                    /\ AppearancesOf(v, v.dim_players[p].player) # {}}
<1>1. /\ AppearancesOf(v, player) = {} <=> mine = {}
      /\ IsFiniteSet(mine)
      /\ Cardinality(AppearancesOf(v, player)) = Cardinality(mine)
  BY AppearancesAreNamed
<1>2. DOMAIN allTime = {<<p, Club(p)>> : p \in current}
  <2>1. \A club : ClubRows(v, club) = {ClubRow(v, club)}
    BY DEF Scored, OneClubEach, ClubRow
  <2>2. DOMAIN allTime = UNION { {<<p, c>> : c \in {Club(p)}} : p \in current }
    BY <2>1 DEF top_players_all_time
  <2> HIDE DEF current, allTime, Club
  <2>3. QED
    BY <2>2
<1>3. \A r \in DOMAIN allTime :
          /\ allTime[r].player_id = v.dim_players[r[1]].player
          /\ allTime[r].totals.appearance_count =
                Cardinality(AppearancesOf(v, v.dim_players[r[1]].player))
  BY DEF top_players_all_time, Totals
<1> HIDE DEF allTime
<1>4. CASE mine = {}
  <2>1. rows = {}
    <3>1. ASSUME NEW r \in rows PROVE FALSE
      <4>1. PICK p \in current : r = <<p, Club(p)>>
        BY <1>2
      <4>2. v.dim_players[p].player = player
        BY <1>3, <4>1
      <4>3. QED
        BY <1>1, <1>4, <4>1, <4>2
    <3>2. QED
      BY <3>1
  <2>2. DOMAIN h = {} /\ Cardinality(mine) = 0
    BY <1>4, <2>1, FS_EmptySet
  <2> HIDE DEF h
  <2>3. SumFunction(h) = 0
    BY <2>2, SumOfNone DEF SumFunction
  <2>4. QED
    BY <2>2, <2>3 DEF h, allTime, Mine, AllTimeTotal
<1>5. CASE mine # {}
  <2>1. PICK i \in A : a[i].player_id = player
    BY <1>5
  <2> DEFINE p == ve[i]
             r == <<p, Club(p)>>
  <2>2. p \in current /\ v.dim_players[p].player = player
    BY <1>1, <1>5, <2>1 DEF Scored
  <2>3. rows = {r}
    <3>1. r \in rows
      BY <1>2, <1>3, <2>2
    <3>2. ASSUME NEW s \in rows PROVE s = r
      <4>1. PICK q \in current : s = <<q, Club(q)>>
        BY <1>2
      <4>2. v.dim_players[q].player = player
        BY <1>3, <4>1
      <4>3. q = p
        BY <2>2, <4>1, <4>2 DEF Scored
      <4>4. QED
        BY <4>1, <4>3
    <3> HIDE DEF rows, r
    <3>3. QED
      BY <3>1, <3>2
  <2>4. DOMAIN h = {r} /\ h[r] = Cardinality(mine) /\ h[r] \in Int
    <3>1. h[r] = Cardinality(AppearancesOf(v, player))
      BY <1>3, <2>2, <2>3
    <3>2. Cardinality(mine) \in Nat
      BY <1>1, FS_CardinalityType
    <3>3. DOMAIN h = {r}
      BY <2>3
    <3>4. QED
      BY <1>1, <3>1, <3>2, <3>3
  <2> HIDE DEF h, r, mine
  <2>5. SumFunction(h) = h[r]
    BY <2>4, SumOfOne
  <2>6. QED
    BY <2>4, <2>5 DEF h, mine, allTime, Mine, AllTimeTotal
<1>6. QED
  BY <1>4, <1>5

-----------------------------------------------------------------------------
(* A lake of one batch *)

LEMMA DatesAreKnown ==
    ASSUME RulesAssumption, NEW frame, NEW lookups,
           NEW i \in DOMAIN CleanRows("appearances", frame, lookups)
    PROVE  CleanRows("appearances", frame, lookups)[i].date # NULL
<1>1. PICK rule \in CriticalRules("appearances") :
          rule.rule_type = "not_null" /\ "date" \in rule.columns
  BY DEF RulesAssumption
<1>2. /\ CleanRows("appearances", frame, lookups)[i] = frame[i]
      /\ Passes(rule, frame, i, lookups)
  BY CleanRow
<1>3. frame[i]["date"] # NULL
  BY <1>1, <1>2 DEF Passes, PassesNotNull
<1>4. QED
  BY <1>2, <1>3

(* In a first load the lookup finds the one version of the player. *)
LEMMA FirstLookup ==
    ASSUME NEW dim, NEW players, IsFirstLoad(dim, players),
           NEW date \in FAR_PAST_DATE .. FAR_FUTURE_DATE, NEW p
    PROVE  /\ p \notin players => LookupPlayerSkAt(dim, p, date) = 0
           /\ \A k \in DOMAIN dim : dim[k].player = p =>
                 LookupPlayerSkAt(dim, p, date) = dim[k].player_sk
<1> DEFINE sk == LookupPlayerSkAt(dim, p, date)
           hits == Covering(Range(dim), p, date)
<1>1. Finds(sk, hits)
  BY LookupFinds DEF IsFirstLoad
<1>2. FAR_PAST_DATE <= date /\ date <= FAR_FUTURE_DATE
  BY DEF FAR_PAST_DATE, FAR_FUTURE_DATE
<1>3. \A w : w \in hits <=> \E k \in DOMAIN dim : w = dim[k] /\ dim[k].player = p
  BY <1>2 DEF Covering, Covers, Range, IsFirstLoad
<1> HIDE DEF sk, hits
<1>4. CASE p \notin players
  <2>1. hits = {}
    BY <1>3, <1>4 DEF IsFirstLoad
  <2>2. \A k \in DOMAIN dim : dim[k].player # p
    BY <1>4 DEF IsFirstLoad
  <2>3. QED
    BY <1>1, <2>1, <2>2 DEF Finds, sk
<1>5. ASSUME NEW k \in DOMAIN dim, dim[k].player = p
      PROVE  sk = dim[k].player_sk
  <2>1. hits = {dim[k]}
    BY <1>3, <1>5 DEF IsFirstLoad
  <2>2. sk # 0
    BY <1>1, <2>1 DEF Finds
  <2>3. PICK w \in LatestIn(hits) : w.player_sk = sk
    BY <1>1, <2>2 DEF Finds
  <2>4. w = dim[k]
    BY <2>1 DEF LatestIn
  <2>5. QED
    BY <2>3, <2>4
<1>6. \A k \in DOMAIN dim : dim[k].player \in players
  BY DEF IsFirstLoad
<1>7. QED
  BY <1>4, <1>5, <1>6 DEF sk

(* The appearances of players of the dimension. *)
Known(a, players) == {i \in DOMAIN a : a[i].player_id \in players}

KnownOf(clean) == Known(clean["appearances"], Values(clean["players"], "player_id"))

LEMMA FirstScored ==
    ASSUME NULL \notin Nat, NEW v, NEW b, NEW dim, NEW players, NEW a,
           IsFirstLoad(dim, players), IsFrameOf("appearances", a),
           \A i \in DOMAIN a : a[i].date # NULL,
           IsViewOf(v.dim_players, b, dim),
           IsViewOf(v.fact_appearances, b, build_fact_appearances(a, dim)),
           OneClubEach(v)
    PROVE  \E ap, ve : Scored(v, Known(a, players), a, ap, ve)
<1> DEFINE A == {i \in DOMAIN a : a[i].player_id \in players}
           facts == build_fact_appearances(a, dim)
           Ver(i) == CHOOSE k \in DOMAIN dim : dim[k].player = a[i].player_id
<1>1. /\ IsFiniteSet(DOMAIN a)
      /\ \A i \in DOMAIN a : /\ a[i].date \in FAR_PAST_DATE .. FAR_FUTURE_DATE
                             /\ a[i].goals \in Int \cup {NULL}
  BY DEF IsFrameOf
<1>2. /\ DOMAIN facts = DOMAIN a
      /\ \A i \in DOMAIN a :
            /\ facts[i].season = derive_season(a[i].date)
            /\ facts[i].goals = a[i].goals
            /\ LET sk == LookupPlayerSkAt(dim, a[i].player_id, a[i].date)
               IN  facts[i].player_sk = IF sk = 0 THEN NULL ELSE sk
  BY AppearancesKeep
<1>3. PICK ap : IsNamed(v.fact_appearances, ap, facts)
  BY ViewIsNamed
<1>4. PICK at : IsNamed(v.dim_players, at, dim)
  BY ViewIsNamed
<1>5. \A i \in A : Ver(i) \in DOMAIN dim /\ dim[Ver(i)].player = a[i].player_id
  BY DEF IsFirstLoad
<1>6. /\ \A i \in DOMAIN a : i \in A <=> facts[i].player_sk # NULL
      /\ \A i \in A : facts[i].player_sk = dim[Ver(i)].player_sk
  <2>1. ASSUME NEW i \in A
        PROVE  facts[i].player_sk = dim[Ver(i)].player_sk /\ facts[i].player_sk # NULL
    <3>1. LookupPlayerSkAt(dim, a[i].player_id, a[i].date) = dim[Ver(i)].player_sk
      BY <1>1, <1>5, FirstLookup
    <3>2. dim[Ver(i)].player_sk \in Nat \ {0}
      BY <1>5 DEF IsFirstLoad
    <3> HIDE DEF facts, Ver
    <3>3. QED
      BY <1>2, <3>1, <3>2
  <2>2. ASSUME NEW i \in DOMAIN a, i \notin A
        PROVE  facts[i].player_sk = NULL
    <3>1. LookupPlayerSkAt(dim, a[i].player_id, a[i].date) = 0
      BY <1>1, <2>2, FirstLookup
    <3> HIDE DEF facts, Ver
    <3>2. QED
      BY <1>2, <3>1
  <2>3. QED
    BY <2>1, <2>2
<1> DEFINE ve == [i \in A |-> at[Ver(i)]]
<1>7. \A i \in A : ve[i] \in DOMAIN v.dim_players /\ v.dim_players[ve[i]] = dim[Ver(i)]
  BY <1>4, <1>5 DEF IsNamed
<1>8. \A i \in DOMAIN a : /\ ap[i] \in DOMAIN v.fact_appearances
                          /\ v.fact_appearances[ap[i]] = facts[i]
  BY <1>2, <1>3 DEF IsNamed
<1> HIDE DEF facts, Ver
<1>9. ASSUME NEW i \in A
      PROVE  <<ap[i], ve[i]>> \in ResolvedAppearances(v)
  BY <1>6, <1>7, <1>8 DEF ResolvedAppearances
<1>10. ASSUME NEW x \in ResolvedAppearances(v)
       PROVE  \E i \in A : x = <<ap[i], ve[i]>>
  <2>1. PICK r \in DOMAIN v.fact_appearances, p \in DOMAIN v.dim_players :
            /\ x = <<r, p>> /\ v.fact_appearances[r].player_sk # NULL
            /\ v.dim_players[p].player_sk = v.fact_appearances[r].player_sk
    BY DEF ResolvedAppearances
  <2>2. PICK i \in DOMAIN a : r = ap[i]
    BY <1>2, <1>3 DEF IsNamed
  <2>3. PICK k \in DOMAIN dim : p = at[k] /\ v.dim_players[p] = dim[k]
    BY <1>4 DEF IsNamed
  <2>4. i \in A /\ dim[k].player_sk = dim[Ver(i)].player_sk
    BY <1>6, <1>8, <2>1, <2>2, <2>3
  <2>5. k = Ver(i)
    BY <1>5, <2>4 DEF IsFirstLoad, Keyed
  <2>6. QED
    BY <2>1, <2>2, <2>3, <2>4, <2>5
<1>11. Scored(v, A, a, ap, ve)
  <2>1. IsFiniteSet(A)
    BY <1>1, FS_Subset
  <2>2. ResolvedAppearances(v) = {<<ap[i], ve[i]>> : i \in A}
    <3> HIDE DEF A, ve
    <3>1. QED
      BY <1>9, <1>10
  <2>3. \A i, j \in A : ap[i] = ap[j] => i = j
    BY <1>2, <1>3 DEF IsNamed
  <2>4. \A i \in A : /\ v.fact_appearances[ap[i]].season = derive_season(a[i].date)
                     /\ v.fact_appearances[ap[i]].goals = a[i].goals
                     /\ a[i].goals \in Int \cup {NULL}
                     /\ ve[i] \in DOMAIN v.dim_players
                     /\ v.dim_players[ve[i]].player = a[i].player_id
    BY <1>1, <1>2, <1>5, <1>7, <1>8
  <2>5. \A p \in DOMAIN v.dim_players : v.dim_players[p].is_current
    BY <1>4 DEF IsNamed, IsFirstLoad
  <2>6. ASSUME NEW p \in DOMAIN v.dim_players, NEW q \in DOMAIN v.dim_players,
               v.dim_players[p].player = v.dim_players[q].player
        PROVE  p = q
    <3>1. PICK k \in DOMAIN dim : p = at[k] /\ v.dim_players[p] = dim[k]
      BY <1>4 DEF IsNamed
    <3>2. PICK l \in DOMAIN dim : q = at[l] /\ v.dim_players[q] = dim[l]
      BY <1>4 DEF IsNamed
    <3>3. k = l
      BY <2>6, <3>1, <3>2 DEF IsFirstLoad
    <3>4. QED
      BY <3>1, <3>2, <3>3
  <2> HIDE DEF A, ve
  <2>7. QED
    BY <2>1, <2>2, <2>3, <2>4, <2>5, <2>6 DEF Scored
<1>12. QED
  BY <1>11 DEF Known

(* The scorers of one batch, from the views to its clean rows. *)
LEMMA AddsUp ==
    ASSUME NEW v, NEW clean, NEW ap, NEW ve,
           Scored(v, KnownOf(clean), clean["appearances"], ap, ve),
           NEW scorers, scorers = top_scorers_by_season(v),
           NEW allTime, allTime = top_players_all_time(v)
    PROVE  ScorersAddUp(clean, scorers, allTime)
<1> DEFINE a == clean["appearances"]
           players == Values(clean["players"], "player_id")
           A == Known(a, players)
           seasons == {derive_season(a[i].date) : i \in DOMAIN a}
<1>1. \A player, season : Played(clean, player, season) = MineIn(A, a, player, season)
  BY DEF Played, MineIn, Known
<1>2. IsFiniteSet(A) /\ A \subseteq DOMAIN a /\ \A i \in A : a[i].goals \in Int \cup {NULL}
  BY DEF Scored, Known, KnownOf
<1>3. Scored(v, A, a, ap, ve)
  BY DEF KnownOf
<1> HIDE DEF A, a
<1>4. ASSUME NEW player, NEW season
      PROVE  /\ SeasonTotal(scorers, "appearance_count", player, season) =
                   Cardinality(MineIn(A, a, player, season))
             /\ SeasonTotal(scorers, "total_goals", player, season) =
                  SumOf([i \in MineIn(A, a, player, season) |-> a[i].goals])
  <2> DEFINE played == MineIn(A, a, player, season)
             f == [i \in A |-> 1]
             g == [i \in A |-> Coalesce(a[i].goals)]
             e == [i \in played |-> a[i].goals]
  <2>1. played \in SUBSET A
    BY DEF MineIn
  <2>2. IsFiniteSet(played)
    BY <1>2, <2>1, FS_Subset
  <2>3. /\ \A i \in A : f[i] = 1
        /\ \A i \in A : g[i] = Coalesce(a[i].goals) /\ g[i] \in Int
    BY <1>2 DEF Coalesce
  <2>4. DOMAIN e = played /\ \A i \in played : e[i] = a[i].goals
    OBVIOUS
  <2> HIDE DEF f, g, e
  <2>5. SeasonTotal(scorers, "appearance_count", player, season) = SumFunctionOnSet(f, played)
    BY <1>3, <2>3, ScorerSums
  <2>6. SeasonTotal(scorers, "total_goals", player, season) = SumFunctionOnSet(g, played)
    BY <1>3, <2>3, ScorerSums
  <2> HIDE DEF played
  <2>7. SumFunctionOnSet(f, played) = Cardinality(played)
    <3>1. \A i \in played : f[i] = Counts(i \in played)
      BY <2>1, <2>3 DEF Counts
    <3>2. QED
      BY <2>1, <2>2, <3>1, SumOfCounts
  <2>8. SumOf(e) = SumFunctionOnSet(g, played)
    <3>1. \A i \in played : g[i] \in Int /\ g[i] = Coalesce(e[i])
      BY <2>1, <2>3, <2>4
    <3>2. QED
      BY <2>2, <2>4, <3>1, SumOfColumn
  <2>9. QED
    BY <2>5, <2>6, <2>7, <2>8 DEF e, played
<1>5. ASSUME NEW player
      PROVE  AllTimeTotal(allTime, player) =
                Cardinality(UNION {Played(clean, player, season) : season \in seasons})
  <2>1. \A x : x \in UNION {Played(clean, player, season) : season \in seasons} <=> x \in Mine(A, a, player)
    <3>1. ASSUME NEW season \in seasons, NEW x \in Played(clean, player, season)
          PROVE  x \in Mine(A, a, player)
      BY <1>1 DEF Mine, MineIn
    <3>2. ASSUME NEW x \in Mine(A, a, player)
          PROVE  \E season \in seasons : x \in Played(clean, player, season)
      <4>1. x \in DOMAIN a /\ x \in MineIn(A, a, player, derive_season(a[x].date))
        BY <1>2 DEF Mine, MineIn
      <4>2. derive_season(a[x].date) \in seasons
        BY <4>1
      <4> HIDE DEF seasons
      <4>3. QED
        BY <1>1, <4>1, <4>2
    <3> HIDE DEF seasons
    <3>3. QED
      BY <3>1, <3>2
  <2>2. UNION {Played(clean, player, season) : season \in seasons} = Mine(A, a, player)
    BY <2>1
  <2>3. AllTimeTotal(top_players_all_time(v), player) = Cardinality(Mine(A, a, player))
    BY <1>3, AllTimeSums
  <2> HIDE DEF seasons
  <2>4. QED
    BY <2>2, <2>3
<1>6. ASSUME NEW player, NEW season
      PROVE  /\ SeasonTotal(scorers, "appearance_count", player, season) =
                   Cardinality(Played(clean, player, season))
             /\ SeasonTotal(scorers, "total_goals", player, season) =
                  SumOf([i \in Played(clean, player, season) |-> a[i].goals])
  BY <1>1, <1>4
<1>7. QED
  BY <1>5, <1>6 DEF ScorersAddUp, a

LEMMA TableAddsUp ==
    ASSUME NEW v, Plain(v), NEW b, NEW games, IsViewOf(v.fact_games, b, games),
           IsFiniteSet(DOMAIN games)
    PROVE  TableBalances(games, club_season_summary(v), club_performance_metrics(v))
<1>1. Cardinality(Perspectives(v)) = 2 * Cardinality(DOMAIN games)
  BY TwoOfEveryGame
<1>2. QED
  BY <1>1, SeasonsBalance DEF TableBalances

(* What the clean rows of a first batch are to Gold. *)
LEMMA GoldIsPlain ==
    ASSUME StarAssumption, RulesAssumption, StarInv, FirstInv, NEW b \in Batch,
           stage[b] = "passed", Alone(b)
    PROVE  LET v     == Views(Batch)
               clean == CleanBronze(b)
           IN  /\ Plain(v) /\ IsViewOf(v.fact_games, b, silver[b].fact_games)
               /\ IsFiniteSet(DOMAIN silver[b].fact_games)
               /\ \E ap, ve : Scored(v, KnownOf(clean), clean["appearances"], ap, ve)
<1> DEFINE v     == Views(Batch)
           clean == CleanBronze(b)
           dim   == silver[b].dim_players
           clubs == silver[b].dim_clubs
           games == silver[b].fact_games
           facts == silver[b].fact_appearances
           a     == clean["appearances"]
           g     == clean["games"]
           players == Values(clean["players"], "player_id")
<1>1. b \in Nat
  BY BatchesAreNumbers
<1>2. silver[b] = Tables(b, << >>) /\ Readable(b) = Checked /\ BronzeInv
  BY FirstOfAll DEF FirstOf, Ran, Stages, StarInv, StarTypeInv
<1>3. /\ IsViewOf(v.dim_players, b, dim) /\ IsViewOf(v.dim_clubs, b, clubs)
      /\ IsViewOf(v.fact_games, b, games) /\ IsViewOf(v.fact_appearances, b, facts)
  BY AloneInTheLake, ViewsOfOne
<1>4. IsFirstLoad(dim, players)
  BY <1>2, FirstLoad DEF Checked
<1>5. /\ clubs = Distinct(clean["clubs"], "club_id")
      /\ games = build_fact_games(g) /\ facts = build_fact_appearances(a, dim)
  <2>1. {"clubs", "players", "games", "appearances"} \subseteq Readable(b)
    BY <1>2 DEF Checked
  <2>2. QED
    BY <1>2, <2>1, TablesHave
<1>6. /\ IsFrameOf("clubs", clean["clubs"]) /\ IsFrameOf("games", g)
      /\ IsFrameOf("appearances", a)
  BY <1>2, CleanIsTyped DEF Checked
<1>7. \A i \in DOMAIN a : a[i].date # NULL
  <2>1. a = CleanRows("appearances", Raw(b)["appearances"], BuildFkLookups(Raw(b)))
    BY <1>2, Checks DEF Checked
  <2>2. QED
    BY <2>1, DatesAreKnown
<1> HIDE DEF v, clean, dim, clubs, games, facts, a, g, players
<1>8. OneClubEach(v)
  <2>1. \A i, j \in DOMAIN clubs : clubs[i].club_id = clubs[j].club_id => i = j
    BY <1>5, <1>6, DistinctOnce DEF IsFrameOf
  <2>2. QED
    BY <1>1, <1>3, <2>1, OneClub
<1>9. /\ DOMAIN games = DOMAIN g /\ IsFiniteSet(DOMAIN games)
      /\ \A i \in DOMAIN games :
            {games[i].home_club_goals, games[i].away_club_goals} \subseteq Int \cup {NULL}
  <2>1. /\ DOMAIN games = DOMAIN g
        /\ \A i \in DOMAIN g : /\ games[i].home_club_goals = g[i].home_club_goals
                                /\ games[i].away_club_goals = g[i].away_club_goals
    BY <1>5, <1>6, GamesKeep
  <2>2. QED
    BY <1>6, <2>1 DEF IsFrameOf
<1>10. Plain(v)
  <2>1. IsFiniteSet(DOMAIN v.fact_games)
    BY <1>3, <1>9, TwoOfEveryGame
  <2>2. ASSUME NEW x \in Perspectives(v)
        PROVE  HasGoals(v, x)
    <3>1. PICK i \in DOMAIN games : v.fact_games[x[1]] = games[i]
      BY <1>3 DEF Perspectives, IsViewOf
    <3>2. QED
      BY <1>9, <3>1 DEF HasGoals, Perspective
  <2>3. QED
    BY <1>8, <2>1, <2>2 DEF Plain
<1>11. \E ap, ve : Scored(v, Known(a, players), a, ap, ve)
  <2>1. NULL \notin Nat
    BY DEF StarAssumption
  <2>2. IsViewOf(v.fact_appearances, b, build_fact_appearances(a, dim))
    BY <1>3, <1>5
  <2>3. QED
    BY <1>3, <1>4, <1>6, <1>7, <1>8, <2>1, <2>2, FirstScored
<1>12. QED
  BY <1>3, <1>9, <1>10, <1>11 DEF v, clean, games, a, players, KnownOf

(* The sums of Gold over a lake of one batch. *)
GoldAddsUp(b) ==
    gold[b] # NULL /\ Alone(b) =>
        /\ ScorersAddUp(CleanBronze(b), gold[b].top_scorers_by_season, gold[b].top_players_all_time)
        /\ TableBalances(silver[b].fact_games, gold[b].club_season_summary,
                         gold[b].club_performance_metrics)

LEMMA GoldIsAddedUp ==
    ASSUME StarAssumption, RulesAssumption, StarInv, FirstInv, NEW b \in Batch, RunGold(b)
    PROVE  GoldAddsUp(b)'
<1> DEFINE v  == Views(Batch)
           clean == CleanBronze(b)
<1>1. /\ stage[b] = "passed" /\ bronze' = bronze /\ silver' = silver
      /\ gold' = [gold EXCEPT ![b] = Artifacts(v)]
  BY DEF RunGold
<1>2. /\ gold'[b].top_scorers_by_season = top_scorers_by_season(v)
      /\ gold'[b].top_players_all_time = top_players_all_time(v)
      /\ gold'[b].club_season_summary = club_season_summary(v)
      /\ gold'[b].club_performance_metrics = club_performance_metrics(v)
  <2>1. gold'[b] = Artifacts(v)
    BY <1>1, FirstOfAll
  <2>2. QED
    BY <2>1 DEF Artifacts
<1>3. CleanBronze(b)' = clean
  <2>1. b \in Nat
    BY BatchesAreNumbers
  <2>2. QED
    BY <1>1, <2>1, SameReads
<1>4. Alone(b)' <=> Alone(b)
  BY <1>1 DEF Alone
<1>5. ASSUME Alone(b)
      PROVE  /\ ScorersAddUp(clean, top_scorers_by_season(v), top_players_all_time(v))
             /\ TableBalances(silver[b].fact_games, club_season_summary(v),
                              club_performance_metrics(v))
  <2>1. PICK ap, ve : Scored(v, KnownOf(clean), clean["appearances"], ap, ve)
    BY <1>1, <1>5, GoldIsPlain
  <2>2. /\ Plain(v) /\ IsViewOf(v.fact_games, b, silver[b].fact_games)
        /\ IsFiniteSet(DOMAIN silver[b].fact_games)
    BY <1>1, <1>5, GoldIsPlain
  <2> HIDE DEF v, clean
  <2>3. ScorersAddUp(clean, top_scorers_by_season(v), top_players_all_time(v))
    BY <2>1, AddsUp
  <2>4. QED
    BY <2>2, <2>3, TableAddsUp
<1> HIDE DEF v, clean
<1>6. QED
  BY <1>1, <1>2, <1>3, <1>4, <1>5 DEF GoldAddsUp

Resolved(b) ==
    gold[b] # NULL /\ Alone(b) /\ "player_valuations" \in DOMAIN bronze[b] => ValuationsResolve(b)

(* Everything that the properties of Gold rest on. *)
GoldOf(b) == Resolved(b) /\ GoldAddsUp(b)

GoldInv == StarInv /\ FirstInv /\ \A b \in Batch : GoldOf(b)

LEMMA Unmoved ==
    ASSUME StarAssumption, NEW c \in Batch, GoldOf(c), gold'[c] = gold[c],
           \A p \in 1 .. c : bronze'[p] = bronze[p] /\ silver'[p] = silver[p]
    PROVE  GoldOf(c)'
<1>1. c \in Nat /\ c \in 1 .. c /\ \A p \in 1 .. c - 1 : p \in 1 .. c
  BY BatchesAreNumbers
<1>2. CleanBronze(c)' = CleanBronze(c)
  BY <1>1, SameReads
<1>3. Values(CleanBronze(c)["players"], "player_id")' = Values(CleanBronze(c)["players"], "player_id")
  BY <1>2 DEF Values
<1>4. bronze'[c] = bronze[c] /\ silver'[c] = silver[c]
  BY <1>1
<1>5. ValuationsResolve(c) => ValuationsResolve(c)'
  BY <1>3, <1>4 DEF ValuationsResolve
<1>6. Alone(c)' <=> Alone(c)
  BY <1>1 DEF Alone
<1>7. Resolved(c)'
  BY <1>4, <1>5, <1>6 DEF Resolved, GoldOf
<1>8. GoldAddsUp(c)'
  BY <1>2, <1>4, <1>6 DEF GoldAddsUp, GoldOf
<1>9. QED
  BY <1>7, <1>8 DEF GoldOf

LEMMA OthersUnmoved ==
    ASSUME StarAssumption, StarInv, FirstInv, NEW b \in Batch, NEW c \in Batch \ {b},
           OthersStay(b), stage[b] \in {"waiting", "landed", "built", "passed"},
           stage[b] # "waiting" => bronze'[b] = bronze[b], GoldOf(c)
    PROVE  GoldOf(c)'
<1>1. PICK N \in Nat : Batch = 1 .. N
  BY BatchesAreNumbers
<1>2. FirstOf(c) /\ \A p \in 1 .. c : p \in Batch
  BY <1>1, FirstOfAll
<1>3. gold'[c] = gold[c]
  BY DEF OthersStay
<1>4. CASE stage[c] = "waiting"
  BY <1>2, <1>3, <1>4 DEF FirstOf, Resolved, GoldAddsUp, GoldOf
<1>5. CASE stage[c] # "waiting"
  <2>1. \A p \in 1 .. c : p # b /\ p \in Batch
    BY <1>1, <1>2, <1>5 DEF FirstOf
  <2>2. \A p \in 1 .. c : bronze'[p] = bronze[p] /\ silver'[p] = silver[p]
    BY <2>1 DEF OthersStay
  <2>3. QED
    BY <1>3, <2>2, Unmoved
<1>6. QED
  BY <1>4, <1>5

LEMMA GoldStep ==
    ASSUME StarAssumption, RulesAssumption, GoldInv,
           NEW b \in Batch, Land(b) \/ RunSilver(b) \/ DqGate(b) \/ RunGold(b)
    PROVE  GoldInv'
<1>1. StarInv' /\ FirstInv' /\ OthersStay(b)
  BY LandKeeps, RunSilverKeeps, LaterKeeps, FirstLand, FirstRunSilver, FirstLater DEF GoldInv
<1>2. /\ stage[b] \in {"waiting", "landed", "built", "passed"}
      /\ stage[b] # "waiting" => bronze'[b] = bronze[b]
  BY DEF Land, RunSilver, DqGate, RunGold
<1>3. \A c \in Batch \ {b} : GoldOf(c)'
  BY <1>1, <1>2, OthersUnmoved DEF GoldInv
<1>4. GoldOf(b)'
  <2>1. CASE RunGold(b)
    <3>1. stage[b] = "passed" /\ bronze' = bronze /\ silver' = silver
      BY <2>1 DEF RunGold
    <3>2. Alone(b)' <=> Alone(b)
      BY <3>1 DEF Alone
    <3>3. Resolved(b)'
      BY <2>1, <3>1, <3>2, GoldResolves DEF Resolved, GoldInv
    <3>4. QED
      BY <2>1, <3>3, GoldIsAddedUp DEF GoldOf, GoldInv
  <2>2. CASE Land(b) \/ RunSilver(b) \/ DqGate(b)
    <3>1. gold' = gold /\ stage[b] \in {"waiting", "landed", "built"}
      BY <2>2 DEF Land, RunSilver, DqGate
    <3>2. gold[b] = NULL
      BY <3>1, FirstOfAll DEF FirstOf, GoldInv
    <3>3. QED
      BY <3>1, <3>2 DEF Resolved, GoldAddsUp, GoldOf
  <2>3. QED
    BY <2>1, <2>2
<1>5. QED
  BY <1>1, <1>3, <1>4 DEF GoldInv

LEMMA GoldRests ==
    ASSUME StarAssumption, GoldInv, UNCHANGED vars
    PROVE  GoldInv'
<1>1. StarInv' /\ FirstInv'
  BY StarRests, FirstRests DEF GoldInv
<1>2. gold' = gold /\ bronze' = bronze /\ silver' = silver
  BY DEF vars
<1>3. \A b \in Batch : GoldOf(b)'
  BY <1>2, Unmoved DEF GoldInv
<1>4. QED
  BY <1>1, <1>3 DEF GoldInv

LEMMA GoldIsInvariant == Spec => []GoldInv
<1>1. Init => GoldInv
  <2> SUFFICES ASSUME Init PROVE GoldInv
    OBVIOUS
  <2>1. \A b \in Batch : gold[b] = NULL
    BY DEF Init
  <2>2. QED
    BY <2>1, StarInit, FirstInit, StarAssumption DEF GoldInv, GoldOf, Resolved, GoldAddsUp
<1>2. GoldInv /\ [Next]_vars => GoldInv'
  BY GoldStep, GoldRests, StarAssumption, RulesAssumption DEF Next
<1>3. QED
  BY <1>1, <1>2, PTL DEF Spec

(* In a lake of one batch, of whatever frames, a valuation with a value and a
   date is one row of the rolling averages, and has a surrogate key just when
   the player is among the clean ones: the dimension is a first load, whose
   versions are open at both ends (dimensions.py:384-387), and drop_duplicates
   leaves one row of a club to join.                                       *)
THEOREM ValuationsResolved == Spec => []ValuationsResolveWhenClean
<1>1. GoldInv => ValuationsResolveWhenClean
  BY DEF GoldInv, GoldOf, Resolved, Alone, ValuationsResolveWhenClean, FirstInTheLake
<1>2. QED
  BY <1>1, GoldIsInvariant, PTL

(* In a lake of one batch, of whatever frames, the goals and the appearances
   of the scorers are those of the clean appearances of clean players, season
   by season and over all: each appearance resolves to the one version of its
   player and is joined to one club or to none (gold/artifacts.py:62-102,
   185-239), so the joins double nothing and lose nothing.                 *)
THEOREM TotalsAddUp == Spec => []TotalsAreTheFacts
<1>1. GoldInv => TotalsAreTheFacts
  BY DEF GoldInv, GoldOf, GoldAddsUp, Alone, TotalsAreTheFacts, FirstInTheLake
<1>2. QED
  BY <1>1, GoldIsInvariant, PTL

(* In a lake of one batch, of whatever frames, the league table balances and
   agrees with the club metrics, of which one groups after the clubs are
   joined and the other before (gold/artifacts.py:109-178, 326-414).       *)
THEOREM TableIsBalanced == Spec => []LeagueTableBalances
<1>1. GoldInv => LeagueTableBalances
  BY DEF GoldInv, GoldOf, GoldAddsUp, Alone, LeagueTableBalances, FirstInTheLake
<1>2. QED
  BY <1>1, GoldIsInvariant, PTL
=============================================================================
