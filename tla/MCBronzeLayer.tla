---------------------------- MODULE MCBronzeLayer ----------------------------
(***************************************************************************)
(* BronzeLayer for TLC: two sources; the vendor may send two versions of   *)
(* the first (one row and two rows), one version of the second.            *)
(***************************************************************************)
EXTENDS BronzeLayer, TLC

CONSTANTS games, players, games_csv, players_csv, g1, g2, p1, e1

TwoSources  == <<games, players>>
SourceFile  == games :> games_csv @@ players :> players_csv
FileSource  == games_csv :> games @@ players_csv :> players
Deliveries  == games :> {g1, g2} @@ players :> {p1}
RowCounts   == g1 :> 1 @@ g2 :> 2 @@ p1 :> 1 @@ e1 :> 0

(* Batches have no order of their own. *)
BatchSymmetry == Permutations(Batch)

(* The second version of the first source may also be an empty file. *)
DeliveriesWithEmpty == games :> {g1, e1} @@ players :> {p1}
=============================================================================
