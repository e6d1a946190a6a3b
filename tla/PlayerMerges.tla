---------------------------- MODULE PlayerMerges ----------------------------
(***************************************************************************)
(* scd2_merge as it is meant to be called: every batch is merged into the  *)
(* result of the one before.  This is what the unit tests of the merge do  *)
(* and what its documentation promises about; PlayerHistory has what the   *)
(* Silver runner does.  No definition here has the name of one there: the  *)
(* proofs are about the two of them, and of Scd2, together.                *)
(***************************************************************************)
EXTENDS Scd2

CONSTANT MaxBatches     \* bound on the number of merges

ASSUME MergesAssumption == MaxBatches \in 0 .. FAR_FUTURE_DATE - 1

VARIABLES
    dim,        \* the dimension
    latest,     \* the rows of the last batch
    day,        \* its date
    merged      \* the number of merges

merges_vars == <<dim, latest, day, merged>>

MergesInit == dim = << >> /\ latest = << >> /\ day = FAR_PAST_DATE /\ merged = 0

(* build_dim_players: a load into nothing is dated back to the far past.
   Batches are of an hour or a day, so two may be of one date.             *)
MergeBatch(incoming, date) ==
    /\ merged < MaxBatches
    /\ day <= date /\ date <= day + 1
    /\ dim' = scd2_merge(dim, incoming, IF dim = << >> THEN FAR_PAST_DATE ELSE date)
    /\ latest' = incoming
    /\ day' = date
    /\ merged' = merged + 1

MergesNext == \E incoming \in Incoming, date \in 1 .. MaxBatches : MergeBatch(incoming, date)

MergesSpec == MergesInit /\ [][MergesNext]_merges_vars

-----------------------------------------------------------------------------
(* Properties *)

Rows == DOMAIN dim
Current(i) == dim[i].is_current

(* A surrogate key is one row, so a fact that carries it joins to one row. *)
SurrogateKeysAreUnique ==
    \A i, j \in Rows : dim[i].player_sk = dim[j].player_sk => i = j

(* A player has at most one current version, and one with the attributes
   of the last batch if the batch had the player.                          *)
OneCurrentVersion ==
    /\ \A i, j \in Rows : Current(i) /\ Current(j) /\ dim[i].player = dim[j].player => i = j
    /\ \A p \in DOMAIN latest :
          \E i \in Rows : Current(i) /\ dim[i].player = p /\ dim[i].attr = latest[p]

(* The lookup tests both ends of a window inclusively; the documentation
   (facts.py:20) has the half-open [effective_date, end_date).  They agree
   whenever a date is in a half-open window, except on a date on which a
   version was both opened and closed, by two batches of that day.         *)
InWindow(v, date) == v.effective_date <= date /\ date < v.end_date

LookupIsHalfOpen ==
    \A p \in Player, date \in 0 .. MaxBatches + 1 :
        LET sk    == LookupPlayerSkAt(dim, p, date)
            Of(i) == dim[i].player = p
            twice == \E i \in Rows : Of(i) /\ dim[i].effective_date = date /\ dim[i].end_date = date
        IN  \A i \in Rows : Of(i) /\ InWindow(dim[i], date) /\ ~twice => sk = dim[i].player_sk

(* The merge implements the dimension it is documented as: each is a step of
   VersionedDimension, or leaves the rows as they are.  That windows do not
   overlap and that closed versions are never touched again follows there,
   for every chain of merges.                                              *)
Dimension == INSTANCE VersionedDimension
                WITH versions <- {dim[i] : i \in Rows},
                     Date <- FAR_PAST_DATE .. MaxBatches, FarFuture <- FAR_FUTURE_DATE

DimensionSpec == Dimension!Spec

(* Merging preserves the full version history: a version is closed out or
   kept, and never just gone.                                              *)
VersionsAreKept ==
    [][ SksAt(dim, Rows) \subseteq SksAt(dim', DOMAIN dim') ]_merges_vars
=============================================================================
