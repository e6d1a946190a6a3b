---------------------------- MODULE PlayerHistory ----------------------------
(***************************************************************************)
(* What the Silver runner (src/src/silver/run.py) makes of the players:    *)
(* build dim_players from the dimension as it finds it on disk, write it   *)
(* as the partition of the batch, resolve the appearances of the batch in  *)
(* the frame it has just built, and write those.                           *)
(*                                                                         *)
(* Every partition of dim_players holds a full snapshot of the dimension,  *)
(* and the runner reads all of them.  A batch whose Silver layer failed,   *)
(* for this or another artifact, is run again.                             *)
(***************************************************************************)
EXTENDS Scd2, SequencesExt

CONSTANTS
    Batch,          \* batch ids, as numbers in the order of their names
    DateOf,         \* the date of a batch
    Appearance,     \* the <<player, match date>> pairs of the appearances
    MaxAttempts,    \* bound on the Silver runs of a batch
    MaxFailures,    \* bound on failed reads, writes and killed runs
    NULL

ASSUME HistoryAssumption ==
    /\ IsFiniteSet(Batch) /\ Batch = 1 .. Cardinality(Batch)
    /\ DateOf \in [Batch -> 1 .. FAR_FUTURE_DATE - 1]
    /\ Appearance \subseteq Player \X (0 .. FAR_FUTURE_DATE)
    /\ MaxAttempts \in Nat /\ MaxFailures \in Nat
    /\ NULL \notin Incoming

VARIABLES
    received,       \* the clean player rows of a batch, NULL before its first run
    dim_players,    \* the partition of a batch, << >> if there is none
    facts,          \* the partition of fact_appearances, NULL if there is none
    done,           \* the batches whose Silver layer succeeded
    pc, batch,      \* where the run is
    dim_players_df, \* the dimension the run has built, NULL before
    ok,             \* has every artifact of the run been written so far?
    attempts, failures,
    torn            \* the batches with half a write in their partition

lake == <<received, dim_players, facts, done>>
vars == <<lake, pc, batch, dim_players_df, ok, attempts, failures, torn>>

Init ==
    /\ received = [b \in Batch |-> NULL]
    /\ dim_players = [b \in Batch |-> << >>]
    /\ facts = [b \in Batch |-> NULL]
    /\ done = {}
    /\ pc = "idle" /\ batch = NULL /\ dim_players_df = NULL /\ ok = TRUE
    /\ attempts = [b \in Batch |-> 0]
    /\ failures = 0
    /\ torn = {}

-----------------------------------------------------------------------------

StartRun(b) ==
    /\ pc = "idle"
    /\ b \notin done /\ attempts[b] < MaxAttempts
    /\ b > 1 => attempts[b - 1] > 0
    /\ IF received[b] # NULL THEN UNCHANGED received
       ELSE \E incoming \in Incoming : received' = [received EXCEPT ![b] = incoming]
    /\ attempts' = [attempts EXCEPT ![b] = @ + 1]
    /\ pc' = "build" /\ batch' = b
    /\ UNCHANGED <<dim_players, facts, done, dim_players_df, ok, failures, torn>>

(* _read_existing_dim_players: the rows of every partition, None if there
   is no partition.                                                        *)
ExistingDim == FlattenSeq(dim_players)

(* A frame without rows is written to no partition. *)
BuildDimPlayers ==
    /\ pc = "build"
    /\ torn = {}
    /\ LET ts == IF ExistingDim = << >> THEN FAR_PAST_DATE ELSE DateOf[batch]
           merged == scd2_merge(ExistingDim, received[batch], ts) IN
       /\ dim_players_df' = merged
       /\ pc' = IF merged = << >> THEN "facts" ELSE "clear"
    /\ UNCHANGED <<lake, batch, ok, attempts, failures, torn>>

(* write_parquet removes the old partition before it writes the new one. *)
ClearDimPlayers ==
    /\ pc = "clear"
    /\ dim_players' = [dim_players EXCEPT ![batch] = << >>]
    /\ pc' = "write"
    /\ UNCHANGED <<received, facts, done, batch, dim_players_df, ok, attempts, failures, torn>>

WriteDimPlayers ==
    /\ pc = "write"
    /\ dim_players' = [dim_players EXCEPT ![batch] = dim_players_df]
    /\ pc' = "facts"
    /\ UNCHANGED <<received, facts, done, batch, dim_players_df, ok, attempts, failures, torn>>

(* A write that ends early may leave half a file. *)
HalfWritten == IF pc = "write" THEN {torn, torn \cup {batch}} ELSE {torn}

(* _build_artifact_safe catches a failure of the builder or of the write and
   goes on to the next artifact.  With half a file in any partition the
   dimension cannot be read, by this run or a later one.                   *)
DimPlayersFails ==
    /\ pc \in {"build", "clear", "write"}
    /\ \/ pc = "build" /\ torn # {} /\ UNCHANGED <<failures, torn>>
       \/ failures < MaxFailures /\ failures' = failures + 1 /\ torn' \in HalfWritten
    /\ ok' = FALSE
    /\ pc' = "facts"
    /\ UNCHANGED <<lake, batch, dim_players_df, attempts>>

(* fact_appearances needs the frame, not the file. *)
BuildFactAppearances ==
    /\ pc = "facts"
    /\ IF dim_players_df = NULL THEN UNCHANGED facts /\ ok' = FALSE
       ELSE /\ facts' = [facts EXCEPT ![batch] =
                  [a \in Appearance |-> LookupPlayerSkAt(dim_players_df, a[1], a[2])]]
            /\ UNCHANGED ok
    /\ pc' = "verdict"
    /\ UNCHANGED <<received, dim_players, done, batch, dim_players_df, attempts, failures, torn>>

Exit == pc' = "idle" /\ batch' = NULL /\ dim_players_df' = NULL /\ ok' = TRUE

(* The layer succeeds when every artifact did; the others are not modelled
   here and may fail.                                                      *)
Verdict ==
    /\ pc = "verdict"
    /\ \/ ok /\ done' = done \cup {batch} /\ UNCHANGED failures
       \/ ok /\ failures < MaxFailures /\ failures' = failures + 1 /\ UNCHANGED done
       \/ ~ok /\ UNCHANGED <<done, failures>>
    /\ Exit
    /\ UNCHANGED <<received, dim_players, facts, attempts, torn>>

Crash ==
    /\ pc # "idle"
    /\ failures < MaxFailures
    /\ failures' = failures + 1
    /\ torn' \in HalfWritten
    /\ Exit
    /\ UNCHANGED <<lake, attempts>>

Next ==
    \/ \E b \in Batch : StartRun(b)
    \/ BuildDimPlayers \/ ClearDimPlayers \/ WriteDimPlayers \/ DimPlayersFails
    \/ BuildFactAppearances
    \/ Verdict
    \/ Crash

Spec == Init /\ [][Next]_vars

-----------------------------------------------------------------------------
(* Properties *)

Versions(b) == {dim_players[b][i] : i \in DOMAIN dim_players[b]}
AllVersions == UNION {Versions(b) : b \in Batch}

(* A surrogate key names one version for good: wherever it turns up, in any
   partition that can be read after any number of runs, it is the same player with the same
   attributes from the same day.  Facts of old batches rely on it.         *)
SurrogateKeyNamesOneVersion ==
    \A v, w \in AllVersions : v.player_sk = w.player_sk =>
        v.player = w.player /\ v.attr = w.attr /\ v.effective_date = w.effective_date

(* In the snapshot of a batch every current version of a player has the
   attributes the batch delivered, and every delivered player has one.     *)
CurrentVersionsAreDelivered ==
    \A b \in Batch : dim_players[b] # << >> =>
        /\ \A p \in DOMAIN received[b] :
              \E v \in Versions(b) : v.player = p /\ v.is_current
        /\ \A v \in Versions(b) : v.is_current /\ v.player \in DOMAIN received[b] =>
              v.attr = received[b][v.player]

(* The as-of-event invariant: an appearance of a batch is resolved to a
   version, in the snapshot of that batch, of its player and whose window has
   the date of the match.  As long as no run had to be repeated, the version
   has the attributes that the player had at that date: those of the last
   batch until then that had the player, although the snapshots hold closed
   versions of the player twice and with other windows.  This is for players
   of the batch: the appearances of others are quarantined.                *)
FactsPointIntoTheSnapshot ==
    \A b \in done, a \in Appearance :
        LET found     == {v \in Versions(b) : v.player_sk = facts[b][a]}
            delivered == {e \in 1 .. b : a[1] \in DOMAIN received[e] /\ DateOf[e] <= a[2]}
            onceEach  == \A e \in 1 .. b : e \in done /\ attempts[e] = 1
        IN  /\ facts[b][a] # 0 => \E v \in found : v.player = a[1] /\ Covers(v, a[2])
            /\ onceEach /\ a[1] \in DOMAIN received[b] /\ delivered # {} =>
                  /\ facts[b][a] # 0
                  /\ \A v \in found : v.attr = received[MaxOf(delivered)][a[1]]

(* A dimension join on a fact's key finds one row in the snapshot. *)
SnapshotKeysAreUnique ==
    \A b \in Batch : \A i, j \in DOMAIN dim_players[b] :
        dim_players[b][i].player_sk = dim_players[b][j].player_sk => i = j
=============================================================================
