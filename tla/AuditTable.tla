----------------------------- MODULE AuditTable -----------------------------
(***************************************************************************)
(* The file_audit table (src/src/metadata/audit.py, schema in db.py) as a  *)
(* value, the rows one DAO call leaves behind, and the DAO's queries.      *)
(*                                                                         *)
(* A table is a function from the keys of its rows, (batch_id,             *)
(* source_file_path) pairs, to the rows: a key that is not in the domain   *)
(* has not been registered.  Each DAO function is one SQLite transaction,  *)
(* so its effect is one operator from tables to tables.                    *)
(*                                                                         *)
(* FileAudit drives these operators as a state machine with the event log; *)
(* the layer runners (BronzeLayer, SilverRun) call them as the code calls  *)
(* the DAO.                                                                *)
(***************************************************************************)
EXTENDS Integers, FiniteSets

CONSTANTS
    Batch,      \* batch_id values
    File,       \* source_file_path values
    Source,     \* source_name values
    SourceOf,   \* the source a file is registered for
    Checksum,   \* file_checksum_md5 values
    NULL        \* SQL NULL in a count column

ASSUME AuditAssumption ==
    /\ SourceOf \in [File -> Source]
    /\ NULL \notin Nat

-----------------------------------------------------------------------------
(* Rows *)

Key == Batch \X File

FileStatus == {"registered", "ingesting", "ingested",
               "transforming", "transformed", "failed"}

(* Mutant: a landed file may be ingested again. *)
LegalTransitionsReingest ==
    { <<"registered", "ingesting">>, <<"ingesting", "ingested">>, <<"ingested", "ingesting">>,
      <<"ingested", "transforming">>, <<"transforming", "transformed">> }

(* Mutant: a transformed file may be transformed again. *)
LegalTransitionsRedo ==
    { <<"registered", "ingesting">>, <<"ingesting", "ingested">>, <<"ingested", "transforming">>,
      <<"transforming", "transformed">>, <<"transformed", "transforming">> }

(* LegalTransitions is _LEGAL_TRANSITIONS as a set of edges: what a
   status-changing writer other than mark_failed may do.                   *)
LegalTransitions ==
    { <<"registered",   "ingesting">>,
      <<"ingesting",    "ingested">>,
      <<"ingested",     "transforming">>,
      <<"transforming", "transformed">> }

Count == Nat \cup {NULL}

Row == [ status        : FileStatus,
         checksum      : Checksum,
         registered_at : Nat,
         source_rows   : Count,
         bronze_rows   : Count,
         rejected_rows : Count,
         silver_rows   : Count,
         gold_rows     : Count ]

(* Mutant: the fingerprint is not stored. *)
NewRowUnsigned(c, at) ==
    [ status |-> "registered", checksum |-> NULL, registered_at |-> at,
      source_rows |-> NULL, bronze_rows |-> NULL, rejected_rows |-> NULL,
      silver_rows |-> NULL, gold_rows |-> NULL ]

NewRow(c, at) ==
    [ status |-> "registered", checksum |-> c, registered_at |-> at,
      source_rows |-> NULL, bronze_rows |-> NULL, rejected_rows |-> NULL,
      silver_rows |-> NULL, gold_rows |-> NULL ]

(* "Did this file reach at least ingested?": the status list every reader
   that looks for usable data filters on.                                  *)
LandedStatus == {"ingested", "transforming", "transformed"}

-----------------------------------------------------------------------------
(* Queries *)

(* The rows a source-grain writer selects: WHERE batch_id=? AND source_name=? *)
FilesOf(t, b, s) == { k \in DOMAIN t : k[1] = b /\ SourceOf[k[2]] = s }

BatchFiles(t, b) == { k \in DOMAIN t : k[1] = b }

(* ORDER BY registered_at DESC LIMIT 1.  registered_at has a resolution of
   one second, so several rows can be the most recent; SQL leaves open
   which of them is returned.                                              *)
MostRecent(t, ks) ==
    { k \in ks : \A j \in ks : t[j].registered_at <= t[k].registered_at }

(* Mutant: an ingestion that was begun counts as one that landed. *)
PreviousAttempts(t, c) ==
    MostRecent(t, { k \in DOMAIN t : t[k].checksum = c /\ t[k].status # "registered" })

(* find_previous_successful_ingestion: any batch, any source, and the
   batch that asks is not left out.                                        *)
PreviousIngestions(t, c) ==
    MostRecent(t, { k \in DOMAIN t : t[k].checksum = c /\ t[k].status \in LandedStatus })

(* Mutant: the as-of bound is ignored. *)
IngestionsLatest(t, s, b) ==
    MostRecent(t, { k \in DOMAIN t : SourceOf[k[2]] = s /\ t[k].status \in LandedStatus })

(* find_most_recent_ingestion_for_source: the rows registered no later than
   the last registration of the as-of batch, or all rows when the as-of
   batch has none.                                                         *)
IngestionsAsOf(t, s, b) ==
    LET asOf(k) == \/ BatchFiles(t, b) = {}
                   \/ \E j \in BatchFiles(t, b) : t[k].registered_at <= t[j].registered_at
    IN  MostRecent(t, { k \in DOMAIN t : /\ SourceOf[k[2]] = s
                                         /\ t[k].status \in LandedStatus
                                         /\ asOf(k) })

-----------------------------------------------------------------------------
(* Writers *)

(* Mutant: one row that may advance is enough. *)
CanAdvanceAny(t, ks, target) ==
    \E k \in ks : k \in DOMAIN t /\ <<t[k].status, target>> \in LegalTransitions

(* _assert_transition for every selected row, before any row is changed.
   No row selected is an AuditStateError too.                              *)
CanAdvance(t, ks, target) ==
    /\ ks # {}
    /\ \A k \in ks : k \in DOMAIN t /\ <<t[k].status, target>> \in LegalTransitions

(* register_file on a key without a row. *)
WithRegistered(t, k, c, at) ==
    [ j \in DOMAIN t \cup {k} |-> IF j = k THEN NewRow(c, at) ELSE t[j] ]

(* register_file finds the key taken by other bytes: AuditConflictError. *)
Conflicts(t, k, c) == k \in DOMAIN t /\ t[k].checksum # c

WithIngesting(t, k) == [ t EXCEPT ![k].status = "ingesting" ]

(* Mutant: one of the two counts is forgotten. *)
WithIngestedUncounted(t, k, m, n) ==
    [ t EXCEPT ![k] = [@ EXCEPT !.status = "ingested", !.source_rows = m] ]

(* Both counts and the status, in one UPDATE. *)
WithIngested(t, k, m, n) ==
    [ t EXCEPT ![k] = [@ EXCEPT !.status = "ingested", !.source_rows = m, !.bronze_rows = n] ]

(* Mutant: rows that have a count keep it. *)
WithRejectedOnce(t, ks, n) ==
    [ k \in DOMAIN t |-> IF k \in ks /\ t[k].rejected_rows = NULL
                         THEN [t[k] EXCEPT !.rejected_rows = n] ELSE t[k] ]

WithRejected(t, ks, n) ==
    [ k \in DOMAIN t |-> IF k \in ks THEN [t[k] EXCEPT !.rejected_rows = n] ELSE t[k] ]

WithTransforming(t, ks) ==
    [ k \in DOMAIN t |-> IF k \in ks THEN [t[k] EXCEPT !.status = "transforming"] ELSE t[k] ]

WithTransformed(t, ks, n) ==
    [ k \in DOMAIN t |->
        IF k \in ks THEN [t[k] EXCEPT !.status = "transformed", !.silver_rows = n] ELSE t[k] ]

(* Mutant: failed rows are left out. *)
WithGoldLive(t, ks, n) ==
    [ k \in DOMAIN t |-> IF k \in ks /\ t[k].status # "failed"
                         THEN [t[k] EXCEPT !.gold_rows = n] ELSE t[k] ]

WithGold(t, ks, n) ==
    [ k \in DOMAIN t |-> IF k \in ks THEN [t[k] EXCEPT !.gold_rows = n] ELSE t[k] ]

(* mark_failed does not look at the current status. *)
WithFailed(t, k) == [ t EXCEPT ![k].status = "failed" ]

-----------------------------------------------------------------------------
(* Reconciliation *)

(* The findings of reconcile_batch for one row.  Comparisons with NULL are
   skipped, as the code's "is not None" guards skip them; the reject rate
   is compared in integers, rejected / bronze > 5%.                        *)
Inflated(r) ==
    r.bronze_rows # NULL /\ r.source_rows # NULL /\ r.bronze_rows > r.source_rows

Drifted(r) ==
    /\ r.bronze_rows # NULL /\ r.rejected_rows # NULL /\ r.silver_rows # NULL
    /\ r.silver_rows # r.bronze_rows - r.rejected_rows

LostAll(r) == r.bronze_rows \notin {NULL, 0} /\ r.silver_rows = 0

HighRejects(r) ==
    /\ r.bronze_rows \notin {NULL, 0} /\ r.rejected_rows # NULL
    /\ 20 * r.rejected_rows > r.bronze_rows

(* Mutant: rows in the middle of their lifecycle are not reported. *)
FindingsOfCounts(r) ==
    { x \in { <<"CRITICAL", "bronze_inflated">>, <<"CRITICAL", "row_count_drift">> } :
        IF x[2] = "bronze_inflated" THEN Inflated(r) ELSE Drifted(r) }

Findings(r) ==
    { x \in { <<"CRITICAL", "bronze_inflated">>, <<"CRITICAL", "row_count_drift">>,
              <<"CRITICAL", "complete_silver_loss">>, <<"WARN", "high_reject_rate">>,
              <<"WARN", "empty_source_file">>, <<"WARN", "non_terminal_status">> } :
        CASE x[2] = "bronze_inflated"      -> Inflated(r)
          [] x[2] = "row_count_drift"      -> Drifted(r)
          [] x[2] = "complete_silver_loss" -> LostAll(r)
          [] x[2] = "high_reject_rate"     -> HighRejects(r)
          [] x[2] = "empty_source_file"    -> r.bronze_rows = 0
          [] OTHER                         -> r.status \notin {"transformed", "failed"} }
=============================================================================
