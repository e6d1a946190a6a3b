------------------------------ MODULE FileAudit ------------------------------
(***************************************************************************)
(* The file-audit DAO (src/src/metadata/audit.py): one action per writer,  *)
(* over the file_audit table and the append-only file_audit_events log.    *)
(*                                                                         *)
(* Every writer opens a transaction, checks, updates rows and appends      *)
(* events, and commits or rolls back; SQLite admits one writer at a time   *)
(* and refuses to upgrade a read that another writer has overtaken, so a   *)
(* call is one step.  A call that raises (or mark_failed, which swallows)  *)
(* rolls back and changes nothing: it is a stuttering step and needs no    *)
(* action.  reconcile_batch alone uses several connections: one to list    *)
(* the files, and one for the event of each.  Callers are unconstrained    *)
(* here: any call, any order, any number of times, which is what the DAO   *)
(* has to withstand.                                                       *)
(***************************************************************************)
EXTENDS AuditTable, Sequences

CONSTANTS
    MaxRows,    \* bound on a row count passed to a writer
    MaxNotes,   \* bound on the repeatable events of one file
    MaxClock    \* bound on the clock

ASSUME BoundAssumption == MaxRows \in Nat /\ MaxNotes \in Nat /\ MaxClock \in Nat

VARIABLES
    file_audit,         \* the table
    file_audit_events,  \* the timeline of each key, in event_id order
    pending,            \* the events that calls of reconcile_batch still owe
    clock               \* _utcnow(), in seconds

vars == <<file_audit, file_audit_events, pending, clock>>

EventType == {"registered", "ingest_started", "ingest_finished", "dq_completed",
              "silver_started", "silver_finished", "gold_finished", "reconciled",
              "failed", "schema_drift_detected", "vendor_timestamp_unavailable"}

(* An event and the counts of its payload. *)
Event == [type : EventType, source_rows : Count, rows : Count]

Plain(ty)         == [type |-> ty, source_rows |-> NULL, rows |-> NULL]
WithCount(ty, n)  == [type |-> ty, source_rows |-> NULL, rows |-> n]
IngestFinished(m, n) == [type |-> "ingest_finished", source_rows |-> m, rows |-> n]

Rows == 0 .. MaxRows

Init ==
    /\ file_audit = << >>
    /\ file_audit_events = [k \in Key |-> << >>]
    /\ pending = {}
    /\ clock = 0

-----------------------------------------------------------------------------
(* _emit_event for each of the keys ks.  The foreign key of
   file_audit_events makes it fail for unregistered keys.                  *)
Emit(ks, e(_)) ==
    file_audit_events' =
        [k \in Key |-> IF k \in ks THEN Append(file_audit_events[k], e(k))
                                   ELSE file_audit_events[k]]

(* The lifecycle bounds its own events; the ones that can repeat, failures
   and the notes that leave the status alone, are bounded here.            *)
Repeatable == {"dq_completed", "gold_finished", "reconciled", "failed",
               "schema_drift_detected", "vendor_timestamp_unavailable"}

HasRoom(k) ==
    Cardinality({i \in DOMAIN file_audit_events[k] :
                    file_audit_events[k][i].type \in Repeatable}) < MaxNotes

(* Mutant: registering again replaces the fingerprint. *)
RegisterFileUpsert(b, f, c, vendorTimestamp) ==
    LET k == <<b, f>> IN
    /\ HasRoom(k)
    /\ file_audit' = IF k \in DOMAIN file_audit
                     THEN [file_audit EXCEPT ![k].checksum = c]
                     ELSE WithRegistered(file_audit, k, c, clock)
    /\ Emit({k}, LAMBDA j : IF k \in DOMAIN file_audit
                            THEN Plain("vendor_timestamp_unavailable") ELSE Plain("registered"))
    /\ UNCHANGED <<pending, clock>>

(* Only the first registration of a file writes: the same fingerprint again
   is a no-op, another one raises AuditConflictError.                      *)
RegisterFile(b, f, c, vendorTimestamp) ==
    LET k == <<b, f>> IN
    /\ k \notin DOMAIN file_audit
    /\ vendorTimestamp \/ HasRoom(k)
    /\ file_audit' = WithRegistered(file_audit, k, c, clock)
    /\ file_audit_events' =
         [file_audit_events EXCEPT ![k] =
            IF vendorTimestamp
            THEN Append(@, Plain("registered"))
            ELSE Append(Append(@, Plain("registered")),
                        Plain("vendor_timestamp_unavailable"))]
    /\ UNCHANGED <<pending, clock>>

MarkIngesting(b, f) ==
    LET k == <<b, f>> IN
    /\ CanAdvance(file_audit, {k}, "ingesting")
    /\ file_audit' = WithIngesting(file_audit, k)
    /\ Emit({k}, LAMBDA j : Plain("ingest_started"))
    /\ UNCHANGED <<pending, clock>>

RecordIngestionComplete(b, f, m, n) ==
    LET k == <<b, f>> IN
    /\ CanAdvance(file_audit, {k}, "ingested")
    /\ file_audit' = WithIngested(file_audit, k, m, n)
    /\ Emit({k}, LAMBDA j : IngestFinished(m, n))
    /\ UNCHANGED <<pending, clock>>

RecordQuarantine(b, s, n) ==
    LET ks == FilesOf(file_audit, b, s) IN
    /\ ks # {}
    /\ \A k \in ks : HasRoom(k)
    /\ file_audit' = WithRejected(file_audit, ks, n)
    /\ Emit(ks, LAMBDA j : WithCount("dq_completed", n))
    /\ UNCHANGED <<pending, clock>>

MarkTransforming(b, s) ==
    LET ks == FilesOf(file_audit, b, s) IN
    /\ CanAdvance(file_audit, ks, "transforming")
    /\ file_audit' = WithTransforming(file_audit, ks)
    /\ Emit(ks, LAMBDA j : Plain("silver_started"))
    /\ UNCHANGED <<pending, clock>>

RecordSilverComplete(b, s, n) ==
    LET ks == FilesOf(file_audit, b, s) IN
    /\ CanAdvance(file_audit, ks, "transformed")
    /\ file_audit' = WithTransformed(file_audit, ks, n)
    /\ Emit(ks, LAMBDA j : WithCount("silver_finished", n))
    /\ UNCHANGED <<pending, clock>>

(* Gold records a count and never looks at the status. *)
RecordGoldComplete(b, s, n) ==
    LET ks == FilesOf(file_audit, b, s) IN
    /\ ks # {}
    /\ \A k \in ks : HasRoom(k)
    /\ file_audit' = WithGold(file_audit, ks, n)
    /\ Emit(ks, LAMBDA j : WithCount("gold_finished", n))
    /\ UNCHANGED <<pending, clock>>

(* Mutant: the event is not in the transaction. *)
MarkFailedSilently(b, f) ==
    /\ <<b, f>> \in DOMAIN file_audit
    /\ file_audit' = WithFailed(file_audit, <<b, f>>)
    /\ UNCHANGED <<file_audit_events, pending, clock>>

(* From any status, FAILED and TRANSFORMED included.  An unregistered key
   breaks the foreign key of the event: rolled back and swallowed.         *)
MarkFailed(b, f) ==
    LET k == <<b, f>> IN
    /\ k \in DOMAIN file_audit
    /\ HasRoom(k)
    /\ file_audit' = WithFailed(file_audit, k)
    /\ Emit({k}, LAMBDA j : Plain("failed"))
    /\ UNCHANGED <<pending, clock>>

RecordSchemaDrift(b, f) ==
    LET k == <<b, f>> IN
    /\ k \in DOMAIN file_audit
    /\ HasRoom(k)
    /\ Emit({k}, LAMBDA j : Plain("schema_drift_detected"))
    /\ UNCHANGED <<file_audit, pending, clock>>

(* What the event of a reconciliation says of a file: its finding_count. *)
Finding(k) == [key |-> k, findings |-> Cardinality(Findings(file_audit[k]))]

(* reconcile_batch lists the files of the batch once, and computes all its
   findings from that list...                                              *)
ReconcileRead(b) ==
    /\ BatchFiles(file_audit, b) # {}
    /\ pending' = pending \cup {Finding(k) : k \in BatchFiles(file_audit, b)}
    /\ UNCHANGED <<file_audit, file_audit_events, clock>>

(* ...and writes the event of each file on a connection of its own: other
   calls come between, and one that is killed leaves the rest unwritten.   *)
ReconcileEmit(note) ==
    /\ HasRoom(note.key)
    /\ Emit({note.key}, LAMBDA j : WithCount("reconciled", note.findings))
    /\ pending' = pending \ {note}
    /\ UNCHANGED <<file_audit, clock>>

Tick ==
    /\ clock < MaxClock
    /\ clock' = clock + 1
    /\ UNCHANGED <<file_audit, file_audit_events, pending>>

FileCall(b, f) ==
    \/ \E c \in Checksum, v \in BOOLEAN : RegisterFile(b, f, c, v)
    \/ MarkIngesting(b, f)
    \/ \E m, n \in Rows : RecordIngestionComplete(b, f, m, n)
    \/ MarkFailed(b, f)
    \/ RecordSchemaDrift(b, f)

SourceCall(b, s) ==
    \/ \E n \in Rows : RecordQuarantine(b, s, n)
    \/ MarkTransforming(b, s)
    \/ \E n \in Rows : RecordSilverComplete(b, s, n)
    \/ \E n \in Rows : RecordGoldComplete(b, s, n)

Next ==
    \/ \E b \in Batch, f \in File : FileCall(b, f)
    \/ \E b \in Batch, s \in Source : SourceCall(b, s)
    \/ \E b \in Batch : ReconcileRead(b)
    \/ \E note \in pending : ReconcileEmit(note)
    \/ Tick

Spec == Init /\ [][Next]_vars

-----------------------------------------------------------------------------
(* Properties *)

(* The table holds rows of the schema, keyed by (batch, path), and the log
   holds typed events.                                                     *)
TypeOK ==
    /\ DOMAIN file_audit \subseteq Key
    /\ \A k \in DOMAIN file_audit : file_audit[k] \in Row
    /\ file_audit_events \in [Key -> Seq(Event)]
    /\ pending \subseteq [key : DOMAIN file_audit, findings : Nat]
    /\ clock \in Nat

(* Where an event that changes the status stands in the lifecycle; 0 for
   the events that leave the status alone.                                 *)
EventRank(ty) ==
    CASE ty = "registered"      -> 1
      [] ty = "ingest_started"  -> 2
      [] ty = "ingest_finished" -> 3
      [] ty = "silver_started"  -> 4
      [] ty = "silver_finished" -> 5
      [] ty = "failed"          -> 6
      [] OTHER                  -> 0

StatusRank(st) ==
    CASE st = "registered"   -> 1
      [] st = "ingesting"    -> 2
      [] st = "ingested"     -> 3
      [] st = "transforming" -> 4
      [] st = "transformed"  -> 5
      [] OTHER               -> 6

(* i is the last event of timeline s whose type is in tys. *)
IsLast(s, i, tys) ==
    /\ i \in DOMAIN s /\ s[i].type \in tys
    /\ \A j \in DOMAIN s : j > i => s[j].type \notin tys

StageEvent == {ty \in EventType : EventRank(ty) > 0}

(* The event log explains the status: the last lifecycle event in a file's
   timeline is the one of the status in its row, and a file without a row
   has no event.  This is what "mutations to file_audit always write an
   event in the same transaction" (db.py) has to give.                     *)
EndsAt(s, rank) ==
    \E i \in DOMAIN s : IsLast(s, i, StageEvent) /\ EventRank(s[i].type) = rank

TimelineExplainsStatus ==
    \A k \in Key :
        IF k \in DOMAIN file_audit
        THEN EndsAt(file_audit_events[k], StatusRank(file_audit[k].status))
        ELSE file_audit_events[k] = << >>

(* A count column and the type of the event that carries its value: the
   column is NULL until there is such an event, and then what the last one
   of them reported.                                                       *)
Explains(s, ty, value) ==
    \/ value = NULL /\ \A i \in DOMAIN s : s[i].type # ty
    \/ \E i \in DOMAIN s : IsLast(s, i, {ty}) /\ s[i].rows = value

(* The event log explains the counts of the row, column by column. *)
TimelineExplainsCounts ==
    \A k \in DOMAIN file_audit :
        LET s == file_audit_events[k]  r == file_audit[k] IN
        /\ Explains(s, "ingest_finished", r.bronze_rows)
        /\ Explains(s, "dq_completed",    r.rejected_rows)
        /\ Explains(s, "silver_finished", r.silver_rows)
        /\ Explains(s, "gold_finished",   r.gold_rows)

(* Each lifecycle stage happens at most once to a file and in order, and
   nothing but another failure follows a failure, whatever the callers do. *)
InOrder(s) ==
    \A i, j \in DOMAIN s :
        LET ri == EventRank(s[i].type)  rj == EventRank(s[j].type) IN
        i < j /\ ri > 0 /\ rj > 0 => ri < rj \/ (ri = 6 /\ rj = 6)

StagesInOrder == \A k \in Key : InOrder(file_audit_events[k])

(* The inductive form of the two: the status is also a bound on every
   lifecycle event so far, which is what makes the next one the largest.   *)
TimelineOK(s, rank) ==
    /\ InOrder(s)
    /\ EndsAt(s, rank)
    /\ \A i \in DOMAIN s : EventRank(s[i].type) <= rank

TimelineInv ==
    \A k \in Key :
        IF k \in DOMAIN file_audit
        THEN TimelineOK(file_audit_events[k], StatusRank(file_audit[k].status))
        ELSE file_audit_events[k] = << >>

(* Counts follow the lifecycle: a file that landed has both landing counts,
   a transformed one has a Silver count, and only a file that got that far
   (or failed afterwards) has them.                                        *)
CountsFollowLifecycle ==
    \A k \in DOMAIN file_audit :
        LET r == file_audit[k] IN
        /\ r.source_rows = NULL <=> r.bronze_rows = NULL
        /\ r.status \in LandedStatus => r.bronze_rows # NULL
        /\ r.status = "transformed" => r.silver_rows # NULL
        /\ r.bronze_rows # NULL => r.status \in LandedStatus \cup {"failed"}
        /\ r.silver_rows # NULL => /\ r.status \in {"transformed", "failed"}
                                   /\ r.bronze_rows # NULL

(* Source-grain attribution: two files of one source in one batch that carry
   a rejected, Silver or Gold count carry the same one, although files can be
   registered and failed one by one between the source-grain writes.       *)
SourceGrainAgrees ==
    \A k, j \in DOMAIN file_audit :
        k[1] = j[1] /\ SourceOf[k[2]] = SourceOf[j[2]] =>
            LET p == file_audit[k]  q == file_audit[j] IN
            /\ NULL \in {p.rejected_rows, q.rejected_rows} \/ p.rejected_rows = q.rejected_rows
            /\ NULL \in {p.silver_rows, q.silver_rows} \/ p.silver_rows = q.silver_rows
            /\ NULL \in {p.gold_rows, q.gold_rows} \/ p.gold_rows = q.gold_rows

(* A reconciliation that finds nothing is final: the file had finished its
   lifecycle when the files were listed, and no call that comes before the
   event is written (another connection, audit.py:1094 and 1187) or after it
   brings it back into it.                                                 *)
CleanReconciliationIsFinal ==
    \A k \in DOMAIN file_audit :
        (\E i \in DOMAIN file_audit_events[k] :
            file_audit_events[k][i].type = "reconciled" /\ file_audit_events[k][i].rows = 0)
        => file_audit[k].status \in {"transformed", "failed"}

(* What has been recorded about a landed file is never recorded again: the
   fingerprint and the landing and Silver counts are written once.         *)
WrittenOnce ==
    [][\A k \in DOMAIN file_audit :
        /\ k \in DOMAIN file_audit'
        /\ file_audit'[k].checksum = file_audit[k].checksum
        /\ file_audit'[k].registered_at = file_audit[k].registered_at
        /\ file_audit[k].bronze_rows # NULL =>
             /\ file_audit'[k].source_rows = file_audit[k].source_rows
             /\ file_audit'[k].bronze_rows = file_audit[k].bronze_rows
        /\ file_audit[k].silver_rows # NULL =>
             file_audit'[k].silver_rows = file_audit[k].silver_rows]_vars

(* The promise to the rest of the pipeline, see FileLifecycle. *)
phase == [k \in Key |-> IF k \in DOMAIN file_audit THEN file_audit[k].status ELSE "absent"]

Lifecycle == INSTANCE FileLifecycle WITH phase <- phase
LifecycleSpec == Lifecycle!Spec
=============================================================================
