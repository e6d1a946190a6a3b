--------------------------- MODULE FileAuditProofs ---------------------------
(***************************************************************************)
(* Theorems about FileAudit, for any batches, files, sources, checksums    *)
(* and bounds.                                                             *)
(***************************************************************************)
EXTENDS FileAudit, FiniteSetTheorems, TLAPS

-----------------------------------------------------------------------------
(* The table *)

(* The columns the writers set, one UPDATE at a time. *)
LEMMA RowEdits ==
    ASSUME NEW r \in Row
    PROVE  /\ \A st \in FileStatus : [r EXCEPT !.status = st] \in Row
           /\ \A n \in Count : [r EXCEPT !.rejected_rows = n] \in Row
           /\ \A n \in Count : [r EXCEPT !.gold_rows = n] \in Row
           /\ \A st \in FileStatus, n \in Count :
                 [r EXCEPT !.status = st, !.silver_rows = n] \in Row
           /\ \A st \in FileStatus, m, n \in Count :
                 [r EXCEPT !.status = st, !.source_rows = m, !.bronze_rows = n] \in Row
BY DEF Row

-----------------------------------------------------------------------------
(* The parts of a step *)

(* The findings of a row are finitely many: the payload of 'reconciled' is a
   natural number (reconcile_batch, audit.py).                             *)
LEMMA FindingsCount ==
    ASSUME NEW r
    PROVE  IsFiniteSet(Findings(r)) /\ Cardinality(Findings(r)) \in Nat
<1> DEFINE crit == { <<"CRITICAL", "bronze_inflated">>, <<"CRITICAL", "row_count_drift">>,
                     <<"CRITICAL", "complete_silver_loss">> }
           warn == { <<"WARN", "high_reject_rate">>, <<"WARN", "empty_source_file">>,
                     <<"WARN", "non_terminal_status">> }
<1>1. \A x, y, z : IsFiniteSet({x, y, z})
  <2>1. ASSUME NEW x, NEW y, NEW z
        PROVE  {x, y, z} = ({x} \cup {y}) \cup {z}
    OBVIOUS
  <2>2. ASSUME NEW x, NEW y, NEW z
        PROVE  IsFiniteSet(({x} \cup {y}) \cup {z})
    BY FS_Singleton, FS_Union
  <2>3. QED
    BY <2>1, <2>2
<1>2. IsFiniteSet(crit) /\ IsFiniteSet(warn)
  BY <1>1
<1>3. Findings(r) \subseteq crit \cup warn
  BY DEF Findings
<1>4. IsFiniteSet(crit \cup warn)
  BY <1>2, FS_Union
<1>5. QED
  BY <1>3, <1>4, FS_Subset, FS_CardinalityType

(* What one call appends to the log is typed (the emits of audit.py). *)
LEMMA EventsTyped ==
    /\ \A ty \in EventType : Plain(ty) \in Event
    /\ \A ty \in EventType, n \in Nat : WithCount(ty, n) \in Event
    /\ \A m, n \in Nat : IngestFinished(m, n) \in Event
BY DEF Plain, WithCount, IngestFinished, Event, EventType, Count

(* A count a caller passes fits the column. *)
LEMMA RowsAreCounts == Rows \subseteq Nat /\ Nat \subseteq Count
BY BoundAssumption DEF Rows, Count

LEMMA FilesAreRows ==
    /\ \A b, s : FilesOf(file_audit, b, s) \subseteq DOMAIN file_audit
    /\ \A b : BatchFiles(file_audit, b) \subseteq DOMAIN file_audit
BY DEF FilesOf, BatchFiles

-----------------------------------------------------------------------------
(* Type correctness *)

(* The table holds rows and the log holds events, whatever the callers of
   the DAO do.                                                             *)
THEOREM TypeCorrect == Spec => []TypeOK
<1>1. Init => TypeOK
  BY DEF Init, TypeOK
<1>2. TypeOK /\ [Next]_vars => TypeOK'
  <2> SUFFICES ASSUME TypeOK, [Next]_vars PROVE TypeOK'
    OBVIOUS
  <2>1. ASSUME NEW b \in Batch, NEW f \in File, NEW c \in Checksum, NEW v \in BOOLEAN,
               RegisterFile(b, f, c, v)
        PROVE  TypeOK'
    <3>1. NewRow(c, clock) \in Row
      BY DEF NewRow, Row, FileStatus, Count, TypeOK
    <3>2. Plain("registered") \in Event /\ Plain("vendor_timestamp_unavailable") \in Event
      BY EventsTyped DEF EventType
    <3>3. <<b, f>> \in Key
      BY DEF Key
    <3>4. file_audit_events' \in [Key -> Seq(Event)]
      BY <2>1, <3>2, <3>3 DEF RegisterFile, TypeOK
    <3>5. QED
      BY <2>1, <3>1, <3>3, <3>4 DEF RegisterFile, WithRegistered, TypeOK
  <2>2. ASSUME NEW b \in Batch, NEW f \in File, MarkIngesting(b, f)
        PROVE  TypeOK'
    <3>1. Plain("ingest_started") \in Event
      BY EventsTyped, RowsAreCounts DEF EventType
    <3>2. file_audit_events' \in [Key -> Seq(Event)]
      BY <2>2, <3>1 DEF MarkIngesting, Emit, TypeOK
    <3>3. DOMAIN file_audit' = DOMAIN file_audit
      BY <2>2 DEF MarkIngesting, WithIngesting
    <3>4. \A k \in DOMAIN file_audit' : file_audit'[k] \in Row
      BY <2>2, RowEdits DEF MarkIngesting, WithIngesting, TypeOK, FileStatus
    <3>5. QED
      BY <2>2, <3>2, <3>3, <3>4 DEF MarkIngesting, TypeOK
  <2>3. ASSUME NEW b \in Batch, NEW f \in File, NEW m \in Rows, NEW n \in Rows,
               RecordIngestionComplete(b, f, m, n)
        PROVE  TypeOK'
    <3>1. IngestFinished(m, n) \in Event
      BY EventsTyped, RowsAreCounts DEF EventType
    <3>2. file_audit_events' \in [Key -> Seq(Event)]
      BY <2>3, <3>1 DEF RecordIngestionComplete, Emit, TypeOK
    <3>3. DOMAIN file_audit' = DOMAIN file_audit
      BY <2>3 DEF RecordIngestionComplete, WithIngested
    <3>4. \A k \in DOMAIN file_audit' : file_audit'[k] \in Row
      BY <2>3, RowEdits, RowsAreCounts DEF RecordIngestionComplete, WithIngested, TypeOK,
                                            FileStatus
    <3>5. QED
      BY <2>3, <3>2, <3>3, <3>4 DEF RecordIngestionComplete, TypeOK
  <2>4. ASSUME NEW b \in Batch, NEW f \in File, MarkFailed(b, f)
        PROVE  TypeOK'
    <3>1. Plain("failed") \in Event
      BY EventsTyped, RowsAreCounts DEF EventType
    <3>2. file_audit_events' \in [Key -> Seq(Event)]
      BY <2>4, <3>1 DEF MarkFailed, Emit, TypeOK
    <3>3. DOMAIN file_audit' = DOMAIN file_audit
      BY <2>4 DEF MarkFailed, WithFailed
    <3>4. \A k \in DOMAIN file_audit' : file_audit'[k] \in Row
      BY <2>4, RowEdits DEF MarkFailed, WithFailed, TypeOK, FileStatus
    <3>5. QED
      BY <2>4, <3>2, <3>3, <3>4 DEF MarkFailed, TypeOK
  <2>5. ASSUME NEW b \in Batch, NEW f \in File, RecordSchemaDrift(b, f)
        PROVE  TypeOK'
    <3>1. Plain("schema_drift_detected") \in Event
      BY EventsTyped DEF EventType
    <3>2. QED
      BY <2>5, <3>1 DEF RecordSchemaDrift, Emit, TypeOK
  <2>6. ASSUME NEW b \in Batch, NEW s \in Source, NEW n \in Rows, RecordQuarantine(b, s, n)
        PROVE  TypeOK'
    <3>1. WithCount("dq_completed", n) \in Event
      BY EventsTyped, RowsAreCounts DEF EventType
    <3>2. file_audit_events' \in [Key -> Seq(Event)]
      BY <2>6, <3>1 DEF RecordQuarantine, Emit, TypeOK
    <3>3. DOMAIN file_audit' = DOMAIN file_audit
      BY <2>6 DEF RecordQuarantine, WithRejected
    <3>4. \A k \in DOMAIN file_audit' : file_audit'[k] \in Row
      BY <2>6, RowEdits, RowsAreCounts DEF RecordQuarantine, WithRejected, TypeOK, FileStatus
    <3>5. QED
      BY <2>6, <3>2, <3>3, <3>4 DEF RecordQuarantine, TypeOK
  <2>7. ASSUME NEW b \in Batch, NEW s \in Source, MarkTransforming(b, s)
        PROVE  TypeOK'
    <3>1. Plain("silver_started") \in Event
      BY EventsTyped, RowsAreCounts DEF EventType
    <3>2. file_audit_events' \in [Key -> Seq(Event)]
      BY <2>7, <3>1 DEF MarkTransforming, Emit, TypeOK
    <3>3. DOMAIN file_audit' = DOMAIN file_audit
      BY <2>7 DEF MarkTransforming, WithTransforming
    <3>4. \A k \in DOMAIN file_audit' : file_audit'[k] \in Row
      BY <2>7, RowEdits DEF MarkTransforming, WithTransforming, TypeOK, FileStatus
    <3>5. QED
      BY <2>7, <3>2, <3>3, <3>4 DEF MarkTransforming, TypeOK
  <2>8. ASSUME NEW b \in Batch, NEW s \in Source, NEW n \in Rows, RecordSilverComplete(b, s, n)
        PROVE  TypeOK'
    <3>1. WithCount("silver_finished", n) \in Event
      BY EventsTyped, RowsAreCounts DEF EventType
    <3>2. file_audit_events' \in [Key -> Seq(Event)]
      BY <2>8, <3>1 DEF RecordSilverComplete, Emit, TypeOK
    <3>3. DOMAIN file_audit' = DOMAIN file_audit
      BY <2>8 DEF RecordSilverComplete, WithTransformed
    <3>4. \A k \in DOMAIN file_audit' : file_audit'[k] \in Row
      BY <2>8, RowEdits, RowsAreCounts DEF RecordSilverComplete, WithTransformed, TypeOK, FileStatus
    <3>5. QED
      BY <2>8, <3>2, <3>3, <3>4 DEF RecordSilverComplete, TypeOK
  <2>9. ASSUME NEW b \in Batch, NEW s \in Source, NEW n \in Rows, RecordGoldComplete(b, s, n)
        PROVE  TypeOK'
    <3>1. WithCount("gold_finished", n) \in Event
      BY EventsTyped, RowsAreCounts DEF EventType
    <3>2. file_audit_events' \in [Key -> Seq(Event)]
      BY <2>9, <3>1 DEF RecordGoldComplete, Emit, TypeOK
    <3>3. DOMAIN file_audit' = DOMAIN file_audit
      BY <2>9 DEF RecordGoldComplete, WithGold
    <3>4. \A k \in DOMAIN file_audit' : file_audit'[k] \in Row
      BY <2>9, RowEdits, RowsAreCounts DEF RecordGoldComplete, WithGold, TypeOK, FileStatus
    <3>5. QED
      BY <2>9, <3>2, <3>3, <3>4 DEF RecordGoldComplete, TypeOK
  <2>10. ASSUME NEW b \in Batch, ReconcileRead(b)
         PROVE  TypeOK'
    <3>1. \A k \in BatchFiles(file_audit, b) :
             Finding(k) \in [key : DOMAIN file_audit, findings : Nat]
      BY FindingsCount, FilesAreRows DEF Finding
    <3>2. QED
      BY <2>10, <3>1 DEF ReconcileRead, TypeOK
  <2>11. ASSUME NEW note \in pending, ReconcileEmit(note)
         PROVE  TypeOK'
    <3>1. WithCount("reconciled", note.findings) \in Event
      BY EventsTyped DEF EventType, TypeOK
    <3>2. QED
      BY <2>11, <3>1 DEF ReconcileEmit, Emit, TypeOK
  <2>12. CASE Tick
    BY <2>12 DEF Tick, TypeOK
  <2>13. CASE UNCHANGED vars
    BY <2>13 DEF vars, TypeOK
  <2>14. QED
    BY <2>1, <2>2, <2>3, <2>4, <2>5, <2>6, <2>7, <2>8, <2>9, <2>10, <2>11, <2>12, <2>13
       DEF Next, FileCall, SourceCall
<1>3. QED
  BY <1>1, <1>2, PTL DEF Spec

-----------------------------------------------------------------------------
(* Counts *)

(* A count that has been recorded is not NULL. *)
LEMMA RowsNotNull == \A n \in Rows : n # NULL
BY AuditAssumption, RowsAreCounts

(* The counts a row carries are the ones of the stages its file went
   through: landing counts with the landing, a Silver count only behind
   them (record_ingestion_complete, record_silver_complete, audit.py).     *)
THEOREM CountsFollow == Spec => []CountsFollowLifecycle
<1>1. Init => CountsFollowLifecycle
  BY DEF Init, CountsFollowLifecycle
<1>2. TypeOK /\ CountsFollowLifecycle /\ [Next]_vars => CountsFollowLifecycle'
  <2> SUFFICES ASSUME TypeOK, CountsFollowLifecycle, [Next]_vars
               PROVE  CountsFollowLifecycle'
    OBVIOUS
  <2> USE DEF CountsFollowLifecycle, LandedStatus, TypeOK, Row
  <2>1. ASSUME NEW b \in Batch, NEW f \in File, NEW c \in Checksum, NEW v \in BOOLEAN,
               RegisterFile(b, f, c, v)
        PROVE  CountsFollowLifecycle'
    BY <2>1 DEF RegisterFile, WithRegistered, NewRow
  <2>2. ASSUME NEW b \in Batch, NEW f \in File, MarkIngesting(b, f)
        PROVE  CountsFollowLifecycle'
    BY <2>2 DEF MarkIngesting, CanAdvance, LegalTransitions, WithIngesting
  <2>3. ASSUME NEW b \in Batch, NEW f \in File, NEW m \in Rows, NEW n \in Rows,
               RecordIngestionComplete(b, f, m, n)
        PROVE  CountsFollowLifecycle'
    BY <2>3, RowsNotNull
       DEF RecordIngestionComplete, CanAdvance, LegalTransitions, WithIngested
  <2>4. ASSUME NEW b \in Batch, NEW f \in File, MarkFailed(b, f)
        PROVE  CountsFollowLifecycle'
    BY <2>4 DEF MarkFailed, WithFailed
  <2>5. ASSUME NEW b \in Batch, NEW s \in Source, NEW n \in Rows, RecordQuarantine(b, s, n)
        PROVE  CountsFollowLifecycle'
    BY <2>5 DEF RecordQuarantine, WithRejected
  <2>6. ASSUME NEW b \in Batch, NEW s \in Source, MarkTransforming(b, s)
        PROVE  CountsFollowLifecycle'
    BY <2>6 DEF MarkTransforming, CanAdvance, LegalTransitions, WithTransforming
  <2>7. ASSUME NEW b \in Batch, NEW s \in Source, NEW n \in Rows, RecordSilverComplete(b, s, n)
        PROVE  CountsFollowLifecycle'
    BY <2>7, RowsNotNull
       DEF RecordSilverComplete, CanAdvance, LegalTransitions, WithTransformed
  <2>8. ASSUME NEW b \in Batch, NEW s \in Source, NEW n \in Rows, RecordGoldComplete(b, s, n)
        PROVE  CountsFollowLifecycle'
    BY <2>8 DEF RecordGoldComplete, WithGold
  <2>9. ASSUME UNCHANGED file_audit
        PROVE  CountsFollowLifecycle'
    BY <2>9
  <2>10. \/ \E b \in Batch, f \in File : FileCall(b, f)
         \/ \E b \in Batch, s \in Source : SourceCall(b, s)
         \/ UNCHANGED file_audit
    BY DEF Next, ReconcileRead, ReconcileEmit, Tick, vars
  <2>11. ASSUME NEW b \in Batch, NEW f \in File, FileCall(b, f)
         PROVE  CountsFollowLifecycle'
    BY <2>1, <2>2, <2>3, <2>4, <2>9, <2>11 DEF FileCall, RecordSchemaDrift
  <2>12. ASSUME NEW b \in Batch, NEW s \in Source, SourceCall(b, s)
         PROVE  CountsFollowLifecycle'
    BY <2>5, <2>6, <2>7, <2>8, <2>12 DEF SourceCall
  <2>13. QED
    BY <2>9, <2>10, <2>11, <2>12
<1>3. QED
  BY <1>1, <1>2, TypeCorrect, PTL DEF Spec

-----------------------------------------------------------------------------
(* Source-grain attribution *)

(* A step that touches none of the source-grain columns. *)
LEMMA SameSourceGrain ==
    ASSUME SourceGrainAgrees, DOMAIN file_audit' = DOMAIN file_audit,
           \A k \in DOMAIN file_audit :
              /\ file_audit'[k].rejected_rows = file_audit[k].rejected_rows
              /\ file_audit'[k].silver_rows = file_audit[k].silver_rows
              /\ file_audit'[k].gold_rows = file_audit[k].gold_rows
    PROVE  SourceGrainAgrees'
BY DEF SourceGrainAgrees

(* Files of one source never disagree on a source-grain count: each of the
   three writers covers every file the source has at that moment, and a file
   registered later starts without one (record_quarantine,
   record_silver_complete, record_gold_complete, audit.py).                *)
THEOREM SourceGrain == Spec => []SourceGrainAgrees
<1>1. Init => SourceGrainAgrees
  BY DEF Init, SourceGrainAgrees
<1>2. TypeOK /\ SourceGrainAgrees /\ [Next]_vars => SourceGrainAgrees'
  <2> SUFFICES ASSUME TypeOK, SourceGrainAgrees, [Next]_vars
               PROVE  SourceGrainAgrees'
    OBVIOUS
  <2>1. ASSUME NEW b \in Batch, NEW f \in File, NEW c \in Checksum, NEW v \in BOOLEAN,
               RegisterFile(b, f, c, v)
        PROVE  SourceGrainAgrees'
    BY <2>1 DEF RegisterFile, WithRegistered, NewRow, SourceGrainAgrees, TypeOK, Row
  <2>2. ASSUME NEW b \in Batch, NEW f \in File, MarkIngesting(b, f)
        PROVE  SourceGrainAgrees'
    BY <2>2, SameSourceGrain DEF MarkIngesting, WithIngesting, TypeOK, Row
  <2>3. ASSUME NEW b \in Batch, NEW f \in File, NEW m \in Rows, NEW n \in Rows,
               RecordIngestionComplete(b, f, m, n)
        PROVE  SourceGrainAgrees'
    BY <2>3, SameSourceGrain DEF RecordIngestionComplete, WithIngested, TypeOK, Row
  <2>4. ASSUME NEW b \in Batch, NEW f \in File, MarkFailed(b, f)
        PROVE  SourceGrainAgrees'
    BY <2>4, SameSourceGrain DEF MarkFailed, WithFailed, TypeOK, Row
  <2>5. ASSUME NEW b \in Batch, NEW s \in Source, NEW n \in Rows, RecordQuarantine(b, s, n)
        PROVE  SourceGrainAgrees'
    BY <2>5 DEF RecordQuarantine, WithRejected, FilesOf, SourceGrainAgrees, TypeOK, Row
  <2>6. ASSUME NEW b \in Batch, NEW s \in Source, MarkTransforming(b, s)
        PROVE  SourceGrainAgrees'
    BY <2>6, SameSourceGrain DEF MarkTransforming, WithTransforming, TypeOK, Row
  <2>7. ASSUME NEW b \in Batch, NEW s \in Source, NEW n \in Rows, RecordSilverComplete(b, s, n)
        PROVE  SourceGrainAgrees'
    <3> DEFINE ks == FilesOf(file_audit, b, s)
    <3>1. DOMAIN file_audit' = DOMAIN file_audit
      BY <2>7 DEF RecordSilverComplete, WithTransformed
    <3>2. \A k \in DOMAIN file_audit :
            /\ file_audit'[k].rejected_rows = file_audit[k].rejected_rows
            /\ file_audit'[k].gold_rows = file_audit[k].gold_rows
            /\ file_audit'[k].silver_rows = IF k \in ks THEN n ELSE file_audit[k].silver_rows
      BY <2>7 DEF RecordSilverComplete, WithTransformed, TypeOK, Row
    <3>3. \A k, j \in DOMAIN file_audit :
            k[1] = j[1] /\ SourceOf[k[2]] = SourceOf[j[2]] => (k \in ks <=> j \in ks)
      BY DEF FilesOf
    <3>4. QED
      BY <3>1, <3>2, <3>3 DEF SourceGrainAgrees
  <2>8. ASSUME NEW b \in Batch, NEW s \in Source, NEW n \in Rows, RecordGoldComplete(b, s, n)
        PROVE  SourceGrainAgrees'
    BY <2>8 DEF RecordGoldComplete, WithGold, FilesOf, SourceGrainAgrees, TypeOK, Row
  <2>9. ASSUME UNCHANGED file_audit
        PROVE  SourceGrainAgrees'
    BY <2>9 DEF SourceGrainAgrees
  <2>10. QED
    BY <2>1, <2>2, <2>3, <2>4, <2>5, <2>6, <2>7, <2>8, <2>9
       DEF Next, FileCall, SourceCall, RecordSchemaDrift, ReconcileRead, ReconcileEmit, Tick, vars
<1>3. QED
  BY <1>1, <1>2, TypeCorrect, PTL DEF Spec

-----------------------------------------------------------------------------
(* Refinement *)

(* The stage of a file after a writer has moved a set of files. *)
LEMMA PhaseOfPresent ==
    ASSUME TypeOK, NEW b \in Batch, NEW s \in Source
    PROVE  Lifecycle!Present(b, s) = FilesOf(file_audit, b, s)
BY DEF TypeOK, Row, FileStatus, Lifecycle!Present, Lifecycle!Key, Key, FilesOf, phase

(* The DAO implements the lifecycle it promises: every call is one step of
   one file, one step of every file of a source together, or no step at
   all (_LEGAL_TRANSITIONS and the writers of audit.py).                   *)
THEOREM ImplementsLifecycle == Spec => LifecycleSpec
<1>1. Init => Lifecycle!Init
  BY DEF Init, Lifecycle!Init, Lifecycle!Key, Key, phase
<1>2. TypeOK /\ [Next]_vars => [Lifecycle!Next]_phase
  <2> SUFFICES ASSUME TypeOK, [Next]_vars
               PROVE  [Lifecycle!Next]_phase
    OBVIOUS
  <2> USE DEF TypeOK, Row, FileStatus
  <2>1. ASSUME NEW b \in Batch, NEW f \in File, NEW c \in Checksum, NEW v \in BOOLEAN,
               RegisterFile(b, f, c, v)
        PROVE  Lifecycle!Advance(<<b, f>>, "absent", "registered")
    BY <2>1 DEF RegisterFile, WithRegistered, NewRow, Lifecycle!Advance, Key, phase
  <2>2. ASSUME NEW b \in Batch, NEW f \in File, MarkIngesting(b, f)
        PROVE  Lifecycle!Advance(<<b, f>>, "registered", "ingesting")
    BY <2>2 DEF MarkIngesting, CanAdvance, LegalTransitions, WithIngesting,
                Lifecycle!Advance, Key, phase
  <2>3. ASSUME NEW b \in Batch, NEW f \in File, NEW m \in Rows, NEW n \in Rows,
               RecordIngestionComplete(b, f, m, n)
        PROVE  Lifecycle!Advance(<<b, f>>, "ingesting", "ingested")
    BY <2>3 DEF RecordIngestionComplete, CanAdvance, LegalTransitions, WithIngested,
                Lifecycle!Advance, Key, phase
  <2>4. ASSUME NEW b \in Batch, NEW f \in File, MarkFailed(b, f)
        PROVE  Lifecycle!Fail(<<b, f>>)
    BY <2>4 DEF MarkFailed, WithFailed, Lifecycle!Fail, Key, phase
  <2>5. ASSUME NEW b \in Batch, NEW s \in Source, NEW n \in Rows, RecordQuarantine(b, s, n)
        PROVE  UNCHANGED phase
    BY <2>5 DEF RecordQuarantine, WithRejected, phase
  <2>6. ASSUME NEW b \in Batch, NEW s \in Source, MarkTransforming(b, s)
        PROVE  Lifecycle!AdvanceSource(b, s, "ingested", "transforming")
    BY <2>6, PhaseOfPresent, FilesAreRows
       DEF MarkTransforming, CanAdvance, LegalTransitions, WithTransforming,
           Lifecycle!AdvanceSource, Lifecycle!Key, Key, phase
  <2>7. ASSUME NEW b \in Batch, NEW s \in Source, NEW n \in Rows, RecordSilverComplete(b, s, n)
        PROVE  Lifecycle!AdvanceSource(b, s, "transforming", "transformed")
    BY <2>7, PhaseOfPresent, FilesAreRows
       DEF RecordSilverComplete, CanAdvance, LegalTransitions, WithTransformed,
           Lifecycle!AdvanceSource, Lifecycle!Key, Key, phase
  <2>8. ASSUME NEW b \in Batch, NEW s \in Source, NEW n \in Rows, RecordGoldComplete(b, s, n)
        PROVE  UNCHANGED phase
    BY <2>8 DEF RecordGoldComplete, WithGold, phase
  <2>9. ASSUME UNCHANGED file_audit
        PROVE  UNCHANGED phase
    BY <2>9 DEF phase
  <2>10. \A b \in Batch, f \in File : <<b, f>> \in Lifecycle!Key
    BY DEF Lifecycle!Key
  <2>11. QED
    BY <2>1, <2>2, <2>3, <2>4, <2>5, <2>6, <2>7, <2>8, <2>9, <2>10
       DEF Next, FileCall, SourceCall, RecordSchemaDrift, ReconcileRead, ReconcileEmit, Tick, vars,
           Lifecycle!Next
<1>3. QED
  BY <1>1, <1>2, TypeCorrect, PTL DEF Spec, LifecycleSpec, Lifecycle!Spec

-----------------------------------------------------------------------------
(* Timelines *)

LEMMA Ranks ==
    /\ \A ty \in EventType : EventRank(ty) \in 0 .. 6
    /\ \A st \in FileStatus : StatusRank(st) \in 1 .. 6
BY DEF EventRank, StatusRank, EventType, FileStatus

(* Appending an event that leaves the status alone. *)
LEMMA AppendNote ==
    ASSUME NEW s \in Seq(Event), NEW rank \in 1 .. 6, NEW e \in Event,
           TimelineOK(s, rank), EventRank(e.type) = 0
    PROVE  TimelineOK(Append(s, e), rank)
<1> DEFINE t == Append(s, e)
<1>1. /\ t \in Seq(Event) /\ DOMAIN t = 1 .. Len(s) + 1 /\ DOMAIN s = 1 .. Len(s)
      /\ Len(s) \in Nat /\ t[Len(s) + 1] = e
      /\ \A i \in 1 .. Len(s) : t[i] = s[i]
  OBVIOUS
<1>2. e.type \notin StageEvent
  BY DEF StageEvent
<1> HIDE DEF t
<1>3. InOrder(t)
  BY <1>1 DEF InOrder, TimelineOK
<1>4. EndsAt(t, rank)
  <2>1. PICK i \in DOMAIN s : IsLast(s, i, StageEvent) /\ EventRank(s[i].type) = rank
    BY DEF TimelineOK, EndsAt
  <2>2. IsLast(t, i, StageEvent) /\ EventRank(t[i].type) = rank
    BY <1>1, <1>2, <2>1 DEF IsLast
  <2>3. QED
    BY <1>1, <2>1, <2>2 DEF EndsAt
<1>5. \A i \in DOMAIN t : EventRank(t[i].type) <= rank
  BY <1>1 DEF TimelineOK
<1>6. QED
  BY <1>3, <1>4, <1>5 DEF TimelineOK, t

(* Appending the event of the status the row moves to. *)
LEMMA AppendStage ==
    ASSUME NEW s \in Seq(Event), NEW rank \in 1 .. 6, NEW e \in Event,
           TimelineOK(s, rank), NEW new \in 1 .. 6,
           EventRank(e.type) = new, rank < new \/ new = 6
    PROVE  TimelineOK(Append(s, e), new)
<1> DEFINE t == Append(s, e)
<1>1. /\ t \in Seq(Event) /\ DOMAIN t = 1 .. Len(s) + 1 /\ DOMAIN s = 1 .. Len(s)
      /\ Len(s) \in Nat /\ t[Len(s) + 1] = e
      /\ \A i \in 1 .. Len(s) : t[i] = s[i]
  OBVIOUS
<1>2. \A i \in DOMAIN s : EventRank(s[i].type) \in 0 .. 6
  <2>1. \A i \in DOMAIN s : s[i] \in Event
    OBVIOUS
  <2>2. \A i \in DOMAIN s : s[i].type \in EventType
    BY <2>1 DEF Event
  <2>3. QED
    BY <2>2, Ranks
<1>3. e.type \in StageEvent
  BY DEF StageEvent, Event
<1> HIDE DEF t
<1>4. InOrder(t)
  <2> SUFFICES ASSUME NEW i \in DOMAIN t, NEW j \in DOMAIN t, i < j,
                      EventRank(t[i].type) > 0, EventRank(t[j].type) > 0
               PROVE  \/ EventRank(t[i].type) < EventRank(t[j].type)
                      \/ EventRank(t[i].type) = 6 /\ EventRank(t[j].type) = 6
    BY DEF InOrder
  <2>1. i \in 1 .. Len(s) /\ t[i] = s[i] /\ EventRank(s[i].type) \in 0 .. 6
    BY <1>1, <1>2
  <2>2. CASE j \in 1 .. Len(s)
    BY <1>1, <2>1, <2>2 DEF InOrder, TimelineOK
  <2>3. CASE j = Len(s) + 1
    BY <1>1, <2>1, <2>3 DEF TimelineOK
  <2>4. QED
    BY <1>1, <2>2, <2>3
<1>5. EndsAt(t, new)
  <2>1. IsLast(t, Len(s) + 1, StageEvent)
    BY <1>1, <1>3 DEF IsLast
  <2>2. QED
    BY <1>1, <2>1 DEF EndsAt
<1>6. \A i \in DOMAIN t : EventRank(t[i].type) <= new
  <2> SUFFICES ASSUME NEW i \in DOMAIN t PROVE EventRank(t[i].type) <= new
    OBVIOUS
  <2>1. CASE i \in 1 .. Len(s)
    BY <1>1, <1>2, <2>1 DEF TimelineOK
  <2>2. CASE i = Len(s) + 1
    BY <1>1, <2>2
  <2>3. QED
    BY <1>1, <2>1, <2>2
<1>7. QED
  BY <1>4, <1>5, <1>6 DEF TimelineOK, t

(* A step on the log that is a note on some of the keys, and leaves every
   status alone.                                                           *)
LEMMA NoteStep ==
    ASSUME TypeOK, TimelineInv, NEW ks, ks \subseteq DOMAIN file_audit,
           NEW e, \A k \in ks : e[k] \in Event /\ EventRank(e[k].type) = 0,
           DOMAIN file_audit' = DOMAIN file_audit,
           \A k \in DOMAIN file_audit : file_audit'[k].status = file_audit[k].status,
           file_audit_events' = [k \in Key |-> IF k \in ks THEN Append(file_audit_events[k], e[k])
                                                           ELSE file_audit_events[k]]
    PROVE  TimelineInv'
<1> SUFFICES ASSUME NEW k \in DOMAIN file_audit
             PROVE  TimelineOK(file_audit_events'[k], StatusRank(file_audit[k].status))
  BY DEF TimelineInv, TypeOK
<1>1. /\ file_audit_events[k] \in Seq(Event)
      /\ StatusRank(file_audit[k].status) \in 1 .. 6
      /\ TimelineOK(file_audit_events[k], StatusRank(file_audit[k].status))
  BY Ranks DEF TypeOK, TimelineInv, Row
<1>2. CASE k \in ks
  BY <1>1, <1>2, AppendNote DEF TypeOK
<1>3. CASE k \notin ks
  BY <1>1, <1>3 DEF TypeOK
<1>4. QED
  BY <1>2, <1>3

(* A step that moves the keys ks to status st and logs the event of st. *)
LEMMA StageStep ==
    ASSUME TypeOK, TimelineInv, NEW ks, ks \subseteq DOMAIN file_audit,
           NEW e \in Event, NEW st \in FileStatus, EventRank(e.type) = StatusRank(st),
           \A k \in ks : StatusRank(file_audit[k].status) < StatusRank(st) \/ StatusRank(st) = 6,
           DOMAIN file_audit' = DOMAIN file_audit,
           \A k \in DOMAIN file_audit :
              file_audit'[k].status = IF k \in ks THEN st ELSE file_audit[k].status,
           file_audit_events' = [k \in Key |-> IF k \in ks THEN Append(file_audit_events[k], e)
                                                           ELSE file_audit_events[k]]
    PROVE  TimelineInv'
<1> SUFFICES ASSUME NEW k \in DOMAIN file_audit
             PROVE  TimelineOK(file_audit_events'[k], StatusRank(file_audit'[k].status))
  BY DEF TimelineInv, TypeOK
<1>1. /\ file_audit_events[k] \in Seq(Event)
      /\ StatusRank(file_audit[k].status) \in 1 .. 6
      /\ StatusRank(st) \in 1 .. 6
      /\ TimelineOK(file_audit_events[k], StatusRank(file_audit[k].status))
  BY Ranks DEF TypeOK, TimelineInv, Row
<1>2. CASE k \in ks
  BY <1>1, <1>2, AppendStage DEF TypeOK
<1>3. CASE k \notin ks
  BY <1>1, <1>3 DEF TypeOK
<1>4. QED
  BY <1>2, <1>3

(* A new row comes with its registration. *)
LEMMA FirstEvents ==
    /\ TimelineOK(Append(<< >>, Plain("registered")), 1)
    /\ TimelineOK(Append(Append(<< >>, Plain("registered")),
                         Plain("vendor_timestamp_unavailable")), 1)
<1> DEFINE one == Append(<< >>, Plain("registered"))
<1>1. /\ Plain("registered") \in Event
      /\ Plain("vendor_timestamp_unavailable") \in Event
      /\ EventRank(Plain("registered").type) = 1
      /\ EventRank(Plain("vendor_timestamp_unavailable").type) = 0
      /\ Plain("registered").type \in StageEvent
  BY EventsTyped DEF EventType, Plain, EventRank, StageEvent
<1>2. one \in Seq(Event) /\ DOMAIN one = {1} /\ one[1] = Plain("registered")
  <2>1. << >> \in Seq(Event) /\ Len(<< >>) = 0
    OBVIOUS
  <2>2. one \in Seq(Event) /\ Len(one) = 1 /\ one[1] = Plain("registered")
    BY <1>1, <2>1
  <2>3. QED
    BY <2>2
<1>3. TimelineOK(one, 1)
  BY <1>1, <1>2 DEF TimelineOK, InOrder, EndsAt, IsLast
<1>4. 1 \in 1 .. 6
  OBVIOUS
<1> HIDE DEF one
<1>5. TimelineOK(Append(one, Plain("vendor_timestamp_unavailable")), 1)
  BY <1>1, <1>2, <1>3, <1>4, AppendNote
<1>6. QED
  BY <1>3, <1>5 DEF one

(* The log and the status of a file tell the same story: its stages happened
   once each and in order, and the last one is where the row stands.       *)
THEOREM TimelinesExplain == Spec => []TimelineInv
<1>1. Init => TimelineInv
  BY DEF Init, TimelineInv
<1>2. TypeOK /\ TimelineInv /\ [Next]_vars => TimelineInv'
  <2> SUFFICES ASSUME TypeOK, TimelineInv, [Next]_vars
               PROVE  TimelineInv'
    OBVIOUS
  <2>1. ASSUME NEW b \in Batch, NEW f \in File, NEW c \in Checksum, NEW v \in BOOLEAN,
               RegisterFile(b, f, c, v)
        PROVE  TimelineInv'
    <3> DEFINE k == <<b, f>>
    <3>1. k \in Key /\ k \notin DOMAIN file_audit /\ file_audit_events[k] = << >>
      BY <2>1 DEF RegisterFile, TimelineInv, Key
    <3>2. /\ DOMAIN file_audit' = DOMAIN file_audit \cup {k}
          /\ file_audit'[k].status = "registered"
          /\ \A j \in DOMAIN file_audit : file_audit'[j] = file_audit[j]
      BY <2>1, <3>1 DEF RegisterFile, WithRegistered, NewRow
    <3>3. \A j \in Key : j # k => file_audit_events'[j] = file_audit_events[j]
      BY <2>1 DEF RegisterFile, TypeOK
    <3>4. TimelineOK(file_audit_events'[k], 1)
      BY <2>1, <3>1, FirstEvents DEF RegisterFile, TypeOK
    <3>5. StatusRank("registered") = 1
      BY DEF StatusRank
    <3> HIDE DEF k
    <3>6. QED
      BY <3>1, <3>2, <3>3, <3>4, <3>5 DEF TimelineInv
  <2>2. ASSUME NEW b \in Batch, NEW f \in File, MarkIngesting(b, f)
        PROVE  TimelineInv'
    <3> DEFINE ks == {<<b, f>>}
    <3>1. Plain("ingest_started") \in Event /\ EventRank(Plain("ingest_started").type) = StatusRank("ingesting") /\ "ingesting" \in FileStatus
      BY EventsTyped DEF EventType, Plain, WithCount, IngestFinished, EventRank, StatusRank, FileStatus
    <3>2. /\ ks \subseteq DOMAIN file_audit
          /\ \A k \in ks : StatusRank(file_audit[k].status) < StatusRank("ingesting") \/ StatusRank("ingesting") = 6
      BY <2>2 DEF MarkIngesting, CanAdvance, LegalTransitions, StatusRank
    <3>3. /\ DOMAIN file_audit' = DOMAIN file_audit
          /\ \A k \in DOMAIN file_audit :
                file_audit'[k].status = IF k \in ks THEN "ingesting" ELSE file_audit[k].status
      BY <2>2 DEF MarkIngesting, WithIngesting, TypeOK, Row
    <3>4. file_audit_events' = [k \in Key |-> IF k \in ks THEN Append(file_audit_events[k], Plain("ingest_started"))
                                                     ELSE file_audit_events[k]]
      BY <2>2 DEF MarkIngesting, Emit
    <3> HIDE DEF ks
    <3>5. QED
      BY <3>1, <3>2, <3>3, <3>4, StageStep
  <2>3. ASSUME NEW b \in Batch, NEW f \in File, NEW m \in Rows, NEW n \in Rows,
               RecordIngestionComplete(b, f, m, n)
        PROVE  TimelineInv'
    <3> DEFINE ks == {<<b, f>>}
    <3>1. IngestFinished(m, n) \in Event /\ EventRank(IngestFinished(m, n).type) = StatusRank("ingested") /\ "ingested" \in FileStatus
      BY EventsTyped, RowsAreCounts DEF EventType, Plain, WithCount, IngestFinished, EventRank, StatusRank, FileStatus
    <3>2. /\ ks \subseteq DOMAIN file_audit
          /\ \A k \in ks : StatusRank(file_audit[k].status) < StatusRank("ingested") \/ StatusRank("ingested") = 6
      BY <2>3 DEF RecordIngestionComplete, CanAdvance, LegalTransitions, StatusRank
    <3>3. /\ DOMAIN file_audit' = DOMAIN file_audit
          /\ \A k \in DOMAIN file_audit :
                file_audit'[k].status = IF k \in ks THEN "ingested" ELSE file_audit[k].status
      BY <2>3 DEF RecordIngestionComplete, WithIngested, TypeOK, Row
    <3>4. file_audit_events' = [k \in Key |-> IF k \in ks THEN Append(file_audit_events[k], IngestFinished(m, n))
                                                     ELSE file_audit_events[k]]
      BY <2>3 DEF RecordIngestionComplete, Emit
    <3> HIDE DEF ks
    <3>5. QED
      BY <3>1, <3>2, <3>3, <3>4, StageStep
  <2>4. ASSUME NEW b \in Batch, NEW f \in File, MarkFailed(b, f)
        PROVE  TimelineInv'
    <3> DEFINE ks == {<<b, f>>}
    <3>1. Plain("failed") \in Event /\ EventRank(Plain("failed").type) = StatusRank("failed") /\ "failed" \in FileStatus
      BY EventsTyped DEF EventType, Plain, WithCount, IngestFinished, EventRank, StatusRank, FileStatus
    <3>2. /\ ks \subseteq DOMAIN file_audit
          /\ \A k \in ks : StatusRank(file_audit[k].status) < StatusRank("failed") \/ StatusRank("failed") = 6
      BY <2>4 DEF MarkFailed, StatusRank
    <3>3. /\ DOMAIN file_audit' = DOMAIN file_audit
          /\ \A k \in DOMAIN file_audit :
                file_audit'[k].status = IF k \in ks THEN "failed" ELSE file_audit[k].status
      BY <2>4 DEF MarkFailed, WithFailed, TypeOK, Row
    <3>4. file_audit_events' = [k \in Key |-> IF k \in ks THEN Append(file_audit_events[k], Plain("failed"))
                                                     ELSE file_audit_events[k]]
      BY <2>4 DEF MarkFailed, Emit
    <3> HIDE DEF ks
    <3>5. QED
      BY <3>1, <3>2, <3>3, <3>4, StageStep
  <2>5. ASSUME NEW b \in Batch, NEW s \in Source, MarkTransforming(b, s)
        PROVE  TimelineInv'
    <3> DEFINE ks == FilesOf(file_audit, b, s)
    <3>1. Plain("silver_started") \in Event /\ EventRank(Plain("silver_started").type) = StatusRank("transforming") /\ "transforming" \in FileStatus
      BY EventsTyped DEF EventType, Plain, WithCount, IngestFinished, EventRank, StatusRank, FileStatus
    <3>2. /\ ks \subseteq DOMAIN file_audit
          /\ \A k \in ks : StatusRank(file_audit[k].status) < StatusRank("transforming") \/ StatusRank("transforming") = 6
      BY <2>5 DEF MarkTransforming, CanAdvance, LegalTransitions, StatusRank
    <3>3. /\ DOMAIN file_audit' = DOMAIN file_audit
          /\ \A k \in DOMAIN file_audit :
                file_audit'[k].status = IF k \in ks THEN "transforming" ELSE file_audit[k].status
      BY <2>5 DEF MarkTransforming, WithTransforming, TypeOK, Row
    <3>4. file_audit_events' = [k \in Key |-> IF k \in ks THEN Append(file_audit_events[k], Plain("silver_started"))
                                                     ELSE file_audit_events[k]]
      BY <2>5 DEF MarkTransforming, Emit
    <3> HIDE DEF ks
    <3>5. QED
      BY <3>1, <3>2, <3>3, <3>4, StageStep
  <2>6. ASSUME NEW b \in Batch, NEW s \in Source, NEW n \in Rows, RecordSilverComplete(b, s, n)
        PROVE  TimelineInv'
    <3> DEFINE ks == FilesOf(file_audit, b, s)
    <3>1. WithCount("silver_finished", n) \in Event /\ EventRank(WithCount("silver_finished", n).type) = StatusRank("transformed") /\ "transformed" \in FileStatus
      BY EventsTyped, RowsAreCounts DEF EventType, Plain, WithCount, IngestFinished, EventRank, StatusRank, FileStatus
    <3>2. /\ ks \subseteq DOMAIN file_audit
          /\ \A k \in ks : StatusRank(file_audit[k].status) < StatusRank("transformed") \/ StatusRank("transformed") = 6
      BY <2>6 DEF RecordSilverComplete, CanAdvance, LegalTransitions, StatusRank
    <3>3. /\ DOMAIN file_audit' = DOMAIN file_audit
          /\ \A k \in DOMAIN file_audit :
                file_audit'[k].status = IF k \in ks THEN "transformed" ELSE file_audit[k].status
      BY <2>6 DEF RecordSilverComplete, WithTransformed, TypeOK, Row
    <3>4. file_audit_events' = [k \in Key |-> IF k \in ks THEN Append(file_audit_events[k], WithCount("silver_finished", n))
                                                     ELSE file_audit_events[k]]
      BY <2>6 DEF RecordSilverComplete, Emit
    <3> HIDE DEF ks
    <3>5. QED
      BY <3>1, <3>2, <3>3, <3>4, StageStep
  <2>7. ASSUME NEW b \in Batch, NEW s \in Source, NEW n \in Rows, RecordQuarantine(b, s, n)
        PROVE  TimelineInv'
    <3> DEFINE ks == FilesOf(file_audit, b, s)
               e  == [k \in ks |-> WithCount("dq_completed", n)]
    <3>1. \A k \in ks : e[k] \in Event /\ EventRank(e[k].type) = 0
      BY EventsTyped, RowsAreCounts DEF EventType, Plain, WithCount, EventRank
    <3>2. ks \subseteq DOMAIN file_audit
      BY <2>7, FilesAreRows DEF RecordQuarantine
    <3>3. /\ DOMAIN file_audit' = DOMAIN file_audit
          /\ \A k \in DOMAIN file_audit : file_audit'[k].status = file_audit[k].status
      BY <2>7 DEF RecordQuarantine, WithRejected, TypeOK, Row
    <3>4. file_audit_events' = [k \in Key |-> IF k \in ks THEN Append(file_audit_events[k], e[k])
                                                     ELSE file_audit_events[k]]
      BY <2>7 DEF RecordQuarantine, Emit
    <3> HIDE DEF ks, e
    <3>5. QED
      BY <3>1, <3>2, <3>3, <3>4, NoteStep
  <2>8. ASSUME NEW b \in Batch, NEW s \in Source, NEW n \in Rows, RecordGoldComplete(b, s, n)
        PROVE  TimelineInv'
    <3> DEFINE ks == FilesOf(file_audit, b, s)
               e  == [k \in ks |-> WithCount("gold_finished", n)]
    <3>1. \A k \in ks : e[k] \in Event /\ EventRank(e[k].type) = 0
      BY EventsTyped, RowsAreCounts DEF EventType, Plain, WithCount, EventRank
    <3>2. ks \subseteq DOMAIN file_audit
      BY <2>8, FilesAreRows DEF RecordGoldComplete
    <3>3. /\ DOMAIN file_audit' = DOMAIN file_audit
          /\ \A k \in DOMAIN file_audit : file_audit'[k].status = file_audit[k].status
      BY <2>8 DEF RecordGoldComplete, WithGold, TypeOK, Row
    <3>4. file_audit_events' = [k \in Key |-> IF k \in ks THEN Append(file_audit_events[k], e[k])
                                                     ELSE file_audit_events[k]]
      BY <2>8 DEF RecordGoldComplete, Emit
    <3> HIDE DEF ks, e
    <3>5. QED
      BY <3>1, <3>2, <3>3, <3>4, NoteStep
  <2>9. ASSUME NEW b \in Batch, NEW f \in File, RecordSchemaDrift(b, f)
        PROVE  TimelineInv'
    <3> DEFINE ks == {<<b, f>>}
               e  == [k \in ks |-> Plain("schema_drift_detected")]
    <3>1. \A k \in ks : e[k] \in Event /\ EventRank(e[k].type) = 0
      BY EventsTyped DEF EventType, Plain, WithCount, EventRank
    <3>2. ks \subseteq DOMAIN file_audit
      BY <2>9, FilesAreRows DEF RecordSchemaDrift
    <3>3. /\ DOMAIN file_audit' = DOMAIN file_audit
          /\ \A k \in DOMAIN file_audit : file_audit'[k].status = file_audit[k].status
      BY <2>9 DEF RecordSchemaDrift, TypeOK, Row
    <3>4. file_audit_events' = [k \in Key |-> IF k \in ks THEN Append(file_audit_events[k], e[k])
                                                     ELSE file_audit_events[k]]
      BY <2>9 DEF RecordSchemaDrift, Emit
    <3> HIDE DEF ks, e
    <3>5. QED
      BY <3>1, <3>2, <3>3, <3>4, NoteStep
  <2>10. ASSUME NEW note \in pending, ReconcileEmit(note)
         PROVE  TimelineInv'
    <3> DEFINE ks == {note.key}
               e  == [k \in ks |-> WithCount("reconciled", note.findings)]
    <3>1. \A k \in ks : e[k] \in Event /\ EventRank(e[k].type) = 0
      BY EventsTyped DEF EventType, WithCount, EventRank, TypeOK
    <3>2. ks \subseteq DOMAIN file_audit
      BY DEF TypeOK
    <3>3. file_audit' = file_audit
      BY <2>10 DEF ReconcileEmit
    <3>4. file_audit_events' = [k \in Key |-> IF k \in ks THEN Append(file_audit_events[k], e[k])
                                                     ELSE file_audit_events[k]]
      BY <2>10 DEF ReconcileEmit, Emit
    <3> HIDE DEF ks, e
    <3>5. QED
      BY <3>1, <3>2, <3>3, <3>4, NoteStep
  <2>11. ASSUME UNCHANGED <<file_audit, file_audit_events>>
         PROVE  TimelineInv'
    BY <2>11 DEF TimelineInv
  <2>12. QED
    BY <2>1, <2>2, <2>3, <2>4, <2>5, <2>6, <2>7, <2>8, <2>9, <2>10, <2>11
       DEF Next, FileCall, SourceCall, ReconcileRead, Tick, vars
<1>3. QED
  BY <1>1, <1>2, TypeCorrect, PTL DEF Spec

(* The event log explains the status of every file. *)
THEOREM TimelineStatus == Spec => []TimelineExplainsStatus
<1>1. TimelineInv => TimelineExplainsStatus
  BY DEF TimelineInv, TimelineExplainsStatus, TimelineOK
<1>2. QED
  BY <1>1, TimelinesExplain, PTL

(* Every stage happens at most once to a file, in order, and only another
   failure follows a failure.                                              *)
THEOREM TimelineOrder == Spec => []StagesInOrder
<1>1. TimelineInv => StagesInOrder
  BY DEF TimelineInv, StagesInOrder, TimelineOK, InOrder
<1>2. QED
  BY <1>1, TimelinesExplain, PTL
-----------------------------------------------------------------------------
(* Steps, file by file *)

(* What a call that logs event e for a file has done to its row r. *)
Recorded(r, e, q) ==
    \/ /\ e.type = "ingest_started" /\ r.status = "registered"
       /\ q = [r EXCEPT !.status = "ingesting"]
    \/ /\ e.type = "ingest_finished" /\ r.status = "ingesting" /\ e.source_rows # NULL
       /\ e.rows # NULL
       /\ q = [r EXCEPT !.status = "ingested", !.source_rows = e.source_rows, !.bronze_rows = e.rows]
    \/ e.type = "dq_completed" /\ q = [r EXCEPT !.rejected_rows = e.rows]
    \/ /\ e.type = "silver_started" /\ r.status = "ingested"
       /\ q = [r EXCEPT !.status = "transforming"]
    \/ /\ e.type = "silver_finished" /\ r.status = "transforming" /\ e.rows # NULL
       /\ q = [r EXCEPT !.status = "transformed", !.silver_rows = e.rows]
    \/ e.type = "gold_finished" /\ q = [r EXCEPT !.gold_rows = e.rows]
    \/ e.type = "failed" /\ q = [r EXCEPT !.status = "failed"]
    \/ e.type = "reconciled" /\ q = r
    \/ e.type = "schema_drift_detected" /\ q = r

(* The event of a reconciliation is one that a reading of the files left. *)
Owed(k, e) == e.type = "reconciled" => [key |-> k, findings |-> e.rows] \in pending

(* The log of a file that has just been registered. *)
Registered(s) ==
    \/ s = Append(<< >>, Plain("registered"))
    \/ s = Append(Append(<< >>, Plain("registered")), Plain("vendor_timestamp_unavailable"))

(* The step of one file: none, its registration, or one event. *)
FileStep(k) ==
    \/ /\ k \in DOMAIN file_audit <=> k \in DOMAIN file_audit'
       /\ k \in DOMAIN file_audit => file_audit'[k] = file_audit[k]
       /\ file_audit_events'[k] = file_audit_events[k]
    \/ /\ k \notin DOMAIN file_audit /\ k \in DOMAIN file_audit'
       /\ \E c \in Checksum : file_audit'[k] = NewRow(c, clock)
       /\ file_audit_events[k] = << >> => Registered(file_audit_events'[k])
    \/ /\ k \in DOMAIN file_audit /\ k \in DOMAIN file_audit'
       /\ \E e \in Event : /\ file_audit_events'[k] = Append(file_audit_events[k], e)
                           /\ Recorded(file_audit[k], e, file_audit'[k])
                           /\ Owed(k, e)

(* A call that logs e[k] for the files ks. *)
LEMMA LoggedStep ==
    ASSUME TypeOK, NEW ks, ks \subseteq DOMAIN file_audit,
           NEW e, \A k \in ks : /\ e[k] \in Event
                             /\ Recorded(file_audit[k], e[k], file_audit'[k])
                             /\ Owed(k, e[k]),
           DOMAIN file_audit' = DOMAIN file_audit,
           \A k \in DOMAIN file_audit \ ks : file_audit'[k] = file_audit[k],
           file_audit_events' = [k \in Key |-> IF k \in ks THEN Append(file_audit_events[k], e[k])
                                                           ELSE file_audit_events[k]]
    PROVE  \A k \in Key : FileStep(k)
<1> SUFFICES ASSUME NEW k \in Key PROVE FileStep(k)
  OBVIOUS
<1>1. CASE k \in ks
  <2>1. /\ e[k] \in Event /\ Recorded(file_audit[k], e[k], file_audit'[k]) /\ Owed(k, e[k])
        /\ file_audit_events'[k] = Append(file_audit_events[k], e[k])
        /\ k \in DOMAIN file_audit /\ k \in DOMAIN file_audit'
    BY <1>1
  <2>2. QED
    BY <2>1 DEF FileStep
<1>2. CASE k \notin ks
  BY <1>2 DEF FileStep
<1>3. QED
  BY <1>1, <1>2

(* Every call is such a step for every file: the writers log what they do. *)
LEMMA FileSteps == ASSUME TypeOK, [Next]_vars PROVE \A k \in Key : FileStep(k)
<1>1. ASSUME NEW b \in Batch, NEW f \in File, NEW c \in Checksum, NEW v \in BOOLEAN,
             RegisterFile(b, f, c, v)
      PROVE  \A k \in Key : FileStep(k)
  <2> SUFFICES ASSUME NEW k \in Key PROVE FileStep(k)
    OBVIOUS
  <2>1. CASE k = <<b, f>>
    BY <1>1, <2>1 DEF RegisterFile, WithRegistered, TypeOK, FileStep, Registered
  <2>2. CASE k # <<b, f>>
    BY <1>1, <2>2 DEF RegisterFile, WithRegistered, TypeOK, FileStep
  <2>3. QED
    BY <2>1, <2>2
<1>2. ASSUME NEW b \in Batch, NEW f \in File, MarkIngesting(b, f)
     PROVE  \A k \in Key : FileStep(k)
  <2> DEFINE ks == {<<b, f>>}
             e  == [k \in ks |-> Plain("ingest_started")]
  <2>1. ks \subseteq DOMAIN file_audit
    BY <1>2, FilesAreRows DEF MarkIngesting, CanAdvance
  <2>2. \A k \in ks : e[k] \in Event
    BY EventsTyped, RowsAreCounts DEF EventType
  <2>3. /\ DOMAIN file_audit' = DOMAIN file_audit
        /\ \A k \in DOMAIN file_audit \ ks : file_audit'[k] = file_audit[k]
    BY <1>2 DEF MarkIngesting, WithIngesting
  <2>4. \A k \in ks : Recorded(file_audit[k], e[k], file_audit'[k]) /\ Owed(k, e[k])
    BY <1>2, <2>1, RowsNotNull DEF MarkIngesting, WithIngesting, CanAdvance, LegalTransitions, Recorded, Owed, Plain
  <2>5. file_audit_events' = [k \in Key |-> IF k \in ks THEN Append(file_audit_events[k], e[k])
                                                   ELSE file_audit_events[k]]
    BY <1>2 DEF MarkIngesting, Emit
  <2> HIDE DEF ks, e
  <2>6. QED
    BY <2>1, <2>2, <2>3, <2>4, <2>5, LoggedStep
<1>3. ASSUME NEW b \in Batch, NEW f \in File, NEW m \in Rows, NEW n \in Rows, RecordIngestionComplete(b, f, m, n)
     PROVE  \A k \in Key : FileStep(k)
  <2> DEFINE ks == {<<b, f>>}
             e  == [k \in ks |-> IngestFinished(m, n)]
  <2>1. ks \subseteq DOMAIN file_audit
    BY <1>3, FilesAreRows DEF RecordIngestionComplete, CanAdvance
  <2>2. \A k \in ks : e[k] \in Event
    BY EventsTyped, RowsAreCounts DEF EventType
  <2>3. /\ DOMAIN file_audit' = DOMAIN file_audit
        /\ \A k \in DOMAIN file_audit \ ks : file_audit'[k] = file_audit[k]
    BY <1>3 DEF RecordIngestionComplete, WithIngested
  <2>4. \A k \in ks : Recorded(file_audit[k], e[k], file_audit'[k]) /\ Owed(k, e[k])
    BY <1>3, <2>1, RowsNotNull DEF RecordIngestionComplete, WithIngested, CanAdvance, LegalTransitions, Recorded, Owed,
              IngestFinished
  <2>5. file_audit_events' = [k \in Key |-> IF k \in ks THEN Append(file_audit_events[k], e[k])
                                                   ELSE file_audit_events[k]]
    BY <1>3 DEF RecordIngestionComplete, Emit
  <2> HIDE DEF ks, e
  <2>6. QED
    BY <2>1, <2>2, <2>3, <2>4, <2>5, LoggedStep
<1>4. ASSUME NEW b \in Batch, NEW f \in File, MarkFailed(b, f)
     PROVE  \A k \in Key : FileStep(k)
  <2> DEFINE ks == {<<b, f>>}
             e  == [k \in ks |-> Plain("failed")]
  <2>1. ks \subseteq DOMAIN file_audit
    BY <1>4, FilesAreRows DEF MarkFailed
  <2>2. \A k \in ks : e[k] \in Event
    BY EventsTyped, RowsAreCounts DEF EventType
  <2>3. /\ DOMAIN file_audit' = DOMAIN file_audit
        /\ \A k \in DOMAIN file_audit \ ks : file_audit'[k] = file_audit[k]
    BY <1>4 DEF MarkFailed, WithFailed
  <2>4. \A k \in ks : Recorded(file_audit[k], e[k], file_audit'[k]) /\ Owed(k, e[k])
    BY <1>4, <2>1, RowsNotNull DEF MarkFailed, WithFailed, Recorded, Owed, Plain
  <2>5. file_audit_events' = [k \in Key |-> IF k \in ks THEN Append(file_audit_events[k], e[k])
                                                   ELSE file_audit_events[k]]
    BY <1>4 DEF MarkFailed, Emit
  <2> HIDE DEF ks, e
  <2>6. QED
    BY <2>1, <2>2, <2>3, <2>4, <2>5, LoggedStep
<1>5. ASSUME NEW b \in Batch, NEW f \in File, RecordSchemaDrift(b, f)
     PROVE  \A k \in Key : FileStep(k)
  <2> DEFINE ks == {<<b, f>>}
             e  == [k \in ks |-> Plain("schema_drift_detected")]
  <2>1. ks \subseteq DOMAIN file_audit
    BY <1>5, FilesAreRows DEF RecordSchemaDrift
  <2>2. \A k \in ks : e[k] \in Event
    BY EventsTyped, RowsAreCounts DEF EventType
  <2>3. /\ DOMAIN file_audit' = DOMAIN file_audit
        /\ \A k \in DOMAIN file_audit \ ks : file_audit'[k] = file_audit[k]
    BY <1>5 DEF RecordSchemaDrift
  <2>4. \A k \in ks : Recorded(file_audit[k], e[k], file_audit'[k]) /\ Owed(k, e[k])
    BY <1>5, <2>1, RowsNotNull DEF RecordSchemaDrift, Recorded, Owed, Plain
  <2>5. file_audit_events' = [k \in Key |-> IF k \in ks THEN Append(file_audit_events[k], e[k])
                                                   ELSE file_audit_events[k]]
    BY <1>5 DEF RecordSchemaDrift, Emit
  <2> HIDE DEF ks, e
  <2>6. QED
    BY <2>1, <2>2, <2>3, <2>4, <2>5, LoggedStep
<1>6. ASSUME NEW b \in Batch, NEW s \in Source, NEW n \in Rows, RecordQuarantine(b, s, n)
     PROVE  \A k \in Key : FileStep(k)
  <2> DEFINE ks == FilesOf(file_audit, b, s)
             e  == [k \in ks |-> WithCount("dq_completed", n)]
  <2>1. ks \subseteq DOMAIN file_audit
    BY <1>6, FilesAreRows DEF RecordQuarantine
  <2>2. \A k \in ks : e[k] \in Event
    BY EventsTyped, RowsAreCounts DEF EventType
  <2>3. /\ DOMAIN file_audit' = DOMAIN file_audit
        /\ \A k \in DOMAIN file_audit \ ks : file_audit'[k] = file_audit[k]
    BY <1>6 DEF RecordQuarantine, WithRejected
  <2>4. \A k \in ks : Recorded(file_audit[k], e[k], file_audit'[k]) /\ Owed(k, e[k])
    BY <1>6, <2>1, RowsNotNull DEF RecordQuarantine, WithRejected, Recorded, Owed, WithCount
  <2>5. file_audit_events' = [k \in Key |-> IF k \in ks THEN Append(file_audit_events[k], e[k])
                                                   ELSE file_audit_events[k]]
    BY <1>6 DEF RecordQuarantine, Emit
  <2> HIDE DEF ks, e
  <2>6. QED
    BY <2>1, <2>2, <2>3, <2>4, <2>5, LoggedStep
<1>7. ASSUME NEW b \in Batch, NEW s \in Source, MarkTransforming(b, s)
     PROVE  \A k \in Key : FileStep(k)
  <2> DEFINE ks == FilesOf(file_audit, b, s)
             e  == [k \in ks |-> Plain("silver_started")]
  <2>1. ks \subseteq DOMAIN file_audit
    BY <1>7, FilesAreRows DEF MarkTransforming
  <2>2. \A k \in ks : e[k] \in Event
    BY EventsTyped, RowsAreCounts DEF EventType
  <2>3. /\ DOMAIN file_audit' = DOMAIN file_audit
        /\ \A k \in DOMAIN file_audit \ ks : file_audit'[k] = file_audit[k]
    BY <1>7 DEF MarkTransforming, WithTransforming
  <2>4. \A k \in ks : Recorded(file_audit[k], e[k], file_audit'[k]) /\ Owed(k, e[k])
    BY <1>7, <2>1, RowsNotNull DEF MarkTransforming, WithTransforming, CanAdvance, LegalTransitions, Recorded, Owed, Plain
  <2>5. file_audit_events' = [k \in Key |-> IF k \in ks THEN Append(file_audit_events[k], e[k])
                                                   ELSE file_audit_events[k]]
    BY <1>7 DEF MarkTransforming, Emit
  <2> HIDE DEF ks, e
  <2>6. QED
    BY <2>1, <2>2, <2>3, <2>4, <2>5, LoggedStep
<1>8. ASSUME NEW b \in Batch, NEW s \in Source, NEW n \in Rows, RecordSilverComplete(b, s, n)
     PROVE  \A k \in Key : FileStep(k)
  <2> DEFINE ks == FilesOf(file_audit, b, s)
             e  == [k \in ks |-> WithCount("silver_finished", n)]
  <2>1. ks \subseteq DOMAIN file_audit
    BY <1>8, FilesAreRows DEF RecordSilverComplete
  <2>2. \A k \in ks : e[k] \in Event
    BY EventsTyped, RowsAreCounts DEF EventType
  <2>3. /\ DOMAIN file_audit' = DOMAIN file_audit
        /\ \A k \in DOMAIN file_audit \ ks : file_audit'[k] = file_audit[k]
    BY <1>8 DEF RecordSilverComplete, WithTransformed
  <2>4. \A k \in ks : Recorded(file_audit[k], e[k], file_audit'[k]) /\ Owed(k, e[k])
    BY <1>8, <2>1, RowsNotNull DEF RecordSilverComplete, WithTransformed, CanAdvance, LegalTransitions, Recorded, Owed,
              WithCount
  <2>5. file_audit_events' = [k \in Key |-> IF k \in ks THEN Append(file_audit_events[k], e[k])
                                                   ELSE file_audit_events[k]]
    BY <1>8 DEF RecordSilverComplete, Emit
  <2> HIDE DEF ks, e
  <2>6. QED
    BY <2>1, <2>2, <2>3, <2>4, <2>5, LoggedStep
<1>9. ASSUME NEW b \in Batch, NEW s \in Source, NEW n \in Rows, RecordGoldComplete(b, s, n)
     PROVE  \A k \in Key : FileStep(k)
  <2> DEFINE ks == FilesOf(file_audit, b, s)
             e  == [k \in ks |-> WithCount("gold_finished", n)]
  <2>1. ks \subseteq DOMAIN file_audit
    BY <1>9, FilesAreRows DEF RecordGoldComplete
  <2>2. \A k \in ks : e[k] \in Event
    BY EventsTyped, RowsAreCounts DEF EventType
  <2>3. /\ DOMAIN file_audit' = DOMAIN file_audit
        /\ \A k \in DOMAIN file_audit \ ks : file_audit'[k] = file_audit[k]
    BY <1>9 DEF RecordGoldComplete, WithGold
  <2>4. \A k \in ks : Recorded(file_audit[k], e[k], file_audit'[k]) /\ Owed(k, e[k])
    BY <1>9, <2>1, RowsNotNull DEF RecordGoldComplete, WithGold, Recorded, Owed, WithCount
  <2>5. file_audit_events' = [k \in Key |-> IF k \in ks THEN Append(file_audit_events[k], e[k])
                                                   ELSE file_audit_events[k]]
    BY <1>9 DEF RecordGoldComplete, Emit
  <2> HIDE DEF ks, e
  <2>6. QED
    BY <2>1, <2>2, <2>3, <2>4, <2>5, LoggedStep
<1>10. ASSUME NEW note \in pending, ReconcileEmit(note)
      PROVE  \A k \in Key : FileStep(k)
  <2> DEFINE ks == {note.key}
             e  == [k \in ks |-> WithCount("reconciled", note.findings)]
  <2>1. ks \subseteq DOMAIN file_audit /\ note.findings \in Nat
    BY DEF TypeOK
  <2>2. \A k \in ks : e[k] \in Event
    BY <2>1, EventsTyped DEF EventType
  <2>3. file_audit' = file_audit
    BY <1>10 DEF ReconcileEmit
  <2>4. \A k \in ks : Recorded(file_audit[k], e[k], file_audit'[k]) /\ Owed(k, e[k])
    <3>1. note = [key |-> note.key, findings |-> note.findings]
      BY DEF TypeOK
    <3>2. QED
      BY <2>3, <3>1 DEF Recorded, Owed, WithCount
  <2>5. file_audit_events' = [k \in Key |-> IF k \in ks THEN Append(file_audit_events[k], e[k])
                                                   ELSE file_audit_events[k]]
    BY <1>10 DEF ReconcileEmit, Emit
  <2> HIDE DEF ks, e
  <2>6. QED
    BY <2>1, <2>2, <2>3, <2>4, <2>5, LoggedStep
<1>11. ASSUME UNCHANGED <<file_audit, file_audit_events>>
      PROVE  \A k \in Key : FileStep(k)
  BY <1>11 DEF FileStep
<1>12. QED
  BY <1>1, <1>2, <1>3, <1>4, <1>5, <1>6, <1>7, <1>8, <1>9, <1>10, <1>11
     DEF Next, FileCall, SourceCall, ReconcileRead, Tick, vars

-----------------------------------------------------------------------------
(* Counts and the log *)

(* A log that is longer by an event. *)
LEMMA Longer ==
    ASSUME NEW s \in Seq(Event), NEW e \in Event
    PROVE  /\ DOMAIN Append(s, e) = DOMAIN s \cup {Len(s) + 1}
           /\ Append(s, e)[Len(s) + 1] = e
           /\ \A i \in DOMAIN s : i <= Len(s) /\ i # Len(s) + 1 /\ Append(s, e)[i] = s[i]
           /\ Len(s) \in Nat /\ DOMAIN s \subseteq Nat
OBVIOUS

(* An event of another type leaves the explanation of a count as it was. *)
LEMMA OtherEvent ==
    ASSUME NEW s \in Seq(Event), NEW e \in Event, NEW ty, NEW value,
           Explains(s, ty, value), e.type # ty
    PROVE  Explains(Append(s, e), ty, value)
<1>1. CASE value = NULL /\ \A i \in DOMAIN s : s[i].type # ty
  BY <1>1, Longer DEF Explains
<1>2. CASE \E i \in DOMAIN s : IsLast(s, i, {ty}) /\ s[i].rows = value
  <2>1. PICK i \in DOMAIN s : IsLast(s, i, {ty}) /\ s[i].rows = value
    BY <1>2
  <2>2. IsLast(Append(s, e), i, {ty})
    BY <2>1, Longer DEF IsLast
  <2>3. QED
    BY <2>1, <2>2, Longer DEF Explains
<1>3. QED
  BY <1>1, <1>2 DEF Explains

(* An event of the type explains the count that it carries. *)
LEMMA ThisEvent ==
    ASSUME NEW s \in Seq(Event), NEW e \in Event
    PROVE  Explains(Append(s, e), e.type, e.rows)
<1>1. IsLast(Append(s, e), Len(s) + 1, {e.type})
  <2>1. \A j \in DOMAIN Append(s, e) : ~(j > Len(s) + 1)
    BY Longer
  <2>2. QED
    BY <2>1, Longer DEF IsLast
<1>2. QED
  BY <1>1, Longer DEF Explains

CountsExplained(s, r) ==
    /\ Explains(s, "ingest_finished", r.bronze_rows)
    /\ Explains(s, "dq_completed",    r.rejected_rows)
    /\ Explains(s, "silver_finished", r.silver_rows)
    /\ Explains(s, "gold_finished",   r.gold_rows)

LEMMA RecordedCounts ==
    ASSUME NEW s \in Seq(Event), NEW r \in Row, NEW e \in Event, NEW q,
           CountsExplained(s, r), Recorded(r, e, q)
    PROVE  CountsExplained(Append(s, e), q)
<1> DEFINE t == Append(s, e)
<1>1. \A ty, value : Explains(s, ty, value) /\ e.type # ty => Explains(t, ty, value)
  BY OtherEvent
<1>2. Explains(t, e.type, e.rows)
  BY ThisEvent
<1>3. /\ e.type = "ingest_finished" => q.bronze_rows = e.rows
      /\ e.type # "ingest_finished" => q.bronze_rows = r.bronze_rows
      /\ e.type = "dq_completed" => q.rejected_rows = e.rows
      /\ e.type # "dq_completed" => q.rejected_rows = r.rejected_rows
      /\ e.type = "silver_finished" => q.silver_rows = e.rows
      /\ e.type # "silver_finished" => q.silver_rows = r.silver_rows
      /\ e.type = "gold_finished" => q.gold_rows = e.rows
      /\ e.type # "gold_finished" => q.gold_rows = r.gold_rows
  BY DEF Recorded, Row
<1> HIDE DEF t
<1>4. CountsExplained(t, q)
  BY <1>1, <1>2, <1>3 DEF CountsExplained
<1>5. QED
  BY <1>4 DEF t

(* The types of the events of a file that has just been registered. *)
LEMMA RegisteredEvents ==
    ASSUME NEW s, Registered(s)
    PROVE  \A i \in DOMAIN s : s[i].type \in {"registered", "vendor_timestamp_unavailable"}
<1>1. << >> \in Seq(Event) /\ DOMAIN << >> = {}
  OBVIOUS
<1>2. /\ Plain("registered") \in Event /\ Plain("vendor_timestamp_unavailable") \in Event
      /\ Plain("registered").type = "registered"
      /\ Plain("vendor_timestamp_unavailable").type = "vendor_timestamp_unavailable"
  BY EventsTyped DEF EventType, Plain
<1> DEFINE one == Append(<< >>, Plain("registered"))
<1>3. one \in Seq(Event) /\ \A i \in DOMAIN one : one[i].type = "registered"
  BY <1>1, <1>2, Longer
<1> HIDE DEF one
<1>4. \A i \in DOMAIN Append(one, Plain("vendor_timestamp_unavailable")) :
         Append(one, Plain("vendor_timestamp_unavailable"))[i].type
            \in {"registered", "vendor_timestamp_unavailable"}
  BY <1>2, <1>3, Longer
<1>5. QED
  BY <1>3, <1>4 DEF one, Registered

(* The log explains every count of every row: a column is NULL until the
   event that carries its value, and then what the last of them reported
   (the UPDATE and the emit of each writer of audit.py, whoever calls and in
   which order).                                                           *)
THEOREM TimelineCounts == Spec => []TimelineExplainsCounts
<1>1. Init => TimelineExplainsCounts
  BY DEF Init, TimelineExplainsCounts
<1>2. TypeOK /\ TypeOK' /\ TimelineInv /\ TimelineExplainsCounts /\ [Next]_vars => TimelineExplainsCounts'
  <2> SUFFICES ASSUME TypeOK, TypeOK', TimelineInv, TimelineExplainsCounts, [Next]_vars,
                      NEW k \in DOMAIN file_audit'
               PROVE  CountsExplained(file_audit_events'[k], file_audit'[k])
    BY DEF TimelineExplainsCounts, CountsExplained
  <2>0. k \in Key
    BY DEF TypeOK
  <2>1. ASSUME k \in DOMAIN file_audit, file_audit'[k] = file_audit[k],
               file_audit_events'[k] = file_audit_events[k]
        PROVE  CountsExplained(file_audit_events'[k], file_audit'[k])
    BY <2>1 DEF TimelineExplainsCounts, CountsExplained
  <2>2. ASSUME NEW c \in Checksum, k \notin DOMAIN file_audit, file_audit'[k] = NewRow(c, clock),
               file_audit_events[k] = << >> => Registered(file_audit_events'[k])
        PROVE  CountsExplained(file_audit_events'[k], file_audit'[k])
    <3>1. Registered(file_audit_events'[k])
      BY <2>0, <2>2 DEF TimelineInv
    <3>2. \A i \in DOMAIN file_audit_events'[k] :
             file_audit_events'[k][i].type \in {"registered", "vendor_timestamp_unavailable"}
      BY <3>1, RegisteredEvents
    <3>3. QED
      BY <2>2, <3>2 DEF CountsExplained, Explains, NewRow
  <2>3. ASSUME NEW e \in Event, k \in DOMAIN file_audit,
               file_audit_events'[k] = Append(file_audit_events[k], e),
               Recorded(file_audit[k], e, file_audit'[k])
        PROVE  CountsExplained(file_audit_events'[k], file_audit'[k])
    <3>1. /\ file_audit_events[k] \in Seq(Event) /\ file_audit[k] \in Row
          /\ CountsExplained(file_audit_events[k], file_audit[k])
      BY <2>0, <2>3 DEF TypeOK, TimelineExplainsCounts, CountsExplained
    <3>2. QED
      BY <2>3, <3>1, RecordedCounts
  <2>4. QED
    BY <2>0, <2>1, <2>2, <2>3, FileSteps DEF FileStep
<1>3. QED
  BY <1>1, <1>2, TypeCorrect, TimelinesExplain, PTL DEF Spec

-----------------------------------------------------------------------------
(* Reconciliation *)

(* Nothing is found only about a file at the end of its lifecycle. *)
LEMMA CleanMeansTerminal ==
    ASSUME NEW r \in Row, Cardinality(Findings(r)) = 0
    PROVE  r.status \in {"transformed", "failed"}
<1>1. IsFiniteSet(Findings(r))
  BY FindingsCount
<1>2. Findings(r) = {}
  BY <1>1, FS_EmptySet
<1>3. <<"WARN", "non_terminal_status">> \notin Findings(r)
  BY <1>2
<1>4. QED
  BY <1>3 DEF Findings

Clean(s) == \E i \in DOMAIN s : s[i].type = "reconciled" /\ s[i].rows = 0

(* An event that is still to be written and finds nothing is about a file at
   the end of its lifecycle, as it was when the files were listed.         *)
PendingIsTerminal ==
    \A note \in pending :
        note.findings = 0 => file_audit[note.key].status \in {"transformed", "failed"}

(* No step of a file takes it out of there. *)
LEMMA TerminalStays ==
    ASSUME TypeOK, [Next]_vars, NEW k \in DOMAIN file_audit,
           file_audit[k].status \in {"transformed", "failed"}
    PROVE  file_audit'[k].status \in {"transformed", "failed"}
<1>1. k \in Key /\ file_audit[k] \in Row
  BY DEF TypeOK
<1>2. ASSUME NEW e \in Event, Recorded(file_audit[k], e, file_audit'[k])
      PROVE  file_audit'[k].status \in {"transformed", "failed"}
  BY <1>1, <1>2 DEF Recorded, Row
<1>3. QED
  BY <1>1, <1>2, FileSteps DEF FileStep

(* What is listed is added once, by the reading; it is only written later. *)
LEMMA PendingStays == Spec => []PendingIsTerminal
<1>1. Init => PendingIsTerminal
  BY DEF Init, PendingIsTerminal
<1>2. TypeOK /\ PendingIsTerminal /\ [Next]_vars => PendingIsTerminal'
  <2> SUFFICES ASSUME TypeOK, PendingIsTerminal, [Next]_vars, NEW note \in pending',
                      note.findings = 0
               PROVE  file_audit'[note.key].status \in {"transformed", "failed"}
    BY DEF PendingIsTerminal
  <2>1. ASSUME note \in pending
        PROVE  file_audit'[note.key].status \in {"transformed", "failed"}
    BY <2>1, TerminalStays DEF PendingIsTerminal, TypeOK
  <2>2. ASSUME NEW b \in Batch, ReconcileRead(b), note \notin pending
        PROVE  file_audit'[note.key].status \in {"transformed", "failed"}
    <3>1. PICK k \in BatchFiles(file_audit, b) : note = Finding(k)
      BY <2>2 DEF ReconcileRead
    <3>2. k \in DOMAIN file_audit /\ file_audit[k] \in Row
      BY <3>1, FilesAreRows DEF TypeOK
    <3>3. note.key = k /\ Cardinality(Findings(file_audit[k])) = 0
      BY <3>1 DEF Finding
    <3>4. QED
      BY <2>2, <3>2, <3>3, CleanMeansTerminal DEF ReconcileRead
  <2>3. ASSUME \A b \in Batch : ~ReconcileRead(b)
        PROVE  pending' \subseteq pending
    BY <2>3 DEF Next, FileCall, SourceCall, RegisterFile, MarkIngesting, RecordIngestionComplete,
                MarkFailed, RecordSchemaDrift, RecordQuarantine, MarkTransforming,
                RecordSilverComplete, RecordGoldComplete, ReconcileEmit, Tick, vars
  <2>4. QED
    BY <2>1, <2>2, <2>3
<1>3. QED
  BY <1>1, <1>2, TypeCorrect, PTL DEF Spec

(* Once a reconciliation has found nothing about a file, it stays at the end
   of its lifecycle, whatever is called afterwards, between its reading and
   its events included (reconcile_batch and _LEGAL_TRANSITIONS, audit.py). *)
THEOREM CleanIsFinal == Spec => []CleanReconciliationIsFinal
<1>1. Init => CleanReconciliationIsFinal
  BY DEF Init, CleanReconciliationIsFinal
<1>2. TypeOK /\ TypeOK' /\ TimelineInv /\ PendingIsTerminal /\ CleanReconciliationIsFinal
        /\ [Next]_vars
        => CleanReconciliationIsFinal'
  <2> SUFFICES ASSUME TypeOK, TypeOK', TimelineInv, PendingIsTerminal,
                      CleanReconciliationIsFinal, [Next]_vars,
                      NEW k \in DOMAIN file_audit', Clean(file_audit_events'[k])
               PROVE  file_audit'[k].status \in {"transformed", "failed"}
    BY DEF CleanReconciliationIsFinal, Clean
  <2>0. k \in Key
    BY DEF TypeOK
  <2>1. ASSUME k \in DOMAIN file_audit, file_audit'[k] = file_audit[k],
               file_audit_events'[k] = file_audit_events[k]
        PROVE  file_audit'[k].status \in {"transformed", "failed"}
    BY <2>1 DEF CleanReconciliationIsFinal, Clean
  <2>2. ASSUME k \notin DOMAIN file_audit,
               file_audit_events[k] = << >> => Registered(file_audit_events'[k])
        PROVE  FALSE
    <3>1. Registered(file_audit_events'[k])
      BY <2>0, <2>2 DEF TimelineInv
    <3>2. QED
      BY <3>1, RegisteredEvents DEF Clean
  <2>3. ASSUME NEW e \in Event, k \in DOMAIN file_audit,
               file_audit_events'[k] = Append(file_audit_events[k], e),
               Recorded(file_audit[k], e, file_audit'[k]), Owed(k, e)
        PROVE  file_audit'[k].status \in {"transformed", "failed"}
    <3>1. file_audit_events[k] \in Seq(Event) /\ file_audit[k] \in Row
      BY <2>0, <2>3 DEF TypeOK
    <3>2. \/ Clean(file_audit_events[k])
          \/ e.type = "reconciled" /\ e.rows = 0
      BY <2>3, <3>1, Longer DEF Clean
    <3>3. file_audit[k].status \in {"transformed", "failed"}
      <4>1. CASE Clean(file_audit_events[k])
        BY <2>3, <4>1 DEF CleanReconciliationIsFinal, Clean
      <4>2. CASE e.type = "reconciled" /\ e.rows = 0
        BY <2>3, <4>2 DEF Owed, PendingIsTerminal
      <4>3. QED
        BY <3>2, <4>1, <4>2
    <3>4. QED
      BY <2>3, <3>1, <3>3 DEF Recorded, Row
  <2>4. QED
    BY <2>0, <2>1, <2>2, <2>3, FileSteps DEF FileStep
<1>3. QED
  BY <1>1, <1>2, TypeCorrect, TimelinesExplain, PendingStays, PTL DEF Spec

-----------------------------------------------------------------------------
(* What is written once *)

(* No call changes the fingerprint of a file, or a landing or Silver count
   that has been recorded: a count is there only behind its stage, and no
   stage happens twice (_assert_transition, audit.py).                     *)
THEOREM RecordsAreFinal == Spec => WrittenOnce
<1> DEFINE Kept(k) ==
        /\ k \in DOMAIN file_audit'
        /\ file_audit'[k].checksum = file_audit[k].checksum
        /\ file_audit'[k].registered_at = file_audit[k].registered_at
        /\ file_audit[k].bronze_rows # NULL =>
             /\ file_audit'[k].source_rows = file_audit[k].source_rows
             /\ file_audit'[k].bronze_rows = file_audit[k].bronze_rows
        /\ file_audit[k].silver_rows # NULL =>
             file_audit'[k].silver_rows = file_audit[k].silver_rows
<1>1. TypeOK /\ CountsFollowLifecycle /\ [Next]_vars => \A k \in DOMAIN file_audit : Kept(k)
  <2> SUFFICES ASSUME TypeOK, CountsFollowLifecycle, [Next]_vars, NEW k \in DOMAIN file_audit
               PROVE  Kept(k)
    OBVIOUS
  <2>1. k \in Key /\ file_audit[k] \in Row
    BY DEF TypeOK
  <2>2. CASE k \in DOMAIN file_audit' /\ file_audit'[k] = file_audit[k]
    BY <2>2
  <2>3. ASSUME NEW e \in Event, k \in DOMAIN file_audit',
               Recorded(file_audit[k], e, file_audit'[k])
        PROVE  Kept(k)
    BY <2>1, <2>3 DEF Recorded, Row, CountsFollowLifecycle, LandedStatus
  <2>4. QED
    BY <2>1, <2>2, <2>3, FileSteps DEF FileStep
<1>2. TypeOK /\ CountsFollowLifecycle /\ [Next]_vars => [\A k \in DOMAIN file_audit : Kept(k)]_vars
  BY <1>1
<1>3. QED
  BY <1>2, TypeCorrect, CountsFollow, PTL DEF Spec, WrittenOnce
=============================================================================
