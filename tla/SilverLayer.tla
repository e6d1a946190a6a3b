----------------------------- MODULE SilverLayer -----------------------------
(***************************************************************************)
(* One Silver run (src/src/silver/run.py) as the process it is: the data   *)
(* quality pass over the Bronze sources (src/src/dq/), the DQ report, the  *)
(* artifacts, and the audit rows that are moved along the way.  Every step *)
(* is one change to one store; a step that raises takes the except clause  *)
(* the code has for it, and the process can be killed between any two.     *)
(*                                                                         *)
(* A source has one file and one artifact here, as the five sources of the *)
(* runner have (dim_date has no source).  A frame is a number of rows and  *)
(* how many of them break a critical rule.                                 *)
(*                                                                         *)
(* A partition is not replaced in one step: write_parquet removes the old  *)
(* one, then writes the new one, so a write that raises or is killed       *)
(* leaves the old partition, none, or a torn one.                          *)
(***************************************************************************)
EXTENDS AuditTable, Sequences, Functions

CONSTANTS
    Registry,       \* the sources in the order of the runner's lists
    FileOf,         \* the file of a source
    References,     \* the sources its foreign key rules refer to
    Needs,          \* the sources whose artifact must have been built before
    Versioned,      \* the sources whose dimension is merged into what is on disk
    RowsOf,         \* the Bronze rows of a source
    BadRows,        \* how many of them break a critical rule
    OrphanRows,     \* how many of those break only a foreign key rule
    History,        \* the rows its dimension has from earlier batches
    MaxAttempts,    \* bound on the Silver runs of a batch
    MaxFaults,      \* bound on the steps that raise
    MaxCrashes,     \* bound on killed runs
    AuditMayLag,    \* may Silver run on files that have not landed?
    Torn            \* a partition that holds part of a write

Frame == [rows : Nat, bad : Nat]

ASSUME SilverAssumption ==
    /\ Registry \in Seq(Source) /\ Range(Registry) = Source /\ Registry # << >>
    /\ \A i, j \in DOMAIN Registry : Registry[i] = Registry[j] => i = j
    /\ FileOf \in [Source -> File]
    /\ \A s \in Source : SourceOf[FileOf[s]] = s
    /\ {References, Needs} \subseteq [Source -> SUBSET Source]
    /\ {RowsOf, BadRows, OrphanRows, History} \subseteq [Source -> Nat]
    /\ \A s \in Source : OrphanRows[s] <= BadRows[s] /\ BadRows[s] <= RowsOf[s]
    /\ Versioned \subseteq Source /\ \A s \in Source \ Versioned : History[s] = 0
    /\ {MaxAttempts, MaxFaults, MaxCrashes} \subseteq Nat
    /\ AuditMayLag \in BOOLEAN /\ Checksum # {}
    /\ NULL \notin Batch \cup Frame /\ Torn \notin Count \cup Frame

VARIABLES
    readable,       \* does the Bronze resolver find a partition for (batch, source)?
    file_audit,
    pipeline_runs,  \* the status of the silver layer per batch
    rejected,       \* rows in the quarantine partition of (source, batch), NULL if none
    dq_reports,     \* the report of a batch that has one
    silver,         \* the partition of the artifact of (source, batch), NULL if none
    pc, batch, pos,
    fk_lookups,     \* were the foreign key lookups built?
    clean_bronze,   \* the frames that Silver will build from, by source
    dq_results,     \* the rejected rows of the DQ results, by source
    built,          \* the sources whose frame was built in this run
    results,        \* "written" or "failed" by source
    attempts, faults, crashes

stores == <<readable, file_audit, pipeline_runs, rejected, dq_reports, silver>>
memory == <<fk_lookups, clean_bronze, dq_results, built, results>>
bounds == <<attempts, faults, crashes>>
vars   == <<stores, pc, batch, pos, memory, bounds>>

source == Registry[pos]
here   == <<source, batch>>
KeyOf(b, s) == <<b, FileOf[s]>>

(* A file that landed in Bronze.  Its counts are those of the data. *)
LandedRow(s) ==
    [NewRow(CHOOSE c \in Checksum : TRUE, 0) EXCEPT
        !.status = "ingested", !.source_rows = RowsOf[s], !.bronze_rows = RowsOf[s]]

FailedRow == [NewRow(CHOOSE c \in Checksum : TRUE, 0) EXCEPT !.status = "failed"]

(* What a Bronze run leaves: under the DAG every file has landed; the runner
   itself may be started by hand after a Bronze run that failed for some,
   and the resolver may then still find the data of an older batch.        *)
Init ==
    /\ \E landed, absent \in SUBSET (Batch \X Source) :
          /\ absent \cap landed = {}
          /\ ~AuditMayLag => landed = Batch \X Source
          /\ file_audit = [k \in {KeyOf(p[1], p[2]) : p \in (Batch \X Source) \ absent} |->
                              IF <<k[1], SourceOf[k[2]]>> \in landed THEN LandedRow(SourceOf[k[2]])
                              ELSE FailedRow]
          /\ readable \in [Source \X Batch -> BOOLEAN]
          \* a file without rows lands without a partition
          /\ \A p \in landed : RowsOf[p[2]] > 0 => readable[<<p[2], p[1]>>]
          /\ \A p \in Source \X Batch : readable[p] => RowsOf[p[1]] > 0
    /\ pipeline_runs = [b \in Batch |-> "none"]
    /\ rejected = [p \in Source \X Batch |-> NULL]
    /\ dq_reports = << >>
    /\ silver = [p \in Source \X Batch |-> NULL]
    /\ pc = "idle" /\ batch = NULL /\ pos = 0
    /\ fk_lookups = FALSE /\ clean_bronze = << >> /\ dq_results = << >>
    /\ built = {} /\ results = << >>
    /\ attempts = [b \in Batch |-> 0] /\ faults = 0 /\ crashes = 0

-----------------------------------------------------------------------------
(* The run *)

GoTo(step) == pc' = step /\ UNCHANGED <<batch, pos>>

(* The loops of the run go over the sources in the same order. *)
NextSource(loop, after) ==
    /\ IF pos < Len(Registry) THEN pos' = pos + 1 /\ pc' = loop
                              ELSE pos' = 1 /\ pc' = after
    /\ UNCHANGED batch

(* What a write that does not end leaves of a partition.  write_parquet
   goes over the partition values of its frame: one without rows removes
   nothing and writes nothing.                                             *)
Interrupted(old) == {old, NULL, Torn}

Fault == faults < MaxFaults /\ faults' = faults + 1
NoFault == UNCHANGED faults

StartRun(b) ==
    /\ pc = "idle"
    /\ pipeline_runs[b] # "success"
    /\ attempts[b] < MaxAttempts
    /\ attempts' = [attempts EXCEPT ![b] = @ + 1]
    /\ pipeline_runs' = [pipeline_runs EXCEPT ![b] = "running"]
    /\ pc' = "lookups" /\ batch' = b /\ pos' = 1
    /\ UNCHANGED <<readable, file_audit, rejected, dq_reports, silver, memory, faults, crashes>>

(* build_fk_lookups; on an exception the run goes on without any. *)
BuildFkLookups ==
    /\ pc = "lookups"
    /\ \/ fk_lookups' = TRUE /\ NoFault
       \/ fk_lookups' = FALSE /\ Fault
    /\ GoTo("read")
    /\ UNCHANGED <<stores, clean_bronze, dq_results, built, results, attempts, crashes>>

(* run_dq_for_source quarantines the rows that break a critical rule.  A
   foreign key rule passes every row when its lookup is missing: because
   building it failed or because the referenced source is not readable.    *)
Rejects(s) ==
    IF fk_lookups /\ \A r \in References[s] : readable[<<r, batch>>] THEN BadRows[s]
    ELSE BadRows[s] - OrphanRows[s]

Raw(s)   == [rows |-> RowsOf[s], bad |-> BadRows[s]]
Clean(s) == [rows |-> RowsOf[s] - Rejects(s), bad |-> BadRows[s] - Rejects(s)]

With(f, s, v) == [x \in DOMAIN f \cup {s} |-> IF x = s THEN v ELSE f[x]]

(* The DQ pass over one source: no Bronze partition, no DQ; if DQ raises,
   the builders get what Bronze has.                                       *)
RunDq ==
    /\ pc = "read"
    /\ \/ /\ ~readable[here]
          /\ UNCHANGED <<clean_bronze, dq_results>> /\ NoFault
          /\ NextSource("read", "report")
       \/ /\ readable[here] /\ NoFault
          /\ dq_results' = With(dq_results, source, Rejects(source))
          /\ clean_bronze' = With(clean_bronze, source, Clean(source))
          /\ IF Rejects(source) > 0 THEN GoTo("quarantine") ELSE NextSource("read", "report")
       \/ /\ readable[here] /\ Fault
          /\ clean_bronze' = With(clean_bronze, source, Raw(source))
          /\ UNCHANGED dq_results
          /\ NextSource("read", "report")
    /\ UNCHANGED <<stores, fk_lookups, built, results, attempts, crashes>>

(* Mutant: a failed quarantine write keeps the clean frame. *)
QuarantineLossy ==
    /\ pc = "quarantine"
    /\ \/ /\ rejected' = [rejected EXCEPT ![here] = dq_results[source]] /\ NoFault
          /\ GoTo("record_quarantine")
       \/ /\ \E left \in Interrupted(rejected[here]) : rejected' = [rejected EXCEPT ![here] = left]
          /\ Fault /\ NextSource("read", "report")
    /\ UNCHANGED <<readable, file_audit, pipeline_runs, dq_reports, silver, memory,
                   attempts, crashes>>

(* quarantine_rejected_rows is in the same try block as the DQ run; there is
   a row to write, or the block is not entered.                            *)
Quarantine ==
    /\ pc = "quarantine"
    /\ \/ /\ rejected' = [rejected EXCEPT ![here] = dq_results[source]]
          /\ UNCHANGED clean_bronze /\ NoFault
          /\ GoTo("record_quarantine")
       \/ /\ Fault
          /\ clean_bronze' = With(clean_bronze, source, Raw(source))
          /\ \E left \in Interrupted(rejected[here]) : rejected' = [rejected EXCEPT ![here] = left]
          /\ NextSource("read", "report")
    /\ UNCHANGED <<readable, file_audit, pipeline_runs, dq_reports, silver,
                   fk_lookups, dq_results, built, results, attempts, crashes>>

(* record_quarantine, best effort. *)
RecordQuarantine ==
    /\ pc = "record_quarantine"
    /\ LET ks == FilesOf(file_audit, batch, source) IN
       \/ file_audit' = WithRejected(file_audit, ks, dq_results[source]) /\ NoFault
       \/ UNCHANGED file_audit /\ Fault
    /\ NextSource("read", "report")
    /\ UNCHANGED <<readable, pipeline_runs, rejected, dq_reports, silver, memory, attempts, crashes>>

SumOver(f) == FoldFunction(+, 0, f)

(* Mutant: sources are counted, not rows. *)
ReportOfSources ==
    [ rows_in      |-> SumOver([s \in DOMAIN dq_results |-> RowsOf[s]]),
      quarantined  |-> Cardinality({s \in DOMAIN dq_results : dq_results[s] > 0}),
      critical     |-> \E s \in DOMAIN dq_results : dq_results[s] > 0 ]

Report ==
    [ rows_in      |-> SumOver([s \in DOMAIN dq_results |-> RowsOf[s]]),
      quarantined  |-> SumOver(dq_results),
      critical     |-> \E s \in DOMAIN dq_results : dq_results[s] > 0 ]

(* write_report, if there is any result to report; best effort. *)
WriteReport ==
    /\ pc = "report"
    /\ \/ dq_results # << >> /\ dq_reports' = With(dq_reports, batch, Report) /\ NoFault
       \/ dq_results = << >> /\ UNCHANGED dq_reports /\ NoFault
       \/ dq_results # << >> /\ UNCHANGED dq_reports /\ Fault
    /\ GoTo("transforming")
    /\ UNCHANGED <<readable, file_audit, pipeline_runs, rejected, silver, memory, attempts, crashes>>

(* Mutant: a source that may not be transformed is failed at once. *)
MarkTransformingStrict ==
    /\ pc = "transforming"
    /\ LET ks == FilesOf(file_audit, batch, source) IN
       file_audit' = IF CanAdvance(file_audit, ks, "transforming")
                     THEN WithTransforming(file_audit, ks)
                     ELSE [k \in DOMAIN file_audit |-> IF k \in ks THEN WithFailed(file_audit, k)[k]
                                                       ELSE file_audit[k]]
    /\ NextSource("transforming", "build")
    /\ UNCHANGED <<readable, pipeline_runs, rejected, dq_reports, silver, memory, bounds>>

(* mark_transforming for every source; an AuditStateError is logged. *)
MarkTransforming ==
    /\ pc = "transforming"
    /\ LET ks == FilesOf(file_audit, batch, source) IN
       file_audit' = IF CanAdvance(file_audit, ks, "transforming")
                     THEN WithTransforming(file_audit, ks) ELSE file_audit
    /\ NextSource("transforming", "build")
    /\ UNCHANGED <<readable, pipeline_runs, rejected, dq_reports, silver, memory, bounds>>

(* Mutant: the builders read Bronze and not the clean frames. *)
ArtifactOfBronze(s) == [Raw(s) EXCEPT !.rows = @ + History[s]]

(* rows_written of a built artifact.  What a dimension gets from its history
   when its own partition of an earlier try is merged too is PlayerHistory's. *)
Artifact(s) == [clean_bronze[s] EXCEPT !.rows = @ + History[s]]

(* The builder has the frames it needs, and can read its dimension: pyarrow
   reads every partition of it, and raises when one is torn (run.py:217).  *)
CanBuild ==
    /\ source \in DOMAIN clean_bronze /\ Needs[source] \subseteq built
    /\ source \in Versioned => \A b \in Batch : silver[<<source, b>>] # Torn

(* The new partition, when the artifact has a row to put there. *)
WithArtifact ==
    [silver EXCEPT ![here] = IF Artifact(source).rows > 0 THEN Artifact(source) ELSE @]

(* What a write that does not end leaves of Silver. *)
HalfWritten ==
    {silver} \cup {[silver EXCEPT ![here] = left] :
                      left \in IF Artifact(source).rows > 0 THEN Interrupted(silver[here]) ELSE {}}

(* _build_artifact_safe: the builder raises without the frames it needs, or
   for another reason, and the write can raise after the builder returned. *)
BuildArtifact ==
    /\ pc = "build"
    /\ \/ /\ CanBuild /\ NoFault
          /\ built' = built \cup {source}
          /\ silver' = WithArtifact
          /\ results' = With(results, source, "written")
       \/ /\ CanBuild /\ Fault
          /\ \/ UNCHANGED <<built, silver>>
             \/ built' = built \cup {source} /\ silver' \in HalfWritten
          /\ results' = With(results, source, "failed")
       \/ /\ ~CanBuild /\ NoFault
          /\ results' = With(results, source, "failed")
          /\ UNCHANGED <<built, silver>>
    /\ NextSource("build", "finalise")
    /\ UNCHANGED <<readable, file_audit, pipeline_runs, rejected, dq_reports,
                   fk_lookups, clean_bronze, dq_results, attempts, crashes>>

(* The audit reconciliation pass: an illegal transition is logged, and so is
   any other exception of the audit calls, of either branch.               *)
FinaliseSource ==
    /\ pc = "finalise"
    /\ LET ks == FilesOf(file_audit, batch, source) IN
       \/ /\ results[source] = "failed" /\ NoFault
          /\ file_audit' = [k \in DOMAIN file_audit |->
                                IF k \in ks THEN WithFailed(file_audit, k)[k] ELSE file_audit[k]]
       \/ /\ results[source] = "written" /\ NoFault
          /\ file_audit' = IF CanAdvance(file_audit, ks, "transformed")
                           THEN WithTransformed(file_audit, ks, Artifact(source).rows)
                           ELSE file_audit
       \/ Fault /\ UNCHANGED file_audit
    /\ NextSource("finalise", "verdict")
    /\ UNCHANGED <<readable, pipeline_runs, rejected, dq_reports, silver, memory, attempts, crashes>>

(* Mutant: what has been built survives the run. *)
ExitKeepsBuilt ==
    /\ pc' = "idle" /\ batch' = NULL /\ pos' = 0
    /\ fk_lookups' = FALSE /\ clean_bronze' = << >> /\ dq_results' = << >>
    /\ built' = built /\ results' = << >>

Exit ==
    /\ pc' = "idle" /\ batch' = NULL /\ pos' = 0
    /\ fk_lookups' = FALSE /\ clean_bronze' = << >> /\ dq_results' = << >>
    /\ built' = {} /\ results' = << >>

(* Mutant: the layer fails only when every artifact did. *)
VerdictIfAny ==
    /\ pc = "verdict"
    /\ pipeline_runs' = [pipeline_runs EXCEPT ![batch] =
                            IF "written" \notin Range(results) THEN "failed" ELSE "success"]
    /\ Exit
    /\ UNCHANGED <<readable, file_audit, rejected, dq_reports, silver, bounds>>

Verdict ==
    /\ pc = "verdict"
    /\ pipeline_runs' = [pipeline_runs EXCEPT ![batch] =
                            IF "failed" \in Range(results) THEN "failed" ELSE "success"]
    /\ Exit
    /\ UNCHANGED <<readable, file_audit, rejected, dq_reports, silver, bounds>>

(* The process is killed, in the middle of a write too. *)
Crash ==
    /\ pc # "idle"
    /\ crashes < MaxCrashes
    /\ crashes' = crashes + 1
    /\ IF pc = "quarantine"
       THEN \E left \in Interrupted(rejected[here]) : rejected' = [rejected EXCEPT ![here] = left]
       ELSE UNCHANGED rejected
    /\ silver' \in IF pc = "build" /\ CanBuild THEN HalfWritten ELSE {silver}
    /\ Exit
    /\ UNCHANGED <<readable, file_audit, pipeline_runs, dq_reports, attempts, faults>>

RunStep ==
    \/ BuildFkLookups \/ RunDq \/ Quarantine \/ RecordQuarantine \/ WriteReport
    \/ MarkTransforming \/ BuildArtifact \/ FinaliseSource \/ Verdict

Next ==
    \/ \E b \in Batch : StartRun(b)
    \/ RunStep
    \/ Crash

Spec == Init /\ [][Next]_vars

-----------------------------------------------------------------------------
(* Properties *)

Succeeded(b) == pipeline_runs[b] = "success"
AuditRow(s, b) == file_audit[KeyOf(b, s)]
ReconcilesOn(s, b) == KeyOf(b, s) \in DOMAIN file_audit

(* The rows a partition gives to who reads it. *)
Kept(s, b)     == IF silver[<<s, b>>] \in {NULL, Torn} THEN 0 ELSE silver[<<s, b>>].rows
Rejected(s, b) == IF rejected[<<s, b>>] \in {NULL, Torn} THEN 0 ELSE rejected[<<s, b>>]

Whole(s, b) == silver[<<s, b>>] \notin {NULL, Torn}

(* All that Bronze has of the source is in quarantine, and its dimension has
   no rows of earlier batches: the artifact is empty.                      *)
NothingLeft(s, b) == History[s] = 0 /\ rejected[<<s, b>>] = RowsOf[s]

(* The stores keep their shape, and the frames of a run are those of its
   sources.                                                                *)
TypeOK ==
    /\ DOMAIN file_audit \subseteq Key /\ \A k \in DOMAIN file_audit : file_audit[k] \in Row
    /\ pipeline_runs \in [Batch -> {"none", "running", "success", "failed"}]
    /\ rejected \in [Source \X Batch -> Count \cup {Torn}]
    /\ \A p \in Source \X Batch : silver[p] \in Frame \cup {NULL, Torn}
    /\ pc = "idle" <=> batch = NULL
    /\ pc # "idle" => pos \in DOMAIN Registry
    /\ DOMAIN dq_results \subseteq DOMAIN clean_bronze
    /\ built \subseteq DOMAIN clean_bronze
    /\ pc = "verdict" => DOMAIN results = Source

(* "One bad source does NOT kill the batch", but no batch is successful
   without its data: the verdict is "success" (run.py:694) only when every
   artifact has a whole partition of the batch on disk, or every row of its
   source is in quarantine.  In that case write_parquet writes no partition
   (pandas_engine.py:127-140), and what an earlier run of the batch has left
   there stays, torn or not.                                               *)
SuccessHasEveryArtifact ==
    \A b \in Batch : Succeeded(b) => \A s \in Source : Whole(s, b) \/ NothingLeft(s, b)

(* A source of which nothing has gone wrong before Silver. *)
Landed(s, b) == ReconcilesOn(s, b) /\ AuditRow(s, b).bronze_rows # NULL

(* A layer that is recorded as successful is recorded as such file by file
   too, with the rows that are on disk: file_audit and pipeline_runs are
   written by different calls, and a run may be killed between them, or in a
   write.  This is for files that landed and runs in which no step raises: a
   source whose artifact failed once is "failed" for good, also when the
   retry of the batch succeeds, and an exception of the audit call is only
   logged (run.py:480-499, 664-691).                                       *)
SuccessMeansTransformed ==
    \A b \in Batch, s \in Source : Succeeded(b) /\ Landed(s, b) /\ faults = 0 =>
        /\ AuditRow(s, b).status = "transformed"
        /\ AuditRow(s, b).silver_rows = Kept(s, b)

(* The data quality pass loses no row and doubles none: what Bronze has (and
   the history of the dimension) is what Silver and the quarantine partition
   hold together (run.py:403-458).  In a first run from the moment that the
   artifact is on disk, whichever of the DQ steps raised; and once the batch
   has succeeded, after any number of re-runs and of kills, in the middle of
   the removal and rewriting of either partition too, if no step raised.
   While a re-run is under way the old Silver partition may stand beside a
   quarantine that is gone (pandas_engine.py:134), and a re-run whose DQ
   raises leaves the quarantine of the run before it.  A dimension with a
   history is left out of the second part, since a re-run merges its own
   earlier partition once more (PlayerHistory).                            *)
RowsAreConserved ==
    \A s \in Source, b \in Batch :
        \/ attempts[b] = 1 /\ (Whole(s, b) \/ Succeeded(b))
        \/ Succeeded(b) /\ faults = 0 /\ History[s] = 0
        => Kept(s, b) + Rejected(s, b) = RowsOf[s] + History[s]

(* "Rows that fail critical rules never reach Silver" (run.py:373-374), when
   no step raises and the referenced sources can be read; when DQ or the
   write of the quarantine raises, the builders get the frame of Bronze
   (run.py:453-458), and without a lookup every foreign key passes.        *)
DirtyRowsNeverReachSilver ==
    \A s \in Source, b \in Batch :
        Whole(s, b) /\ faults = 0 /\ (\A r \in References[s] : readable[<<r, b>>]) =>
            silver[<<s, b>>].bad = 0

(* A batch that succeeded can be reconciled: no CRITICAL finding of
   reconcile_batch, silver_rows = bronze_rows - rejected_rows included
   (ADR-0001:88, audit.py:1078), for any artifact that is made of the rows of
   its batch alone: the count of players is the one of the whole dimension,
   so that with any history reconcile_batch finds a drift.  In a first run
   whatever raises, and after kills and re-runs in which nothing does: a
   re-run whose DQ raises finds the rejected_rows of the run before.  The one
   exception is a source all of whose rows are in quarantine: its batch
   succeeds, and reconcile_batch reports complete_silver_loss.             *)
SuccessReconciles ==
    \A b \in Batch : Succeeded(b) /\ (attempts[b] = 1 \/ faults = 0) =>
        \A s \in Source : ReconcilesOn(s, b) /\ History[s] = 0 =>
            \A f \in Findings(AuditRow(s, b)) :
                f[1] = "CRITICAL" => f[2] = "complete_silver_loss" /\ NothingLeft(s, b)

(* The gate (airflow_wrappers.py:170) reads the report of the batch: after a
   successful Silver run there is one, and it counts the rows that the
   quarantine partitions of the batch hold, when no step raised (that the
   report could not be written is only logged, run.py:473).                *)
GateSeesTheQuarantine ==
    \A b \in Batch : Succeeded(b) /\ faults = 0 =>
        /\ b \in DOMAIN dq_reports
        /\ dq_reports[b].quarantined = SumOver([s \in Source |-> Rejected(s, b)])

(* "TRANSFORMED: terminal success" (audit.py:115): what happened to a file is
   settled when it is transformed, when a run is killed and its batch run
   again.  The code has mark_failed overwrite any status (audit.py:740), so a
   later run in which a step raises would undo it; and so would one that
   finds a dimension it cannot read since a run was killed while writing it. *)
TransformedIsTerminal ==
    [][\A k \in DOMAIN file_audit :
          /\ file_audit[k].status = "transformed" /\ faults' = 0
          /\ \A s \in Versioned, b \in Batch : silver[<<s, b>>] # Torn
          => file_audit'[k].status = "transformed"]_vars
=============================================================================
